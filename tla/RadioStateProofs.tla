-------------------------- MODULE RadioStateProofs --------------------------
(***************************************************************************)
(* Proofs about the radio state, for any number of connections and inputs. *)
(* No invariant below is inductive as a run checks it: each one says what  *)
(* a thread owes after it has released s_state_mutex.                      *)
(***************************************************************************)
EXTENDS RadioState, TLAPS

(* What the proofs need of the types.                                      *)
TypeInv ==
  /\ sState \in RadioStates
  /\ s_closed \in {0, 1}
  /\ opens \in 0..MaxOpens
  /\ DOMAIN pc = Threads /\ newState \in [Threads -> RadioStates] /\ DOMAIN oldState = Threads
  /\ told \in {0, 1} /\ configured \in {0, 1}

(* A reader that does not exist yet does nothing, the main loop creates    *)
(* the newest one, and a reader never asks for ON.                         *)
ReaderInv ==
  /\ \A k \in Readers : k > opens => pc[k] = "notCreated"
  /\ mpc = "at_open" => opens > 0 /\ pc[opens] = "notCreated"
  /\ opens = 0 => s_closed = 0
  /\ \A k \in Readers : newState[k] # "ON"

(* A change that no indication was begun for is owed by a thread: one that *)
(* will see the change when it compares, or that has seen it.              *)
IndicationOwed ==
  \/ told = 1
  \/ \E t \in Threads :
       \/ pc[t] = "indicate"
       \/ pc[t] = "compare" /\ oldState[t] # sState

(* A radio that is ON and not set up has a thread, no reader, that will    *)
(* find it ON.                                                             *)
SetUpOwed ==
  \/ sState # "ON"
  \/ configured = 1
  \/ \E t \in {Event, Binder} :
       \/ pc[t] \in {"indicate", "checkOn", "onRadioPowerOn"}
       \/ pc[t] = "compare" /\ oldState[t] # "ON"

Inv == TypeInv /\ ReaderInv /\ ClosedMeansUnavailable /\ IndicationOwed /\ SetUpOwed

-----------------------------------------------------------------------------
(* Init establishes the invariant.                                         *)
LEMMA InvInit == Init => Inv
<1> SUFFICES ASSUME Init PROVE Inv
  OBVIOUS
<1>1. TypeInv
  BY RadioAssumption DEF Init, TypeInv, RadioStates
<1>2. ReaderInv
  BY RadioAssumption, ZenonT(60) DEF Init, ReaderInv, Readers, Threads
<1>3. ClosedMeansUnavailable /\ IndicationOwed /\ SetUpOwed
  BY DEF Init, ClosedMeansUnavailable, IndicationOwed, SetUpOwed
<1> QED BY <1>1, <1>2, <1>3 DEF Inv

(* A thread outside setRadioState that moves on, perhaps with an argument  *)
(* for setRadioState, disturbs nothing.                                    *)
LEMMA ThreadMoves ==
  ASSUME Inv, NEW t \in Threads, NEW l, NEW s \in RadioStates,
         pc[t] \notin {"notCreated", "setRadioState", "compare", "indicate", "checkOn",
                      "onRadioPowerOn"},
         pc' = [pc EXCEPT ![t] = l],
         \/ newState' = newState
         \/ newState' = [newState EXCEPT ![t] = s] /\ (t \in Readers => s # "ON"),
         UNCHANGED <<stateVars, oldState, mainVars, ghostVars>>
  PROVE  Inv'
<1> USE DEF stateVars, mainVars, ghostVars
<1>1. TypeInv'
  BY DEF Inv, TypeInv, RadioStates
<1>2. opens \in Int /\ opens' = opens /\ mpc' = mpc /\ s_closed' = s_closed
  BY RadioAssumption DEF Inv, TypeInv
<1>3. ReaderInv'
  BY <1>2 DEF Inv, TypeInv, ReaderInv, Readers, Threads
<1>4. ClosedMeansUnavailable'
  BY <1>2 DEF Inv, TypeInv, ClosedMeansUnavailable
<1>5. IndicationOwed'
  BY DEF Inv, TypeInv, IndicationOwed
<1>6. SetUpOwed'
  BY DEF Inv, TypeInv, SetUpOwed, Threads
<1> QED BY <1>1, <1>3, <1>4, <1>5, <1>6 DEF Inv

(* A step that no variable of the invariant notices.                       *)
LEMMA NothingMoves ==
  ASSUME Inv, UNCHANGED <<stateVars, threadVars, opens, ghostVars>>, mpc' # "at_open" \/ mpc' = mpc
  PROVE  Inv'
BY DEF Inv, TypeInv, ReaderInv, ClosedMeansUnavailable, IndicationOwed, SetUpOwed, stateVars,
       threadVars, ghostVars

(* The event loop and the binder thread are no readers.                    *)
LEMMA NotReaders == Event \notin Readers /\ Binder \notin Readers
BY RadioAssumption DEF Event, Binder, Readers

(* The state that setRadioState writes is a radio state.                   *)
LEMMA EffectiveTyped ==
  ASSUME Inv, NEW t \in Threads
  PROVE  newState[t] \in RadioStates => Effective(newState[t]) \in RadioStates
BY DEF Effective, RadioStates

(* The steps of setRadioState itself.                                      *)
LEMMA SetRadioStatePreserves ==
  ASSUME Inv, NEW t \in Threads, setRadioStateStep(t)
  PROVE  Inv'
<1> USE DEF stateVars, mainVars, ghostVars
<1>0. opens \in Int /\ opens' = opens /\ mpc' = mpc /\ s_closed' = s_closed
  BY RadioAssumption DEF Inv, TypeInv, setRadioStateStep, SetLocked, Compare,
     radioStateChangedInd, CheckOn, onRadioPowerOn
<1>1. CASE SetLocked(t)
  <2>1. /\ pc[t] = "setRadioState"
        /\ oldState' = [oldState EXCEPT ![t] = sState]
        /\ sState' = Effective(newState[t])
        /\ told' = IF sState' = sState THEN told ELSE 0
        /\ configured' = IF sState' = "ON" /\ sState # "ON" THEN 0 ELSE configured
        /\ pc' = [pc EXCEPT ![t] = "compare"]
        /\ newState' = [newState EXCEPT ![t] = "UNAVAILABLE"]
    BY <1>1 DEF SetLocked, Goto, Forget
  <2>2. TypeInv'
    BY <1>0, <1>1, <2>1, EffectiveTyped DEF Inv, TypeInv, RadioStates
  <2>3. ReaderInv'
    BY <1>0, <2>1 DEF Inv, TypeInv, ReaderInv, Readers
  <2>4. ClosedMeansUnavailable'
    BY <1>0, <2>1 DEF Inv, TypeInv, ClosedMeansUnavailable, Effective
  <2>5. IndicationOwed'
    <3>1. CASE sState' = sState
      BY <2>1, <3>1 DEF Inv, TypeInv, IndicationOwed
    <3>2. CASE sState' # sState
      BY <2>1, <3>2 DEF Inv, TypeInv, IndicationOwed
    <3> QED BY <3>1, <3>2
  <2>6. SetUpOwed'
    <3>1. CASE sState' # "ON"
      BY <3>1 DEF SetUpOwed
    <3>2. CASE sState' = "ON" /\ sState = "ON"
      BY <2>1, <3>2 DEF Inv, TypeInv, SetUpOwed, Threads
    <3>3. CASE sState' = "ON" /\ sState # "ON"
      <4>1. t \in {Event, Binder}
        BY <2>1, <3>3 DEF Inv, ReaderInv, Effective, Threads
      <4>2. pc'[t] = "compare" /\ oldState'[t] # "ON"
        BY <2>1, <3>3 DEF Inv, TypeInv
      <4> QED BY <4>1, <4>2 DEF SetUpOwed
    <3> QED BY <3>1, <3>2, <3>3
  <2> QED BY <2>2, <2>3, <2>4, <2>5, <2>6 DEF Inv
<1>2. ASSUME pc[t] \in {"compare", "indicate", "checkOn", "onRadioPowerOn"},
             pc' = [pc EXCEPT ![t] = pc'[t]],
             UNCHANGED <<stateVars, newState>>,
             DOMAIN oldState' = Threads, told' \in {0, 1}, configured' \in {0, 1}
      PROVE  TypeInv' /\ ReaderInv' /\ ClosedMeansUnavailable'
  <2>1. TypeInv'
    BY <1>0, <1>2 DEF Inv, TypeInv
  <2>2. \A u \in Threads : u # t => pc'[u] = pc[u]
    BY <1>2 DEF Inv, TypeInv
  <2>3. opens \in Threads /\ Readers \subseteq Threads
    BY RadioAssumption DEF Inv, TypeInv, Threads, Readers, Event
  <2>4. ReaderInv'
    BY <1>0, <1>2, <2>2, <2>3 DEF Inv, ReaderInv
  <2>5. ClosedMeansUnavailable'
    BY <1>0, <1>2, <2>2, <2>3 DEF Inv, ClosedMeansUnavailable
  <2> QED BY <2>1, <2>4, <2>5
<1>3. CASE Compare(t)
  <2>1. /\ pc[t] = "compare"
        /\ pc' = [pc EXCEPT ![t] = IF Changed(t) THEN "indicate" ELSE back[t]]
        /\ oldState' = [oldState EXCEPT ![t] = "UNAVAILABLE"]
        /\ UNCHANGED <<stateVars, newState, ghostVars>>
    BY <1>3 DEF Compare, Goto, Return, Forget
  <2>2. TypeInv' /\ ReaderInv' /\ ClosedMeansUnavailable'
    BY <1>2, <2>1 DEF Inv, TypeInv
  <2>3. IndicationOwed'
    BY <2>1 DEF Inv, TypeInv, IndicationOwed, Changed
  <2>4. SetUpOwed'
    BY <2>1 DEF Inv, TypeInv, SetUpOwed, Changed, Threads
  <2> QED BY <2>2, <2>3, <2>4 DEF Inv
<1>4. CASE radioStateChangedInd(t)
  <2>1. /\ pc[t] = "indicate" /\ told' = 1
        /\ pc' = [pc EXCEPT ![t] = "checkOn"]
        /\ UNCHANGED <<stateVars, newState, oldState, configured>>
    BY <1>4 DEF radioStateChangedInd, Goto, locals
  <2>2. TypeInv' /\ ReaderInv' /\ ClosedMeansUnavailable'
    BY <1>2, <2>1 DEF Inv, TypeInv
  <2>3. SetUpOwed'
    BY <2>1 DEF Inv, TypeInv, SetUpOwed, Threads
  <2> QED BY <2>1, <2>2, <2>3 DEF Inv, IndicationOwed
<1>5. CASE CheckOn(t)
  <2>1. /\ pc[t] = "checkOn"
        /\ pc' = [pc EXCEPT ![t] = IF sState = "ON" THEN "onRadioPowerOn" ELSE back[t]]
        /\ UNCHANGED <<stateVars, newState, oldState, ghostVars>>
    BY <1>5 DEF CheckOn, IsOn, Goto, Return
  <2>2. TypeInv' /\ ReaderInv' /\ ClosedMeansUnavailable'
    BY <1>2, <2>1 DEF Inv, TypeInv
  <2>3. IndicationOwed' /\ SetUpOwed'
    BY <2>1 DEF Inv, TypeInv, IndicationOwed, SetUpOwed, Threads
  <2> QED BY <2>2, <2>3 DEF Inv
<1>6. CASE onRadioPowerOn(t)
  <2>1. /\ pc[t] = "onRadioPowerOn"
        /\ configured' = IF t \in Readers THEN configured ELSE 1
        /\ pc' = [pc EXCEPT ![t] = back[t]]
        /\ UNCHANGED <<stateVars, newState, oldState, told>>
    BY <1>6 DEF onRadioPowerOn, Goto, Return
  <2>2. TypeInv' /\ ReaderInv' /\ ClosedMeansUnavailable'
    BY <1>2, <2>1 DEF Inv, TypeInv
  <2>3. IndicationOwed'
    BY <2>1 DEF Inv, TypeInv, IndicationOwed
  <2>4. SetUpOwed'
    BY <2>1, NotReaders DEF Inv, TypeInv, SetUpOwed, Threads
  <2> QED BY <2>2, <2>3, <2>4 DEF Inv
<1> QED BY <1>1, <1>3, <1>4, <1>5, <1>6 DEF setRadioStateStep

(* One of the other actions: the invariant is kept.                        *)
LEMMA InvStep == Inv /\ [Next]_vars => Inv'
<1> SUFFICES ASSUME Inv, [Next]_vars PROVE Inv'
  OBVIOUS
<1> USE DEF stateVars, threadVars, mainVars, ghostVars, locals
<1>1. CASE \E t \in Threads : setRadioStateStep(t)
  BY <1>1, SetRadioStatePreserves
<1>2. CASE EventStep
  <2>1. Event \in Threads /\ Event \notin Readers
    BY NotReaders DEF Threads
  <2>2. CASE StartInitialize
    BY ZenonT(60), <2>1, <2>2, ThreadMoves DEF StartInitialize, CallSetRadioState, Goto, RadioStates
  <2>3. CASE FinishInitialize
    <3>1. \/ CallSetRadioState(Event, "ON", "idle")
          \/ Goto(Event, "idle") /\ UNCHANGED newState /\ UNCHANGED oldState
      BY <2>3 DEF FinishInitialize
    <3> QED
      BY <2>1, <2>3, <3>1, ThreadMoves DEF FinishInitialize, CallSetRadioState, Goto, RadioStates
  <2>4. CASE PollTimer
    BY <2>4, NothingMoves DEF PollTimer
  <2> QED BY <1>2, <2>2, <2>3, <2>4 DEF EventStep
<1>3. CASE BinderStep \/ \E r \in Requests : onRequest(r)
  <2>1. Binder \in Threads /\ Binder \notin Readers
    BY NotReaders DEF Threads
  <2>2. ASSUME pc[Binder] \in {"idle", "powerOn", "powerOff", "shutdown", "CFUN=0", "CFUN=1",
                              "isRadioOn", "shutdownCFUN=0"},
               pc' = [pc EXCEPT ![Binder] = pc'[Binder]],
               \/ newState' = newState
               \/ \E s \in RadioStates : newState' = [newState EXCEPT ![Binder] = s],
               UNCHANGED <<stateVars, oldState, mainVars, ghostVars>>
        PROVE  Inv'
    BY <2>1, <2>2, ThreadMoves DEF RadioStates
  <2>3. DOMAIN pc = Threads
    BY DEF Inv, TypeInv
  <2> USE <2>1, <2>2, <2>3 DEF Goto, CallSetRadioState, RadioStates
  <2>4. ASSUME NEW r \in Requests, onRequest(r) PROVE Inv'
    BY <2>4 DEF onRequest
  <2>5. CASE requestRadioPowerOff
    BY <2>5 DEF requestRadioPowerOff
  <2>6. CASE requestRadioPowerOn
    BY <2>6 DEF requestRadioPowerOn
  <2>7. CASE CheckRadioOn
    BY <2>7 DEF CheckRadioOn
  <2>8. CASE requestShutdown
    BY <2>8 DEF requestShutdown
  <2>9. ASSUME NEW ok \in BOOLEAN, SendCfun0(ok) PROVE Inv'
    BY <2>9 DEF SendCfun0
  <2>10. ASSUME NEW ok \in BOOLEAN, SendCfun1(ok) PROVE Inv'
    BY <2>10 DEF SendCfun1
  <2>11. ASSUME NEW ok \in BOOLEAN, ShutdownCfun0(ok) PROVE Inv'
    BY <2>11 DEF ShutdownCfun0
  <2> QED BY <1>3, <2>4, <2>5, <2>6, <2>7, <2>8, <2>9, <2>10, <2>11 DEF BinderStep
<1>4. ASSUME NEW k \in Readers, onUnsolicited(k) PROVE Inv'
  <2>1. k \in Threads
    BY DEF Threads
  <2>2. CASE sState = "UNAVAILABLE"
    BY <1>4, <2>2, NothingMoves DEF onUnsolicited
  <2>3. CASE sState # "UNAVAILABLE"
    BY <1>4, <2>1, <2>3, ThreadMoves DEF onUnsolicited, CallSetRadioState, Goto, RadioStates
  <2> QED BY <2>2, <2>3
<1>5. ASSUME NEW k \in Readers, onATReaderClosed(k) PROVE Inv'
  <2>1. /\ k \in Threads /\ k = opens /\ pc[k] = "read"
        /\ s_closed' = 1
        /\ pc' = [pc EXCEPT ![k] = "setRadioState"]
        /\ newState' = [newState EXCEPT ![k] = "UNAVAILABLE"]
        /\ UNCHANGED <<sState, oldState, mainVars, ghostVars>>
    BY <1>5 DEF onATReaderClosed, CallSetRadioState, Goto, Threads
  <2>2. k \in Int /\ k > 0
    BY <1>5, RadioAssumption DEF Readers
  <2>3. TypeInv'
    BY <2>1 DEF Inv, TypeInv, RadioStates
  <2>4. ReaderInv'
    BY <2>1, <2>2 DEF Inv, TypeInv, ReaderInv, Readers
  <2>5. ClosedMeansUnavailable'
    BY <2>1 DEF Inv, TypeInv, ClosedMeansUnavailable
  <2>6. IndicationOwed' /\ SetUpOwed'
    BY <2>1 DEF Inv, TypeInv, IndicationOwed, SetUpOwed, Threads
  <2> QED BY <2>3, <2>4, <2>5, <2>6 DEF Inv
<1>6. CASE OpenChannel
  <2>1. /\ opens' = opens + 1 /\ opens < MaxOpens /\ s_closed' = 0 /\ mpc' = "at_open"
        /\ UNCHANGED <<sState, threadVars, ghostVars>>
    BY <1>6 DEF OpenChannel, mainOther
  <2>2. opens \in Int /\ opens >= 0 /\ opens + 1 \in Readers
    BY <2>1, RadioAssumption DEF Inv, TypeInv, Readers
  <2>3. TypeInv'
    BY <2>1, <2>2, RadioAssumption DEF Inv, TypeInv
  <2>4. ReaderInv'
    BY <2>1, <2>2 DEF Inv, ReaderInv, Readers
  <2>5. ClosedMeansUnavailable' /\ IndicationOwed' /\ SetUpOwed'
    BY <2>1 DEF Inv, ClosedMeansUnavailable, IndicationOwed, SetUpOwed
  <2> QED BY <2>3, <2>4, <2>5 DEF Inv
<1>7. CASE at_open
  <2>1. /\ mpc = "at_open" /\ mpc' = "schedule"
        /\ pc' = [pc EXCEPT ![opens] = "read"]
        /\ UNCHANGED <<stateVars, locals, opens, ghostVars>>
    BY <1>7 DEF at_open, Goto
  <2>2. opens \in Threads /\ pc[opens] = "notCreated" /\ opens \in Int
    BY <2>1, RadioAssumption DEF Inv, TypeInv, ReaderInv, Threads, Readers
  <2>3. TypeInv' /\ ReaderInv'
    BY <2>1, <2>2 DEF Inv, TypeInv, ReaderInv, Readers
  <2>4. ClosedMeansUnavailable'
    BY <2>1, <2>2 DEF Inv, TypeInv, ClosedMeansUnavailable
  <2>5. IndicationOwed' /\ SetUpOwed'
    BY <2>1, <2>2 DEF Inv, TypeInv, IndicationOwed, SetUpOwed, Threads
  <2> QED BY <2>3, <2>4, <2>5 DEF Inv
<1>8. CASE ScheduleInitialize \/ waitForClose
  BY <1>8, NothingMoves DEF ScheduleInitialize, waitForClose, mainOther
<1>9. CASE ModemSwitchesOff \/ ModemHangup
  BY <1>9, NothingMoves DEF ModemSwitchesOff, ModemHangup, modemOther
<1>10. CASE Idle \/ UNCHANGED vars
  BY <1>10, NothingMoves DEF Idle, vars
<1> QED
  BY <1>1, <1>2, <1>3, <1>4, <1>5, <1>6, <1>7, <1>8, <1>9, <1>10 DEF Next, ReaderStep, MainStep

(* The invariant holds in every reachable state.                           *)
THEOREM Invariant == Spec => []Inv
BY InvInit, InvStep, PTL DEF Spec

(* A closed channel leaves no other radio state than UNAVAILABLE: no late  *)
(* setRadioState of a request or a callback brings one back.               *)
THEOREM ClosedIsUnavailable == Spec => []ClosedMeansUnavailable
<1>1. Inv => ClosedMeansUnavailable
  BY DEF Inv
<1> QED BY <1>1, Invariant, PTL

(* Every change of the radio state is indicated to the framework, whatever *)
(* the interleaving of the unprotected comparisons in setRadioState.       *)
THEOREM EveryChangeIndicated == Spec => []ChangeIsIndicated
<1>1. Inv => ChangeIsIndicated
  BY DEF Inv, IndicationOwed, ChangeIsIndicated
<1> QED BY <1>1, Invariant, PTL

(* A radio that is ON was set up by onRadioPowerOn on a thread that may    *)
(* send AT commands.                                                       *)
THEOREM RadioOnIsSetUp == Spec => []PowerOnSetUp
<1>1. Inv => PowerOnSetUp
  BY DEF Inv, SetUpOwed, PowerOnSetUp, Threads
<1> QED BY <1>1, Invariant, PTL

-----------------------------------------------------------------------------
(* The types of all variables.                                            *)

(* The places a thread can be at, and those setRadioState returns to.      *)
Labels ==
  {"notCreated", "idle", "read", "exited", "initialize", "powerOn", "powerOff", "shutdown",
   "CFUN=0", "CFUN=1", "isRadioOn", "shutdownCFUN=0", "setRadioState", "compare", "indicate",
   "checkOn", "onRadioPowerOn"}
Callers == {"idle", "read", "exited", "initialize"}

(* The variables of the threads and the others have their types.           *)
ThreadTypes ==
  /\ pc \in [Threads -> Labels] /\ back \in [Threads -> Callers]
  /\ newState \in [Threads -> RadioStates] /\ oldState \in [Threads -> RadioStates]

OtherTypes ==
  /\ sState \in RadioStates /\ s_closed \in {0, 1}
  /\ mpc \in {"open", "at_open", "schedule", "waitForClose", "blocked"} /\ woken \in {0, 1}
  /\ inits \in Nat /\ polls \in 0..MaxPolls
  /\ told \in {0, 1} /\ configured \in {0, 1}
  /\ link \in {"up", "down"} /\ modem \in {"off", "on"} /\ cfunLines \in Nat
  /\ opens \in 0..MaxOpens /\ inputs \in 0..MaxInputs

(* Together these are TypeOK.                                              *)
LEMMA TypeParts ==
  /\ TypeOK <=> ThreadTypes /\ OtherTypes
  /\ TypeOK' <=> ThreadTypes' /\ OtherTypes'
BY DEF TypeOK, ThreadTypes, OtherTypes, Labels, Callers

(* The ways an action moves its thread keep the types of the threads.      *)
LEMMA ThreadTypesKept ==
  ASSUME ThreadTypes, sState \in RadioStates, NEW t
  PROVE  /\ UNCHANGED threadVars => ThreadTypes'
         /\ \A l \in Labels : Goto(t, l) /\ UNCHANGED locals => ThreadTypes'
         /\ \A l \in Callers, s \in RadioStates : CallSetRadioState(t, s, l) => ThreadTypes'
         /\ t \in Threads /\ setRadioStateStep(t) => ThreadTypes'
<1> USE DEF ThreadTypes
<1>1. UNCHANGED threadVars => ThreadTypes'
  BY DEF threadVars
<1>2. \A l \in Labels : Goto(t, l) /\ UNCHANGED locals => ThreadTypes'
  BY ZenonT(60) DEF Goto, locals
<1>3. "setRadioState" \in Labels /\ "compare" \in Labels /\ "indicate" \in Labels
      /\ "checkOn" \in Labels /\ "onRadioPowerOn" \in Labels
      /\ "UNAVAILABLE" \in RadioStates /\ "idle" \in Callers
  BY DEF Labels, RadioStates, Callers
<1>4. \A l \in Callers, s \in RadioStates : CallSetRadioState(t, s, l) => ThreadTypes'
  BY <1>3, ZenonT(60) DEF CallSetRadioState, Goto
<1>5. ASSUME t \in Threads, setRadioStateStep(t) PROVE ThreadTypes'
  <2>1. back[t] \in Labels
    BY <1>5 DEF Labels, Callers
  <2>2. pc' \in [Threads -> Labels]
    BY <1>3, <1>5, <2>1 DEF setRadioStateStep, SetLocked, Compare, radioStateChangedInd, CheckOn,
       onRadioPowerOn, Goto, Return
  <2>3. back' \in [Threads -> Callers]
    BY <1>3, <1>5 DEF setRadioStateStep, SetLocked, Compare, radioStateChangedInd, CheckOn,
       onRadioPowerOn, Return, locals
  <2>4. newState' \in [Threads -> RadioStates] /\ oldState' \in [Threads -> RadioStates]
    BY <1>3, <1>5 DEF setRadioStateStep, SetLocked, Compare, radioStateChangedInd, CheckOn,
       onRadioPowerOn, Forget, locals
  <2> QED
    BY <2>2, <2>3, <2>4
<1> QED
  BY <1>1, <1>2, <1>4, <1>5

(* pollSIMState leaves the count of its timers in bounds.                  *)
LEMMA PollsBounded ==
  ASSUME NEW n \in 0..MaxPolls, pollSIMState(n)
  PROVE  polls' \in 0..MaxPolls
BY RadioAssumption DEF pollSIMState

(* Every step keeps the types.                                             *)
LEMMA TypeStep == TypeOK /\ [Next]_vars => TypeOK'
<1> SUFFICES ASSUME ThreadTypes, OtherTypes, [Next]_vars PROVE ThreadTypes' /\ OtherTypes'
  BY TypeParts
<1> USE DEF stateVars, mainVars, timerVars, ghostVars, modemVars, OtherTypes
<1>0. sState \in RadioStates
  OBVIOUS
<1>1. ASSUME NEW t \in Threads, setRadioStateStep(t) PROVE ThreadTypes' /\ OtherTypes'
  <2>1. ThreadTypes'
    BY <1>0, <1>1, ThreadTypesKept
  <2>2. CASE SetLocked(t)
    <3>1. Effective(newState[t]) \in RadioStates
      BY DEF Effective, RadioStates, ThreadTypes
    <3> QED
      BY <2>1, <2>2, <3>1 DEF SetLocked
  <2>3. CASE Compare(t) \/ radioStateChangedInd(t) \/ CheckOn(t)
    BY <2>1, <2>3 DEF Compare, radioStateChangedInd, CheckOn
  <2>4. CASE onRadioPowerOn(t)
    BY <2>1, <2>4, PollsBounded DEF onRadioPowerOn
  <2> QED
    BY <1>1, <2>2, <2>3, <2>4 DEF setRadioStateStep
<1>2. CASE EventStep
  <2>1. ThreadTypes'
    <3>1. "idle" \in Labels /\ "OFF" \in RadioStates /\ "ON" \in RadioStates
          /\ "initialize" \in Callers /\ "idle" \in Callers
      BY DEF Labels, RadioStates, Callers
    <3> QED
      BY <1>0, <1>2, <3>1, ThreadTypesKept, ZenonT(60)
      DEF EventStep, StartInitialize, FinishInitialize, PollTimer
  <2>2. CASE StartInitialize \/ FinishInitialize
    BY <2>1, <2>2 DEF StartInitialize, FinishInitialize
  <2>3. CASE PollTimer
    <3>1. polls - 1 \in 0..MaxPolls
      BY <2>3, RadioAssumption DEF PollTimer
    <3> QED
      BY <2>1, <2>3, <3>1, PollsBounded DEF PollTimer
  <2> QED
    BY <1>2, <2>2, <2>3 DEF EventStep
<1>3. CASE BinderStep
  <2>1. ThreadTypes'
    <3>1. {"idle", "CFUN=0", "CFUN=1", "isRadioOn", "shutdownCFUN=0"} \subseteq Labels
          /\ RadioStates = {"UNAVAILABLE", "OFF", "ON"} /\ "idle" \in Callers
      BY DEF Labels, RadioStates, Callers
    <3> QED
      BY <1>0, <1>3, <3>1, ThreadTypesKept, ZenonT(60) DEF BinderStep, requestRadioPowerOff, requestRadioPowerOn,
         CheckRadioOn, requestShutdown, SendCfun0, SendCfun1, ShutdownCfun0
  <2> QED
    BY <1>3, <2>1, ZenonT(60) DEF BinderStep, requestRadioPowerOff, requestRadioPowerOn,
       CheckRadioOn, requestShutdown, SendCfun0, SendCfun1, ShutdownCfun0, CFUN0, CFUN1
<1>4. ASSUME NEW r \in Requests, onRequest(r) PROVE ThreadTypes' /\ OtherTypes'
  <2>1. ThreadTypes'
    <3>1. r \in Labels /\ "idle" \in Labels
      BY DEF Requests, Labels
    <3> QED
      BY <1>0, <1>4, <3>1, ThreadTypesKept DEF onRequest
  <2> QED
    BY <1>4, <2>1, RadioAssumption DEF onRequest, Input
<1>5. ASSUME NEW k \in Readers, ReaderStep(k) PROVE ThreadTypes' /\ OtherTypes'
  <2>1. ThreadTypes'
    <3>1. "read" \in Callers /\ "exited" \in Callers
          /\ "OFF" \in RadioStates /\ "UNAVAILABLE" \in RadioStates
      BY DEF RadioStates, Callers
    <3> QED
      BY <1>0, <1>5, <3>1, ThreadTypesKept, ZenonT(60) DEF ReaderStep, onUnsolicited, onATReaderClosed
  <2> QED
    BY <1>5, <2>1 DEF ReaderStep, onUnsolicited, onATReaderClosed
<1>6. CASE MainStep
  <2>1. ThreadTypes'
    <3>1. "read" \in Labels
      BY DEF Labels
    <3> QED
      BY <1>0, <1>6, <3>1, ThreadTypesKept, ZenonT(60)
      DEF MainStep, OpenChannel, at_open, ScheduleInitialize, waitForClose, mainOther
  <2> QED
    BY <1>6, <2>1, RadioAssumption
    DEF MainStep, OpenChannel, at_open, ScheduleInitialize, waitForClose, mainOther
<1>7. CASE ModemSwitchesOff \/ ModemHangup
  BY <1>0, <1>7, ThreadTypesKept, RadioAssumption
  DEF ModemSwitchesOff, ModemHangup, modemOther, Input
<1>8. CASE Idle \/ UNCHANGED vars
  BY <1>0, <1>8, ThreadTypesKept DEF Idle, vars
<1> QED
  BY <1>1, <1>2, <1>3, <1>4, <1>5, <1>6, <1>7, <1>8 DEF Next

(* Every variable of the radio state keeps its type; in particular no more *)
(* pollSIMState timers are pending than the bound.                         *)
THEOREM TypeCorrect == Spec => []TypeOK
<1>1. Init => TypeOK
  BY RadioAssumption, TypeParts
  DEF Init, ThreadTypes, OtherTypes, Labels, Callers, RadioStates, Readers
<1> QED
  BY <1>1, TypeStep, PTL DEF Spec

=============================================================================
