------------------------- MODULE RadioServiceProofs -------------------------
(***************************************************************************)
(* The callbacks of a live client survive whatever the threads that found  *)
(* its predecessor dead do, for every number of clients, sends and NITZ    *)
(* times.                                                                  *)
(*                                                                         *)
(* A thread that fails notes the counter while it holds the lock, and so   *)
(* while the callbacks are those that failed; the counter grows with every *)
(* change of the callbacks.  Hence a counter that is still the same at the *)
(* reset means callbacks of the client that failed, which is dead.         *)
(*                                                                         *)
(* The newest NITZ time is either stored or was handed to a client, unless *)
(* it arrives while a client connects: the thread that has it stores it    *)
(* only where it found no callbacks, and only a client that connects makes *)
(* them appear.                                                            *)
(***************************************************************************)
EXTENDS RadioService, TLAPS

(* Parts of the type invariant.                                            *)
SendTypes ==
  /\ pc \in [Threads -> Locations] /\ kind \in [Threads -> Kinds]
  /\ back \in [Threads -> {"idle", "radioStateChanged", "lastNITZ"}]
  /\ counter \in [Threads -> Nat] /\ failed \in [Threads -> Nat]

LockTypes == readers \in [Threads -> Nat] /\ writer \in Threads \cup {NoThread}

CallbackTypes ==
  /\ mRadioResponse \in Nat /\ mRadioIndication \in Nat /\ mRadioV1_1 \in Nat
  /\ mCounterRadio \in Nat /\ connected \in Nat /\ started \in Nat
  /\ alive \in {0, 1}

(* The lock is counted right as long as no error was sent without it.      *)
Holding ==
  /\ \A t \in Threads : pc[t] \in {"lock", "unlock"} => kind[t] # "error"
  /\ unheld = 0 =>
       /\ \A t \in Threads : pc[t] \in {"reset", "rdlock"} => kind[t] # "error"
       /\ \A t \in Threads : readers[t] \in {0, 1} /\ (Inside(t) <=> readers[t] = 1 \/ writer = t)
       /\ writer # NoThread => \A t \in Threads : readers[t] = 0

(* The callbacks are those of the client that connected last, or none.     *)
OneClient ==
  /\ mRadioIndication = mRadioResponse
  /\ mRadioResponse \in {NULL, connected}
  /\ mRadioV1_1 \in {NULL, mRadioResponse}
  /\ connected <= started
  /\ alive = 1 => started > 0

Failing(t) == pc[t] \in {"checkReturnStatus", "reset", "rdlock"}

Dead(c) == c # NULL /\ c <= connected /\ (c = started => alive = 0)

(* Client c, which failed, is not installed any more.                      *)
Replaced(c) == mRadioResponse = NULL \/ mRadioResponse > c

(* What a thread that found a client dead knows of the callbacks.          *)
Knows(t) ==
  /\ Failing(t) /\ kind[t] # "error" => Dead(failed[t])
  /\ pc[t] = "checkReturnStatus" /\ kind[t] # "error" => mRadioResponse = failed[t]
  /\ pc[t] = "reset" =>
       /\ counter[t] <= mCounterRadio
       /\ counter[t] = mCounterRadio => mRadioResponse = failed[t]
       /\ counter[t] < mCounterRadio => Replaced(failed[t])
  /\ pc[t] = "rdlock" => Replaced(failed[t])

Knowledge == unheld = 0 => \A t \in Threads : Knows(t)

IInv == TypeOK /\ Holding /\ OneClient /\ Knowledge /\ LiveClientStays

-----------------------------------------------------------------------------
LEMMA ThreadsDistinct ==
  /\ Binder \in Threads /\ Reader \in Threads /\ Event \in Threads
  /\ NoThread \notin Threads
BY DEF Threads, Binder, Reader, Event, NoThread

LEMMA PartTypes ==
  ASSUME TypeOK
  PROVE  SendTypes /\ LockTypes /\ CallbackTypes
BY DEF TypeOK, SendTypes, LockTypes, CallbackTypes

(* The callback of every kind is a client.                                 *)
LEMMA CallbackType ==
  ASSUME TypeOK, NEW k \in Kinds
  PROVE  Callback(k) \in Nat
BY DEF TypeOK, Kinds, Callback

(* It is the installed client, but for the V1_4 report, which never fails. *)
LEMMA CallbackInstalled ==
  ASSUME OneClient, NEW k \in Kinds, k # "reportV1_4", Callback(k) # NULL
  PROVE  Callback(k) = mRadioResponse
BY DEF OneClient, Kinds, Callback

(* Releasing the lock keeps the type of its state.                         *)
LEMMA UnlockType ==
  ASSUME NEW t \in Threads, readers \in [Threads -> Nat], writer \in Threads \cup {NoThread},
         unlock(t)
  PROVE  readers' \in [Threads -> Nat] /\ writer' \in Threads \cup {NoThread}
<1>1. CASE writer = t /\ writer' = NoThread /\ UNCHANGED readers
  BY <1>1
<1>2. CASE writer # t /\ readers[t] > 0
           /\ readers' = [readers EXCEPT ![t] = @ - 1] /\ UNCHANGED writer
  BY <1>2
<1>3. ASSUME NEW u \in Threads, readers[u] > 0, readers' = [readers EXCEPT ![u] = @ - 1],
             UNCHANGED writer
      PROVE  readers' \in [Threads -> Nat] /\ writer' \in Threads \cup {NoThread}
  BY <1>3
<1>4. CASE UNCHANGED lockVars
  BY <1>4 DEF lockVars
<1> QED
  BY <1>1, <1>2, <1>3, <1>4 DEF unlock

-----------------------------------------------------------------------------
(* Types.                                                                  *)

LEMMA TypeSend ==
  ASSUME TypeOK, NEW t \in Threads
  PROVE  /\ (\E k \in Kinds : Send(t, k)) => TypeOK'
         /\ Lock(t) => TypeOK'
         /\ CallNobody(t) => TypeOK'
<1> USE ServiceAssumption
<1>1. ASSUME NEW k \in Kinds, Send(t, k)
      PROVE  TypeOK'
  BY <1>1, SMTT(60) DEF TypeOK, Send, Goto, Locations, callbackVars, lockVars, nitzVars, clientVars,
                        ghostVars
<1>2. CASE Lock(t)
  <2>1. readers' \in [Threads -> Nat] /\ writer' \in Threads \cup {NoThread}
    BY <1>2, SMTT(60) DEF TypeOK, Lock, rdlock
  <2>2. nitzTimeReceived' \in Nat
    BY <1>2, SMTT(60) DEF TypeOK, Lock
  <2>3. pc' \in [Threads -> Locations]
    BY <1>2 DEF TypeOK, Lock, Goto, Locations
  <2>4. UNCHANGED <<callbackVars, clientVars, ghostVars, s_lastNITZTimeData, handed, got, kind, back,
                    counter, ret, failed, nitz, sends>>
    BY <1>2 DEF Lock
  <2> QED
    BY <2>1, <2>2, <2>3, <2>4, SMTT(60) DEF TypeOK, callbackVars, clientVars, ghostVars
<1>3. CASE CallNobody(t)
  <2>1. AfterCall(kind[t]) \in Locations
    BY DEF AfterCall, Locations
  <2> QED
    BY <1>3, <2>1, SMTT(60) DEF TypeOK, CallNobody, Goto, callbackVars, lockVars, nitzVars, clientVars,
                                ghostVars
<1> QED
  BY <1>1, <1>2, <1>3

LEMMA TypeCallClient ==
  ASSUME TypeOK, NEW t \in Threads, CallClient(t)
  PROVE  TypeOK'
<1>1. Callback(kind[t]) \in Nat
  BY CallbackType DEF TypeOK
<1>2. AfterCall(kind[t]) \in Locations
  BY DEF AfterCall, Locations
<1>3. Payload(kind[t]) \in Nat
  BY DEF TypeOK, Payload
<1>4. handed' \in Nat /\ got' \in [nitz : Nat, time : Nat]
  <2>1. HandsNitz(t, Callback(kind[t]))
    BY DEF CallClient
  <2> HIDE DEF Payload
  <2> QED
    BY <1>3, <2>1 DEF HandsNitz, TypeOK
<1>5. /\ pc' \in [Threads -> Locations]
      /\ failed' \in [Threads -> Nat] /\ ret' \in [Threads -> {0, -1}]
  BY <1>1, <1>2, SMTT(60) DEF TypeOK, CallClient, Goto, Locations, NULL
<1> QED
  BY <1>4, <1>5, SMTT(60) DEF TypeOK, CallClient, callbackVars, lockVars, clientVars, ghostVars

LEMMA TypeFailure ==
  ASSUME TypeOK, NEW t \in Threads
  PROVE  /\ checkReturnStatus(t) => TypeOK'
         /\ ResetCallbacks(t) => TypeOK'
         /\ Relock(t) => TypeOK'
         /\ Unlock(t) => TypeOK'
<1>1. CASE checkReturnStatus(t)
  <2>1. readers' \in [Threads -> Nat] /\ writer' \in Threads \cup {NoThread}
    BY <1>1, UnlockType DEF checkReturnStatus, TypeOK
  <2>2. pc' \in [Threads -> Locations]
    BY <1>1 DEF checkReturnStatus, TypeOK, Goto, Locations
  <2>3. counter' \in [Threads -> Nat]
    BY <1>1 DEF checkReturnStatus, NoteCounter, TypeOK
  <2>4. unheld' \in {0, 1}
    BY <1>1 DEF checkReturnStatus, TypeOK
  <2>5. UNCHANGED <<callbackVars, nitzVars, clientVars, overlapped, kind, back, ret, failed, nitz, sends>>
    BY <1>1, ZenonT(60) DEF checkReturnStatus
  <2> QED
    BY <2>1, <2>2, <2>3, <2>4, <2>5, SMTT(60) DEF TypeOK, callbackVars, nitzVars, clientVars
<1>2. CASE ResetCallbacks(t)
  BY <1>2, SMTT(60) DEF ResetCallbacks, Goto, TypeOK, Locations, lockVars, nitzVars, clientVars,
                        ghostVars, NULL
<1>3. CASE Relock(t)
  <2>1. AfterCall(kind[t]) \in Locations
    BY ZenonT(60) DEF AfterCall, Locations
  <2> QED
    BY <1>3, <2>1, SMTT(60) DEF Relock, ReacquireRdlock, rdlock, Goto, TypeOK, callbackVars, nitzVars,
                                clientVars, ghostVars, NULL
<1>4. CASE Unlock(t)
  <2>1. readers' \in [Threads -> Nat] /\ writer' \in Threads \cup {NoThread}
    BY <1>4, UnlockType, ZenonT(60) DEF Unlock, TypeOK
  <2>2. pc' \in [Threads -> Locations]
    BY <1>4, ZenonT(60) DEF Unlock, Goto, TypeOK, Locations
  <2>3. kind' \in [Threads -> Kinds]
    BY <1>4, SMTT(60) DEF Unlock, TypeOK, Kinds
  <2> QED
    BY <1>4, <2>1, <2>2, <2>3, ZenonT(60) DEF Unlock, TypeOK, callbackVars, clientVars, ghostVars, NULL
<1> QED
  BY <1>1, <1>2, <1>3, <1>4

LEMMA TypeOther ==
  ASSUME TypeOK
  PROVE  /\ ClientStarts => TypeOK'
         /\ ClientDies => TypeOK'
         /\ SendNitz => TypeOK'
         /\ StoreStep => TypeOK'
         /\ ConnectStep => TypeOK'
<1> USE ServiceAssumption, ThreadsDistinct
<1>1. CASE ClientStarts
  BY <1>1, SMTT(60) DEF ClientStarts, TypeOK, callbackVars, lockVars, nitzVars, threadVars, ghostVars
<1>2. CASE ClientDies
  BY <1>2, ZenonT(60) DEF ClientDies, TypeOK, callbackVars, lockVars, nitzVars, threadVars, ghostVars
<1>3. CASE SendNitz
  BY <1>3, SMTT(60) DEF SendNitz, Goto, TypeOK, Locations, Kinds, callbackVars, lockVars, nitzVars,
                        clientVars
<1>4. CASE FreeLastNitz
  BY <1>4, ZenonT(60) DEF FreeLastNitz, Goto, TypeOK, Locations, NULL, callbackVars, lockVars,
                        clientVars, ghostVars
<1>5. CASE CopyLastNitz
  BY <1>5, SMTT(60) DEF CopyLastNitz, Goto, TypeOK, Locations, Kinds, callbackVars, lockVars,
                        clientVars, ghostVars
<1>6. CASE setResponseFunctions
  <2>1. {mRadioResponse', mRadioIndication', mRadioV1_1', mRadioV1_4'} \subseteq Nat
        /\ connected' \in 0..started
    BY <1>6, SMTT(60) DEF setResponseFunctions, TypeOK, NULL
  <2>2. /\ pc' \in [Threads -> Locations] /\ kind' \in [Threads -> Kinds]
        /\ back' \in [Threads -> {"idle", "radioStateChanged", "lastNITZ"}]
    BY <1>6, SMTT(60) DEF setResponseFunctions, Goto, TypeOK, Locations, Kinds
  <2>3. overlapped' \in {0, 1} /\ mCounterRadio' \in Nat
    BY <1>6, SMTT(60) DEF setResponseFunctions, TypeOK
  <2>4. UNCHANGED <<lockVars, nitzVars, counter, ret, failed, started, alive, nitz, unheld, sends>>
    BY <1>6, ZenonT(60) DEF setResponseFunctions
  <2> QED
    BY <2>1, <2>2, <2>3, <2>4, ZenonT(60) DEF TypeOK, lockVars, nitzVars
<1>7. CASE sendRadioStateChanged
  BY <1>7, ZenonT(60) DEF sendRadioStateChanged, Goto, TypeOK, Locations, Kinds, callbackVars, lockVars,
                        nitzVars, clientVars, ghostVars
<1>8. CASE resendLastNITZTimeData
  BY <1>8, SMTT(60) DEF resendLastNITZTimeData, Goto, TypeOK, Locations, Kinds, callbackVars, lockVars,
                        nitzVars, clientVars, ghostVars
<1> QED
  BY <1>1, <1>2, <1>3, <1>4, <1>5, <1>6, <1>7, <1>8, ZenonT(60) DEF StoreStep, ConnectStep

LEMMA TypeStep ==
  ASSUME TypeOK, Next
  PROVE  TypeOK'
<1>1. ASSUME NEW t \in Threads, SendStep(t)
      PROVE  TypeOK'
  BY <1>1, TypeSend, TypeCallClient, TypeFailure DEF SendStep
<1>2. ASSUME NEW t \in Threads, NEW k \in Kinds, Send(t, k)
      PROVE  TypeOK'
  BY <1>2, TypeSend
<1>3. CASE ClientStarts \/ ClientDies \/ SendNitz \/ StoreStep \/ ConnectStep
  BY <1>3, TypeOther
<1> QED
  BY <1>1, <1>2, <1>3 DEF Next

-----------------------------------------------------------------------------
(* The inductive invariant.                                                *)

(* Holding is inductive: every thread releases what it took.               *)
LEMMA HoldingStep ==
  ASSUME SendTypes, LockTypes, Holding, Next
  PROVE  Holding'
<1> USE ThreadsDistinct
<1>1. ASSUME NEW t \in Threads, NEW k \in Kinds, Send(t, k)
      PROVE  Holding'
  BY <1>1, SMTT(60) DEF Send, Goto, lockVars, ghostVars, Holding, Inside, SendTypes, LockTypes
<1>2. ASSUME NEW t \in Threads, Lock(t)
      PROVE  Holding'
  BY <1>2, SMTT(60) DEF Lock, Goto, rdlock, CanRead, CanWrite, ghostVars, Holding, Inside,
                        SendTypes, LockTypes
<1>3. ASSUME NEW t \in Threads, CallNobody(t)
      PROVE  Holding'
  BY <1>3, ZenonT(60) DEF CallNobody, Goto, unlock, AfterCall, lockVars, ghostVars, Holding, Inside,
                        SendTypes, LockTypes
<1>4. ASSUME NEW t \in Threads, CallClient(t)
      PROVE  Holding'
  BY <1>4, ZenonT(60) DEF CallClient, Goto, unlock, AfterCall, lockVars, ghostVars, Holding, Inside,
                        SendTypes, LockTypes
<1>5. ASSUME NEW t \in Threads, checkReturnStatus(t)
      PROVE  Holding'
  BY <1>5, SMTT(60) DEF checkReturnStatus, Goto, unlock, lockVars, Holding, Inside, SendTypes,
                        LockTypes
<1>6. ASSUME NEW t \in Threads, ResetCallbacks(t)
      PROVE  Holding'
  BY <1>6, SMTT(60) DEF ResetCallbacks, Goto, rdlock, CanRead, CanWrite, lockVars, ghostVars,
                        Holding, Inside, SendTypes, LockTypes
<1>7. ASSUME NEW t \in Threads, Relock(t)
      PROVE  Holding'
  BY <1>7, SMTT(60) DEF Relock, Goto, rdlock, unlock, CanRead, AfterCall, ReacquireRdlock,
                        lockVars, ghostVars, Holding, Inside, SendTypes, LockTypes
<1>8. ASSUME NEW t \in Threads, Unlock(t)
      PROVE  Holding'
  BY <1>8, SMTT(60) DEF Unlock, Goto, unlock, KeepNitz, lockVars, ghostVars, Holding, Inside,
                        SendTypes, LockTypes
<1>9. CASE ClientStarts
  BY <1>9, SMTT(60) DEF ClientStarts, lockVars, threadVars, ghostVars, Holding, Inside, SendTypes,
                        LockTypes
<1>10. CASE ClientDies
  BY <1>10, SMTT(60) DEF ClientDies, lockVars, threadVars, ghostVars, Holding, Inside, SendTypes,
                         LockTypes
<1>11. CASE SendNitz
  BY <1>11, SMTT(60) DEF SendNitz, Goto, lockVars, Holding, Inside, SendTypes, LockTypes
<1>12. CASE FreeLastNitz
  BY <1>12, SMTT(60) DEF FreeLastNitz, Goto, lockVars, ghostVars, Holding, Inside, SendTypes,
                         LockTypes
<1>13. CASE CopyLastNitz
  BY <1>13, SMTT(60) DEF CopyLastNitz, Goto, lockVars, ghostVars, Holding, Inside, SendTypes,
                         LockTypes
<1>14. CASE setResponseFunctions
  BY <1>14, SMTT(60) DEF setResponseFunctions, Goto, CanWrite, lockVars, Holding, Inside,
                         SendTypes, LockTypes
<1>15. CASE sendRadioStateChanged
  BY <1>15, SMTT(60) DEF sendRadioStateChanged, Goto, lockVars, ghostVars, Holding, Inside,
                         SendTypes, LockTypes
<1>16. CASE resendLastNITZTimeData
  BY <1>16, SMTT(60) DEF resendLastNITZTimeData, Goto, lockVars, ghostVars, Holding, Inside,
                         SendTypes, LockTypes
<1> QED
  BY <1>1, <1>2, <1>3, <1>4, <1>5, <1>6, <1>7, <1>8, <1>9, <1>10, <1>11, <1>12, <1>13, <1>14,
     <1>15, <1>16
     DEF Next, SendStep, StoreStep, ConnectStep

(* Callbacks and clients change in four actions only.                      *)
LEMMA WhoTouchesClients ==
  ASSUME Next
  PROVE  \/ UNCHANGED <<callbackVars, clientVars>>
         \/ ClientStarts \/ ClientDies
         \/ \E t \in Threads : ResetCallbacks(t)
         \/ setResponseFunctions
<1>1. ASSUME NEW t \in Threads, NEW k \in Kinds, Send(t, k)
      PROVE  UNCHANGED <<callbackVars, clientVars>>
  BY <1>1, ZenonT(60) DEF Send
<1>2. ASSUME NEW t \in Threads, SendStep(t)
      PROVE  ResetCallbacks(t) \/ UNCHANGED <<callbackVars, clientVars>>
  BY <1>2, ZenonT(60) DEF SendStep, Lock, CallNobody, CallClient, checkReturnStatus, Relock, Unlock
<1>3. CASE SendNitz \/ StoreStep
  BY <1>3, ZenonT(60) DEF SendNitz, StoreStep, FreeLastNitz, CopyLastNitz
<1>4. CASE ConnectStep
  BY <1>4, ZenonT(60) DEF ConnectStep, sendRadioStateChanged, resendLastNITZTimeData
<1> QED
  BY <1>1, <1>2, <1>3, <1>4 DEF Next

(* unheld is never taken back.                                             *)
LEMMA UnheldStays ==
  ASSUME Next
  PROVE  unheld' = 0 => unheld = 0
<1>1. ASSUME NEW t \in Threads, NEW k \in Kinds, Send(t, k)
      PROVE  unheld' = unheld
  BY <1>1 DEF Send, ghostVars
<1>2. ASSUME NEW t \in Threads, checkReturnStatus(t)
      PROVE  unheld' = 0 => unheld = 0
  BY <1>2 DEF checkReturnStatus
<1>3. ASSUME NEW t \in Threads, SendStep(t), ~ checkReturnStatus(t)
      PROVE  unheld' = unheld
  BY <1>3, ZenonT(60) DEF SendStep, Lock, CallNobody, CallClient, ResetCallbacks, Relock, Unlock, ghostVars
<1>4. CASE ClientStarts \/ ClientDies \/ SendNitz \/ StoreStep
  BY <1>4, ZenonT(60) DEF ClientStarts, ClientDies, SendNitz, StoreStep, FreeLastNitz, CopyLastNitz,
                     ghostVars
<1>5. CASE ConnectStep
  BY <1>5, ZenonT(60) DEF ConnectStep, setResponseFunctions, sendRadioStateChanged, resendLastNITZTimeData,
                     ghostVars
<1> QED
  BY <1>1, <1>2, <1>3, <1>4, <1>5 DEF Next

(* OneClient is inductive.                                                 *)
LEMMA OneClientStep ==
  ASSUME CallbackTypes, OneClient, Next
  PROVE  OneClient'
<1>1. CASE UNCHANGED <<callbackVars, clientVars>>
  BY <1>1 DEF callbackVars, clientVars, OneClient
<1>2. CASE ClientStarts
  BY <1>2 DEF ClientStarts, callbackVars, OneClient, CallbackTypes
<1>3. CASE ClientDies
  BY <1>3 DEF ClientDies, callbackVars, OneClient
<1>4. ASSUME NEW t \in Threads, ResetCallbacks(t)
      PROVE  OneClient'
  BY <1>4 DEF ResetCallbacks, clientVars, OneClient
<1>5. CASE setResponseFunctions
  BY <1>5 DEF setResponseFunctions, OneClient, CallbackTypes
<1> QED
  BY <1>1, <1>2, <1>3, <1>4, <1>5, WhoTouchesClients

(* A step that leaves the callbacks and clients alone, and brings no       *)
(* thread into checkReturnStatus, keeps what the threads know.             *)
LEMMA KnowledgeKept ==
  ASSUME Knowledge, unheld' = 0 => unheld = 0,
         UNCHANGED <<mRadioResponse, mCounterRadio, clientVars>>,
         \A u \in Threads :
           \/ pc'[u] \notin {"checkReturnStatus", "reset", "rdlock"}
           \/ pc'[u] = pc[u] /\ kind'[u] = kind[u] /\ failed'[u] = failed[u] /\ counter'[u] = counter[u]
  PROVE  Knowledge'
BY SMTT(60) DEF Knowledge, Knows, Failing, Dead, Replaced, clientVars

(* Knowledge is inductive: what a thread noted under the lock holds until  *)
(* the counter moves.                                                      *)
LEMMA KnowledgeStep ==
  ASSUME SendTypes, CallbackTypes, LockTypes, Holding, OneClient, Knowledge, Next
  PROVE  Knowledge'
<1> USE ThreadsDistinct
<1> DEFINE Same(u) == /\ pc'[u] = pc[u] /\ kind'[u] = kind[u]
                      /\ failed'[u] = failed[u] /\ counter'[u] = counter[u]
           Out(u)  == pc'[u] \notin {"checkReturnStatus", "reset", "rdlock"}
           Kept    == UNCHANGED <<mRadioResponse, mCounterRadio, clientVars>>
<1>1. ASSUME NEW t \in Threads, NEW k \in Kinds, Send(t, k)
      PROVE  Kept /\ \A u \in Threads : Out(u) \/ Same(u)
  BY <1>1 DEF Send, Goto, SendTypes, callbackVars
<1>2. ASSUME NEW t \in Threads, Lock(t)
      PROVE  Kept /\ \A u \in Threads : Out(u) \/ Same(u)
  BY <1>2 DEF Lock, Goto, callbackVars, SendTypes
<1>3. ASSUME NEW t \in Threads, CallNobody(t)
      PROVE  Kept /\ \A u \in Threads : Out(u) \/ Same(u)
  BY <1>3 DEF CallNobody, Goto, AfterCall, callbackVars, SendTypes
<1>4. ASSUME NEW t \in Threads, Relock(t)
      PROVE  Kept /\ \A u \in Threads : Out(u) \/ Same(u)
  BY <1>4 DEF Relock, Goto, AfterCall, callbackVars, SendTypes
<1>5. ASSUME NEW t \in Threads, Unlock(t)
      PROVE  Kept /\ \A u \in Threads : Out(u) \/ Same(u)
  BY <1>5 DEF Unlock, Goto, KeepNitz, callbackVars, SendTypes
<1>6. ASSUME SendNitz
      PROVE  Kept /\ \A u \in Threads : Out(u) \/ Same(u)
  BY <1>6 DEF SendNitz, Goto, callbackVars, SendTypes
<1>7. ASSUME FreeLastNitz
      PROVE  Kept /\ \A u \in Threads : Out(u) \/ Same(u)
  BY <1>7 DEF FreeLastNitz, Goto, callbackVars, SendTypes
<1>8. ASSUME CopyLastNitz
      PROVE  Kept /\ \A u \in Threads : Out(u) \/ Same(u)
  BY <1>8 DEF CopyLastNitz, Goto, callbackVars, SendTypes
<1>9. ASSUME sendRadioStateChanged
      PROVE  Kept /\ \A u \in Threads : Out(u) \/ Same(u)
  BY <1>9 DEF sendRadioStateChanged, Goto, callbackVars, SendTypes
<1>10. ASSUME resendLastNITZTimeData
      PROVE  Kept /\ \A u \in Threads : Out(u) \/ Same(u)
  BY <1>10 DEF resendLastNITZTimeData, Goto, callbackVars, SendTypes
<1>20. ASSUME Kept, \A u \in Threads : Out(u) \/ Same(u)
       PROVE  Knowledge'
  BY <1>20, UnheldStays, KnowledgeKept
<1>21. ASSUME NEW t \in Threads, CallClient(t)
      PROVE  Knowledge'
  <2> DEFINE c == Callback(kind[t])
  <2>1. /\ c # NULL
        /\ pc'[t] # "reset" /\ pc'[t] # "rdlock"
        /\ pc'[t] = "checkReturnStatus" =>
             kind[t] # "reportV1_4" /\ ~ Lives(c) /\ failed'[t] = c
    BY <1>21, ZenonT(60) DEF CallClient, Goto, AfterCall, SendTypes
  <2>2. \A u \in Threads \ {t} : pc'[u] = pc[u] /\ failed'[u] = failed[u]
    BY <1>21 DEF CallClient, Goto, SendTypes
  <2>3. UNCHANGED <<callbackVars, clientVars, ghostVars, kind, counter>>
    BY <1>21, ZenonT(60) DEF CallClient
  <2>4. kind[t] # "reportV1_4" => c = mRadioResponse
    BY <2>1, CallbackInstalled, ZenonT(60) DEF SendTypes
  <2> HIDE DEF c
  <2>5. Knows(t)'
    BY <2>1, <2>3, <2>4, SMTT(60) DEF callbackVars, clientVars, Knows, Failing, Dead, Lives, OneClient,
                                      CallbackTypes, NULL
  <2>6. ASSUME unheld = 0, NEW u \in Threads \ {t}
        PROVE  Knows(u)'
    BY <2>2, <2>3, <2>6, ZenonT(60) DEF callbackVars, clientVars, Knowledge, Knows, Failing, Dead, Replaced
  <2> QED
    BY <2>3, <2>5, <2>6, UnheldStays, ZenonT(60) DEF Knowledge
<1>22. ASSUME NEW t \in Threads, checkReturnStatus(t)
      PROVE  Knowledge'
  <2>1. /\ pc[t] = "checkReturnStatus" /\ pc'[t] = "reset" /\ counter'[t] = mCounterRadio
        /\ \A u \in Threads \ {t} : pc'[u] = pc[u] /\ counter'[u] = counter[u]
        /\ unheld' = 0 => kind[t] # "error"
    BY <1>22 DEF checkReturnStatus, NoteCounter, Goto, SendTypes
  <2>2. UNCHANGED <<callbackVars, clientVars, kind, failed>>
    BY <1>22, ZenonT(60) DEF checkReturnStatus
  <2>3. ASSUME unheld' = 0, unheld = 0
        PROVE  Knows(t)'
    BY <2>1, <2>2, <2>3, SMTT(60) DEF callbackVars, clientVars, Knowledge, Knows, Failing, Dead,
                                      CallbackTypes
  <2>4. ASSUME unheld = 0, NEW u \in Threads \ {t}
        PROVE  Knows(u)'
    BY <2>1, <2>2, <2>4, SMTT(60) DEF callbackVars, clientVars, Knowledge, Knows, Failing, Dead, Replaced
  <2> QED
    BY <2>3, <2>4, UnheldStays DEF Knowledge
<1>23. ASSUME NEW t \in Threads, ResetCallbacks(t)
      PROVE  Knowledge'
  <2>1. /\ pc[t] = "reset" /\ pc'[t] = "rdlock"
        /\ \A u \in Threads \ {t} : pc'[u] = pc[u]
        /\ \/ mRadioResponse' = NULL /\ mCounterRadio' = mCounterRadio + 1
           \/ UNCHANGED <<mRadioResponse, mCounterRadio>> /\ counter[t] # mCounterRadio
    BY <1>23 DEF ResetCallbacks, StillTheSame, Goto, SendTypes
  <2>2. UNCHANGED <<clientVars, kind, failed, counter>>
    BY <1>23, ZenonT(60) DEF ResetCallbacks
  <2>3. ASSUME unheld = 0, NEW u \in Threads
        PROVE  pc[u] # "checkReturnStatus" \/ kind[u] = "error"
    BY <1>23, <2>3, ZenonT(60) DEF ResetCallbacks, CanWrite, Holding, Inside
  <2>4. ASSUME unheld = 0, NEW u \in Threads
        PROVE  Knows(u)'
    BY <2>1, <2>2, <2>3, <2>4, SMTT(60) DEF clientVars, Knowledge, Knows, Failing, Dead, Replaced,
                                            SendTypes, CallbackTypes
  <2> QED
    BY <2>4, UnheldStays DEF Knowledge
<1>24. CASE setResponseFunctions
  <2>1. /\ mRadioResponse' = connected + 1 /\ mCounterRadio' = mCounterRadio + 1
        /\ connected' = connected + 1
        /\ UNCHANGED <<started, alive, failed, counter>>
    BY <1>24, ZenonT(60) DEF setResponseFunctions
  <2>2. \A u \in Threads : Out(u) \/ (pc'[u] = pc[u] /\ kind'[u] = kind[u])
    BY <1>24 DEF setResponseFunctions, Goto, SendTypes
  <2>3. ASSUME unheld = 0, NEW u \in Threads
        PROVE  pc[u] # "checkReturnStatus" \/ kind[u] = "error"
    <3>1. CanWrite
      BY <1>24, ZenonT(60) DEF setResponseFunctions
    <3> QED
      BY <2>3, <3>1 DEF CanWrite, Holding, Inside
  <2>4. ASSUME unheld = 0, NEW u \in Threads
        PROVE  Knows(u)'
    BY <2>1, <2>2, <2>3, <2>4, SMTT(60) DEF Knowledge, Knows, Failing, Dead, Replaced, Holding, SendTypes,
                                            CallbackTypes
  <2> QED
    BY <2>4, UnheldStays DEF Knowledge
<1>25. CASE ClientStarts \/ ClientDies
  <2>1. /\ UNCHANGED <<mRadioResponse, mCounterRadio, connected, pc, kind, failed, counter>>
        /\ \/ started' = started + 1
           \/ started' = started /\ alive' = 0
    BY <1>25, ZenonT(60) DEF ClientStarts, ClientDies, callbackVars, threadVars
  <2>2. ASSUME unheld = 0, NEW u \in Threads
        PROVE  Knows(u)'
    BY <2>1, <2>2, SMTT(60) DEF Knowledge, Knows, Failing, Dead, Replaced, OneClient, SendTypes,
                                CallbackTypes
  <2> QED
    BY <2>2, UnheldStays DEF Knowledge
<1> HIDE DEF Same, Out, Kept
<1> QED
  BY <1>1, <1>2, <1>3, <1>4, <1>5, <1>6, <1>7, <1>8, <1>9, <1>10, <1>20, <1>21, <1>22, <1>23, <1>24,
     <1>25 DEF Next, SendStep, StoreStep, ConnectStep

(* LiveClientStays follows from what a thread knows when it resets.        *)
LEMMA LiveClientStep ==
  ASSUME SendTypes, CallbackTypes, Holding, OneClient, Knowledge, LiveClientStays, Next
  PROVE  LiveClientStays'
<1> USE UnheldStays
<1>1. CASE UNCHANGED <<callbackVars, clientVars>>
  BY <1>1 DEF callbackVars, clientVars, LiveClientStays
<1>2. CASE ClientStarts
  BY <1>2 DEF ClientStarts, callbackVars, LiveClientStays, OneClient, CallbackTypes
<1>3. CASE ClientDies
  BY <1>3 DEF ClientDies, LiveClientStays
<1>4. ASSUME NEW t \in Threads, ResetCallbacks(t)
      PROVE  LiveClientStays'
  <2>1. /\ pc[t] = "reset"
        /\ \/ counter[t] = mCounterRadio
           \/ UNCHANGED <<mRadioResponse, mRadioIndication>>
    BY <1>4, ZenonT(60) DEF ResetCallbacks, StillTheSame
  <2>2. UNCHANGED <<connected, started, alive>>
    BY <1>4, ZenonT(60) DEF ResetCallbacks, clientVars
  <2>3. unheld = 0 /\ counter[t] = mCounterRadio => Dead(mRadioResponse)
    BY <2>1 DEF Knowledge, Knows, Failing, Holding
  <2> QED
    BY <2>1, <2>2, <2>3, SMTT(60) DEF LiveClientStays, Dead
<1>5. CASE setResponseFunctions
  BY <1>5 DEF setResponseFunctions, LiveClientStays
<1> QED
  BY <1>1, <1>2, <1>3, <1>4, <1>5, WhoTouchesClients

LEMMA IInvInductive == Spec => []IInv
<1>1. Init => IInv
  <2> SUFFICES ASSUME Init PROVE IInv
    OBVIOUS
  <2>1. TypeOK
    BY ServiceAssumption, SMTT(60) DEF Init, TypeOK, NULL, Locations, Kinds
  <2>2. Holding
    BY ThreadsDistinct DEF Init, Holding, Inside
  <2>3. OneClient /\ LiveClientStays
    BY DEF Init, OneClient, LiveClientStays, NULL
  <2>4. Knowledge
    BY DEF Init, Knowledge, Knows, Failing
  <2> QED
    BY <2>1, <2>2, <2>3, <2>4 DEF IInv
<1>2. IInv /\ [Next]_vars => IInv'
  <2>1. CASE Next
    BY <2>1, PartTypes, TypeStep, HoldingStep, OneClientStep, KnowledgeStep, LiveClientStep DEF IInv
  <2>2. ASSUME IInv, UNCHANGED vars
        PROVE  IInv'
    <3> USE <2>2 DEF vars, callbackVars, lockVars, nitzVars, threadVars, clientVars, ghostVars
    <3>1. TypeOK'
      BY ZenonT(60) DEF IInv, TypeOK
    <3>2. Holding'
      BY ZenonT(60) DEF IInv, Holding, Inside
    <3>3. OneClient' /\ LiveClientStays'
      BY ZenonT(60) DEF IInv, OneClient, LiveClientStays
    <3>4. Knowledge'
      BY ZenonT(60) DEF IInv, Knowledge, Knows, Failing, Dead, Replaced
    <3> QED
      BY <3>1, <3>2, <3>3, <3>4 DEF IInv
  <2> QED
    BY <2>1, <2>2
<1> QED
  BY <1>1, <1>2, PTL DEF Spec

(* The service's callbacks, counters, lock and threads keep their types.   *)
THEOREM TypeCorrect == Spec => []TypeOK
<1>1. IInv => TypeOK
  BY DEF IInv
<1> QED
  BY <1>1, IInvInductive, PTL

(* checkReturnStatus never resets the callbacks of a live client, for any  *)
(* number of clients that come and go.                                     *)
THEOREM LiveClientSafe == Spec => []LiveClientStays
<1>1. IInv => LiveClientStays
  BY SMTT(60) DEF IInv
<1> QED
  BY <1>1, IInvInductive, PTL

(* Nor does it leave those of a dead client installed.                     *)
THEOREM DeadClientGone == Spec => []DeadClientForgotten
<1>1. IInv => DeadClientForgotten
  BY PartTypes, SMTT(60) DEF IInv, DeadClientForgotten, Knowledge, Knows, Replaced, Failing, Dead,
                             Holding, OneClient, SendTypes, CallbackTypes, NULL
<1> QED
  BY <1>1, IInvInductive, PTL

(* RIL_onRequestComplete, RIL_onUnsolicitedResponse and checkReturnStatus   *)
(* between them hold radioServiceRwlock exactly while a callback is used.  *)
THEOREM LockBalanced == Spec => []LockHeldUntilError
<1>1. IInv => LockHeldUntilError
  BY PartTypes, SMTT(60) DEF IInv, LockHeldUntilError, LockHeldInside, Holding, LockTypes
<1> QED
  BY <1>1, IInvInductive, PTL

-----------------------------------------------------------------------------
(* The NITZ time.                                                          *)

(* The reader has a NITZ time in hand; the binder resends the stored one;  *)
(* a send of thread t found no callbacks, or has called the client.        *)
NitzBusy == pc[Reader] # "idle" /\ kind[Reader] = "nitz"
Resending == pc[Binder] # "idle" /\ kind[Binder] = "resend"
Missed(t) == pc[t] = "unlock" /\ ret[t] # 0
Called(t) == pc[t] \in {"checkReturnStatus", "reset", "rdlock"} \/ (pc[t] = "unlock" /\ ret[t] = 0)

(* Which thread does what: NITZ times arrive on the reader, and are sent   *)
(* again on the binder thread when a client has connected.                 *)
Roles ==
  /\ \A t \in Threads : (kind[t] = "nitz" \/ pc[t] \in {"free", "copy"}) => t = Reader
  /\ \A t \in Threads :
       (kind[t] = "resend" \/ back[t] # "idle" \/ pc[t] \in {"radioStateChanged", "lastNITZ"})
         => t = Binder
  /\ \A t \in Threads :
       /\ pc[t] \in {"free", "copy"} => kind[t] = "nitz"
       /\ pc[t] \in {"checkReturnStatus", "reset", "rdlock"} => ret[t] = 0
       /\ pc[t] = "idle" \/ kind[t] = "error" => back[t] = "idle"

(* What holds while no NITZ time came in the middle of a connect: the      *)
(* newest one is stored or handed over when the reader is not at it, a     *)
(* stored one waits for a client, and while it is being sent the sender    *)
(* knows whether the client has it.                                        *)
NitzParts ==
  /\ NitzCarriesItsTime
  /\ ~(Connecting /\ NitzBusy)
  /\ ~NitzBusy => /\ nitz \in {s_lastNITZTimeData, handed}
                  /\ s_lastNITZTimeData # NULL =>
                       s_lastNITZTimeData = nitz /\ nitzTimeReceived = nitz
  /\ s_lastNITZTimeData # NULL /\ mRadioIndication # NULL => Connecting
  /\ Resending => /\ Missed(Binder) => mRadioIndication = NULL
                  /\ Called(Binder) => handed = nitz
  /\ NitzBusy => /\ pc[Reader] # "lock" => nitzTimeReceived = nitz
                 /\ Missed(Reader) \/ pc[Reader] \in {"free", "copy"} => mRadioIndication = NULL
                 /\ Called(Reader) => handed = nitz /\ s_lastNITZTimeData = NULL

(* The inductive invariant behind NitzKeptUntilOverlap.                    *)
NitzInv ==
  /\ s_lastNITZTimeData <= nitz /\ handed <= nitz
  /\ overlapped = 0 => NitzParts

(* What the invariant on NITZ times needs of the types.                    *)
NitzTypes ==
  /\ mRadioIndication \in Nat /\ nitzTimeReceived \in Nat /\ s_lastNITZTimeData \in Nat
  /\ pc \in [Threads -> Locations] /\ kind \in [Threads -> Kinds]
  /\ back \in [Threads -> {"idle", "radioStateChanged", "lastNITZ"}]
  /\ ret \in [Threads -> {0, -1}] /\ nitz \in Nat /\ handed \in Nat
  /\ got \in [nitz : Nat, time : Nat]

(* They are part of TypeOK.                                                *)
LEMMA NitzTyped == TypeOK => NitzTypes
  BY DEF TypeOK, NitzTypes

(* Every step keeps the roles.                                             *)
LEMMA RolesStep ==
  ASSUME NitzTypes, Roles, Next
  PROVE  Roles'
<1> USE DEF Threads, Binder, Event, Reader, Goto, callbackVars, lockVars, nitzVars, threadVars,
            clientVars, ghostVars, NitzTypes
<1>1. ASSUME NEW t \in Threads, NEW k \in Kinds, Send(t, k) PROVE Roles'
  BY <1>1, ZenonT(60) DEF Send, KindsOf, Roles
<1>2. ASSUME NEW t \in Threads, Lock(t) PROVE Roles'
  BY <1>2, ZenonT(60) DEF Lock, AfterCall, KeepNitz, Roles
<1>3. ASSUME NEW t \in Threads, CallNobody(t) PROVE Roles'
  BY <1>3, ZenonT(60) DEF CallNobody, AfterCall, KeepNitz, Roles
<1>4. ASSUME NEW t \in Threads, CallClient(t) PROVE Roles'
  BY <1>4, ZenonT(60) DEF CallClient, AfterCall, KeepNitz, Roles
<1>5. ASSUME NEW t \in Threads, checkReturnStatus(t) PROVE Roles'
  BY <1>5, ZenonT(60) DEF checkReturnStatus, AfterCall, KeepNitz, Roles
<1>6. ASSUME NEW t \in Threads, ResetCallbacks(t) PROVE Roles'
  BY <1>6, ZenonT(60) DEF ResetCallbacks, AfterCall, KeepNitz, Roles
<1>7. ASSUME NEW t \in Threads, Relock(t) PROVE Roles'
  BY <1>7, ZenonT(60) DEF Relock, AfterCall, KeepNitz, Roles
<1>8. ASSUME NEW t \in Threads, Unlock(t) PROVE Roles'
  BY <1>8, ZenonT(60) DEF Unlock, AfterCall, KeepNitz, Roles
<1>9. CASE SendNitz
  BY <1>9, ZenonT(60) DEF SendNitz, Roles
<1>10. CASE FreeLastNitz
  BY <1>10, ZenonT(60) DEF FreeLastNitz, Roles
<1>11. CASE CopyLastNitz
  BY <1>11, ZenonT(60) DEF CopyLastNitz, Roles
<1>12. CASE setResponseFunctions
  BY <1>12, ZenonT(60) DEF setResponseFunctions, Roles
<1>13. CASE sendRadioStateChanged
  BY <1>13, ZenonT(60) DEF sendRadioStateChanged, Roles
<1>14. CASE resendLastNITZTimeData
  BY <1>14, ZenonT(60) DEF resendLastNITZTimeData, Roles
<1>15. CASE ClientStarts \/ ClientDies
  BY <1>15 DEF ClientStarts, ClientDies, Roles
<1> QED
  BY <1>1, <1>2, <1>3, <1>4, <1>5, <1>6, <1>7, <1>8, <1>9, <1>10, <1>11, <1>12,
     <1>13, <1>14, <1>15 DEF Next, SendStep, StoreStep, ConnectStep

(* A copy is of a NITZ time that has come.                                 *)
LEMMA NitzOrder ==
  ASSUME NEW n \in Nat, NEW d \in Nat, NEW h \in Nat, d <= n, h <= n
  PROVE  /\ \A e \in {0, d, n} : e <= n
         /\ d <= n + 1 /\ h <= n + 1 /\ 1 # 0
OBVIOUS

(* Every step keeps the invariant.  The sends of a NITZ time and its       *)
(* storing are the steps that matter: each finds the callbacks as the      *)
(* invariant says.                                                         *)
LEMMA NitzStep ==
  ASSUME NitzTypes, Roles, NitzInv, connected \in Nat, overlapped \in {0, 1}, Next
  PROVE  NitzInv'
<1> USE DEF Threads, Binder, Event, Reader, Goto, callbackVars, lockVars, nitzVars, threadVars,
            clientVars, ghostVars, NitzTypes, NULL
<1> USE DEF NitzInv, NitzParts, NitzCarriesItsTime, NitzBusy, Resending, Missed, Called, Connecting,
            Roles
<1>1. ASSUME NEW t \in Threads, NEW k \in Kinds, Send(t, k) PROVE NitzInv'
  BY <1>1, ZenonT(60) DEF Send, KindsOf
<1>2. ASSUME NEW t \in Threads, Lock(t) PROVE NitzInv'
  BY <1>2, ZenonT(60) DEF Lock, rdlock
<1>3. ASSUME NEW t \in Threads, CallNobody(t) PROVE NitzInv'
  BY <1>3, SMTT(60) DEF CallNobody, AfterCall, Callback, Kinds
<1>4. ASSUME NEW t \in Threads, CallClient(t) PROVE NitzInv'
  BY <1>4, SMTT(60) DEF CallClient, HandsNitz, Payload, AfterCall, Callback, Kinds
<1>5. ASSUME NEW t \in Threads, checkReturnStatus(t) PROVE NitzInv'
  BY <1>5, ZenonT(60) DEF checkReturnStatus
<1>6. ASSUME NEW t \in Threads, ResetCallbacks(t) PROVE NitzInv'
  BY <1>6, ZenonT(60) DEF ResetCallbacks
<1>7. ASSUME NEW t \in Threads, Relock(t) PROVE NitzInv'
  BY <1>7, ZenonT(60) DEF Relock, AfterCall
<1>8. ASSUME NEW t \in Threads, Unlock(t) PROVE NitzInv'
  <2>1. s_lastNITZTimeData' \in {0, s_lastNITZTimeData} /\ handed' = handed /\ nitz' = nitz
    BY <1>8, ZenonT(60) DEF Unlock
  <2>2. s_lastNITZTimeData' <= nitz' /\ handed' <= nitz'
    BY <2>1, NitzOrder, ZenonT(60)
  <2>3. overlapped' = 0 => NitzParts'
    BY <1>8, ZenonT(60) DEF Unlock, KeepNitz
  <2> QED
    BY <2>2, <2>3, ZenonT(60)
<1>9. CASE SendNitz
  <2>1. s_lastNITZTimeData' = s_lastNITZTimeData /\ handed' = handed /\ nitz' = nitz + 1
    BY <1>9, ZenonT(60) DEF SendNitz
  <2>2. s_lastNITZTimeData' <= nitz' /\ handed' <= nitz'
    BY <2>1, NitzOrder, ZenonT(60)
  <2>3. overlapped' = 0 => overlapped = 0 /\ ~Connecting
    BY <1>9, NitzOrder, ZenonT(60) DEF SendNitz
  <2>4. pc'[Reader] = "lock" /\ pc'[Binder] = pc[Binder] /\ kind'[Binder] = kind[Binder]
        /\ back'[Binder] = back[Binder] /\ ret' = ret
    BY <1>9, ZenonT(60) DEF SendNitz
  <2>5. overlapped' = 0 => NitzParts'
    BY <1>9, <2>3, <2>4, ZenonT(60) DEF SendNitz
  <2> QED
    BY <2>2, <2>5, ZenonT(60)
<1>10. CASE FreeLastNitz
  <2>1. s_lastNITZTimeData' \in {0, s_lastNITZTimeData} /\ handed' = handed /\ nitz' = nitz
    BY <1>10, ZenonT(60) DEF FreeLastNitz
  <2>2. s_lastNITZTimeData' <= nitz' /\ handed' <= nitz'
    BY <2>1, NitzOrder, ZenonT(60)
  <2>3. overlapped' = 0 => NitzParts'
    BY <1>10, ZenonT(60) DEF FreeLastNitz
  <2> QED
    BY <2>2, <2>3, ZenonT(60)
<1>11. CASE CopyLastNitz
  <2>1. s_lastNITZTimeData' \in {nitz} /\ handed' = handed /\ nitz' = nitz
    BY <1>11, ZenonT(60) DEF CopyLastNitz
  <2>2. s_lastNITZTimeData' <= nitz' /\ handed' <= nitz'
    BY <2>1, NitzOrder, ZenonT(60)
  <2>3. overlapped' = 0 => NitzParts'
    BY <1>11, ZenonT(60) DEF CopyLastNitz
  <2> QED
    BY <2>2, <2>3, ZenonT(60)
<1>12. CASE setResponseFunctions
  BY <1>12, SMTT(60) DEF setResponseFunctions
<1>13. CASE sendRadioStateChanged
  BY <1>13, ZenonT(60) DEF sendRadioStateChanged
<1>14. CASE resendLastNITZTimeData
  BY <1>14, ZenonT(60) DEF resendLastNITZTimeData
<1>15. CASE ClientStarts \/ ClientDies
  BY <1>15 DEF ClientStarts, ClientDies
<1> QED
  BY <1>1, <1>2, <1>3, <1>4, <1>5, <1>6, <1>7, <1>8, <1>9, <1>10, <1>11, <1>12,
     <1>13, <1>14, <1>15, ZenonT(60) DEF Next, SendStep, StoreStep, ConnectStep

(* A NITZ time comes with its receive time, and the newest one is kept     *)
(* until a client has it, as long as none arrives while a client connects. *)
THEOREM NitzKept == Spec => []NitzKeptUntilOverlap
<1>1. Init => Roles /\ NitzInv
  <2> SUFFICES ASSUME Init PROVE Roles /\ NitzInv
    OBVIOUS
  <2> USE DEF Threads, Binder, Event, Reader, NULL
  <2>1. Roles
    BY ZenonT(60) DEF Init, Roles
  <2>2. NitzInv
    BY DEF Init, NitzInv, NitzParts, NitzCarriesItsTime, NitzBusy, Resending, Missed, Called,
       Connecting
  <2> QED
    BY <2>1, <2>2
<1>2. IInv /\ Roles /\ NitzInv /\ [Next]_vars => Roles' /\ NitzInv'
  <2>1. ASSUME IInv, Roles, NitzInv, Next PROVE Roles' /\ NitzInv'
    <3>1. NitzTypes /\ connected \in Nat /\ overlapped \in {0, 1}
      BY <2>1, NitzTyped, PartTypes, ZenonT(60) DEF IInv, CallbackTypes, TypeOK
    <3> QED
      BY <2>1, <3>1, RolesStep, NitzStep, ZenonT(60)
  <2>2. ASSUME Roles, NitzInv, UNCHANGED vars PROVE Roles' /\ NitzInv'
    BY <2>2, ZenonT(60) DEF vars, callbackVars, nitzVars, threadVars, ghostVars, Roles, NitzInv, NitzParts,
       NitzCarriesItsTime, NitzBusy, Resending, Missed, Called, Connecting
  <2> QED
    BY <2>1, <2>2
<1>3. NitzInv => NitzKeptUntilOverlap
  BY ZenonT(60) DEF NitzInv, NitzParts, NitzBusy, NitzKeptUntilOverlap
<1> QED
  BY <1>1, <1>2, <1>3, IInvInductive, PTL DEF Spec

=============================================================================
