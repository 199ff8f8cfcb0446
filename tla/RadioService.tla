---------------------------- MODULE RadioService ----------------------------
(***************************************************************************)
(* The callbacks of the framework in libril/ril_service.cpp: one binder    *)
(* thread installs them (setResponseFunctions) and answers requests, the   *)
(* AT reader and the event loop send indications through them, and a       *)
(* thread whose call fails because the framework died resets them          *)
(* (checkReturnStatus).  radioServiceRwlock protects them, mCounterRadio   *)
(* tells a thread that had to let the lock go whether they are still the   *)
(* ones that failed.  One slot.                                            *)
(*                                                                         *)
(* The framework's processes are numbered in the order they start; the     *)
(* newest one may be alive.  A NITZ time (network time) is numbered in the *)
(* order of arrival, and its receive time is that number.                  *)
(***************************************************************************)
EXTENDS Integers

CONSTANTS
  Versions,     \* IRadio versions a framework may implement, of {"1_0", "1_1", "1_4"}
  MaxClients,   \* bound: processes of the framework
  MaxSends,     \* bound: responses and indications, those of a new connection apart
  MaxNitz       \* bound: NITZ times

ASSUME ServiceAssumption ==
  /\ Versions \subseteq {"1_0", "1_1", "1_4"} /\ Versions # {}
  /\ MaxClients \in Nat /\ MaxSends \in Nat /\ MaxNitz \in Nat

Binder == "binder"
Event  == "event"
Reader == "reader"
Threads == {Binder, Event, Reader}

NULL == 0          \* no client, no NITZ time, no owner of the lock is 0
NoThread == "none"

(* What each thread sends: responses and errors on the binder thread,      *)
(* which runs the request; NITZ and the V1_4 channel report on the reader. *)
KindsOf(t) ==
  CASE t = Binder -> {"response", "responseV1_1", "error", "indication"}
    [] t = Reader -> {"indication", "reportV1_4", "nitz"}
    [] t = Event  -> {"indication"}

Kinds == {"response", "responseV1_1", "error", "indication", "reportV1_4", "nitz", "resend"}

VARIABLES
  mRadioResponse, mRadioIndication, mRadioV1_1, mRadioV1_4,
  mCounterRadio,
  readers,             \* read locks taken by each thread
  writer,              \* owner of the write lock
  nitzTimeReceived,
  s_lastNITZTimeData,
  pc, kind, back,      \* of each thread; back: where it goes on after a send.  The locals
                       \* of a call that has returned are reset.
  counter,             \* local of checkReturnStatus
  ret,                 \* local of RIL_onUnsolicitedResponse
  (* the framework and the modem *)
  started, alive, connected,
  nitz,                \* newest NITZ time
  (* history and bounds *)
  failed,              \* the client whose call failed
  unheld,              \* 1 once checkReturnStatus ran without the lock
  handed,              \* newest NITZ time handed to a callback
  got,                 \* NITZ time and receive time that a client got last
  overlapped,          \* 1 once a NITZ time came while a client was connecting
  sends

callbackVars == <<mRadioResponse, mRadioIndication, mRadioV1_1, mRadioV1_4, mCounterRadio>>
lockVars     == <<readers, writer>>
nitzVars     == <<nitzTimeReceived, s_lastNITZTimeData, handed, got>>
threadVars   == <<pc, kind, back, counter, ret, failed>>
clientVars   == <<started, alive, connected>>
ghostVars    == <<unheld, overlapped>>

vars == <<callbackVars, lockVars, nitzVars, threadVars, clientVars, ghostVars, nitz, sends>>

Init ==
  /\ mRadioResponse = NULL /\ mRadioIndication = NULL /\ mRadioV1_1 = NULL /\ mRadioV1_4 = NULL
  /\ mCounterRadio = 0
  /\ readers = [t \in Threads |-> 0] /\ writer = NoThread
  /\ nitzTimeReceived = 0 /\ s_lastNITZTimeData = NULL
  /\ pc = [t \in Threads |-> "idle"]
  /\ kind = [t \in Threads |-> "indication"]
  /\ back = [t \in Threads |-> "idle"]
  /\ counter = [t \in Threads |-> 0]
  /\ ret = [t \in Threads |-> 0]
  /\ failed = [t \in Threads |-> NULL]
  /\ started = 0 /\ alive = 0 /\ connected = 0 /\ nitz = 0
  /\ unheld = 0 /\ overlapped = 0 /\ handed = 0 /\ got = [nitz |-> 0, time |-> 0]
  /\ sends = 0

-----------------------------------------------------------------------------
(* radioServiceRwlock, a pthread_rwlock_t that prefers readers.            *)

Goto(t, l) == pc' = [pc EXCEPT ![t] = l]

CanRead  == writer = NoThread
CanWrite == writer = NoThread /\ \A t \in Threads : readers[t] = 0

rdlock(t) == CanRead /\ readers' = [readers EXCEPT ![t] = @ + 1] /\ UNCHANGED writer

(* Readers are only counted: a thread that holds no lock takes away the    *)
(* one of another reader, and gets an error (that assert ignores) if there *)
(* is none.                                                                *)
unlock(t) ==
  \/ writer = t /\ writer' = NoThread /\ UNCHANGED readers
  \/ writer # t /\ readers[t] > 0
     /\ readers' = [readers EXCEPT ![t] = @ - 1] /\ UNCHANGED writer
  \/ writer # t /\ readers[t] = 0
     /\ \E u \in Threads : readers[u] > 0 /\ readers' = [readers EXCEPT ![u] = @ - 1]
     /\ UNCHANGED writer
  \/ writer # t /\ (\A u \in Threads : readers[u] = 0) /\ UNCHANGED lockVars

-----------------------------------------------------------------------------
(* The framework.                                                          *)

ClientStarts ==
  /\ alive = 0 /\ started < MaxClients
  /\ started' = started + 1 /\ alive' = 1
  /\ UNCHANGED <<callbackVars, lockVars, nitzVars, threadVars, ghostVars, connected, nitz, sends>>

ClientDies ==
  /\ alive = 1 /\ alive' = 0
  /\ UNCHANGED <<callbackVars, lockVars, nitzVars, threadVars, ghostVars, started, connected,
                 nitz, sends>>

(* A client can be called as long as its process lives.                    *)
Lives(c) == c = started /\ alive = 1

-----------------------------------------------------------------------------
(* Sending through a callback.                                             *)

(* A thread sends: a response of a request (RIL_onRequestComplete), an     *)
(* indication (RIL_onUnsolicitedResponse), or, without the lock, the error *)
(* of a request that is refused (sendErrorResponse).  The binder thread    *)
(* has requests only of clients that connected.                            *)
Send(t, k) ==
  /\ pc[t] = "idle" /\ k \in KindsOf(t) /\ k # "nitz" /\ sends < MaxSends
  /\ t = Binder => connected > 0
  /\ Goto(t, IF k = "error" THEN "call" ELSE "lock")
  /\ kind' = [kind EXCEPT ![t] = k] /\ back' = [back EXCEPT ![t] = "idle"]
  /\ sends' = sends + 1
  /\ UNCHANGED <<callbackVars, lockVars, nitzVars, clientVars, ghostVars, counter, ret, failed, nitz>>

(* The binder thread has not come to the end of onNewCommandConnect.       *)
Connecting ==
  \/ back[Binder] # "idle"
  \/ pc[Binder] \in {"radioStateChanged", "lastNITZ"}
  \/ pc[Binder] # "idle" /\ kind[Binder] = "resend"

(* The reader gets a NITZ time from the modem.                             *)
SendNitz ==
  /\ pc[Reader] = "idle" /\ nitz < MaxNitz
  /\ Goto(Reader, "lock") /\ kind' = [kind EXCEPT ![Reader] = "nitz"]
  /\ back' = [back EXCEPT ![Reader] = "idle"]
  /\ nitz' = nitz + 1
  /\ overlapped' = IF Connecting THEN 1 ELSE overlapped
  /\ UNCHANGED <<callbackVars, lockVars, nitzVars, clientVars, counter, ret, failed, unheld, sends>>

(* The write lock for NITZ, since the receive time is set with it; a read  *)
(* lock for all others.                                                    *)
Lock(t) ==
  /\ pc[t] = "lock" /\ Goto(t, "call")
  /\ \/ /\ kind[t] = "nitz" /\ CanWrite /\ writer' = t /\ UNCHANGED readers
        /\ nitzTimeReceived' = nitz
     \/ kind[t] # "nitz" /\ rdlock(t) /\ UNCHANGED nitzTimeReceived
  /\ UNCHANGED <<callbackVars, clientVars, ghostVars, s_lastNITZTimeData, handed, got, kind, back,
                 counter, ret, failed, nitz, sends>>

Callback(k) ==
  CASE k \in {"response", "error"}             -> mRadioResponse
    [] k \in {"indication", "nitz", "resend"}  -> mRadioIndication
    [] k = "responseV1_1"                      -> mRadioV1_1
    [] k = "reportV1_4"                        -> mRadioV1_4

(* Where a thread goes when its response function is done: the caller of   *)
(* sendErrorResponse has no lock to release.                               *)
AfterCall(k) == IF k = "error" THEN "idle" ELSE "unlock"

(* The NITZ time a thread sends; none ("invalid response") for a resend    *)
(* that finds the copy gone.                                               *)
Payload(k) == IF k = "resend" THEN s_lastNITZTimeData ELSE nitz

CallNobody(t) ==
  /\ pc[t] = "call" /\ Callback(kind[t]) = NULL
  /\ Goto(t, AfterCall(kind[t]))
  /\ ret' = [ret EXCEPT ![t] = IF kind[t] \in {"nitz", "resend", "reportV1_4"} THEN -1 ELSE 0]
  /\ UNCHANGED <<callbackVars, lockVars, nitzVars, clientVars, ghostVars, kind, back, counter,
                 failed, nitz, sends>>

HandsNitz(t, c) ==
  IF kind[t] \in {"nitz", "resend"} /\ Payload(kind[t]) # NULL
  THEN /\ handed' = IF Payload(kind[t]) > handed THEN Payload(kind[t]) ELSE handed
       /\ got' = IF Lives(c) THEN [nitz |-> Payload(kind[t]), time |-> nitzTimeReceived] ELSE got
  ELSE UNCHANGED <<handed, got>>

(* The call returns with an error when the client is dead.  The channel    *)
(* report does not look at it, an empty resend makes no call.              *)
CallClient(t) ==
  LET c    == Callback(kind[t])
      fine == \/ Lives(c)
              \/ kind[t] = "reportV1_4"
              \/ kind[t] = "resend" /\ Payload("resend") = NULL
  IN  /\ pc[t] = "call" /\ c # NULL
      /\ Goto(t, IF fine THEN AfterCall(kind[t]) ELSE "checkReturnStatus")
      /\ failed' = [failed EXCEPT ![t] = IF fine THEN NULL ELSE c]
      /\ ret' = [ret EXCEPT ![t] = 0]
      /\ HandsNitz(t, c)
      /\ UNCHANGED <<callbackVars, lockVars, clientVars, ghostVars, nitzTimeReceived,
                     s_lastNITZTimeData, kind, back, counter, nitz, sends>>

(* Faulty: the counter is not noted before the lock is released.           *)
NotNoted(t) == counter' = [counter EXCEPT ![t] = mCounterRadio + 1]

NoteCounter(t) == counter' = [counter EXCEPT ![t] = mCounterRadio]

(* checkReturnStatus notes the counter and releases the lock that the      *)
(* caller should hold.                                                     *)
checkReturnStatus(t) ==
  /\ pc[t] = "checkReturnStatus" /\ Goto(t, "reset")
  /\ NoteCounter(t) /\ unlock(t)
  /\ unheld' = IF kind[t] = "error" THEN 1 ELSE unheld
  /\ UNCHANGED <<callbackVars, nitzVars, clientVars, overlapped, kind, back, ret, failed, nitz, sends>>

(* Faulty: whatever callbacks are installed now are reset.                 *)
AlwaysReset(t) == TRUE

StillTheSame(t) == counter[t] = mCounterRadio

(* Faulty: when the callbacks have changed, the thread tries again.        *)
ResetRetries(t) ==
  /\ pc[t] = "reset" /\ CanWrite
  /\ \/ /\ StillTheSame(t) /\ Goto(t, "rdlock")
        /\ mRadioResponse' = NULL /\ mRadioIndication' = NULL /\ mRadioV1_1' = NULL
        /\ mCounterRadio' = mCounterRadio + 1
     \/ /\ ~ StillTheSame(t)
        /\ UNCHANGED <<pc, mRadioResponse, mRadioIndication, mRadioV1_1, mCounterRadio>>
  /\ UNCHANGED <<lockVars, nitzVars, clientVars, ghostVars, mRadioV1_4, kind, back, counter, ret,
                 failed, nitz, sends>>

(* It takes the write lock, and resets the callbacks unless another thread *)
(* did so or a client connected meanwhile.  The V1_4 objects stay.         *)
ResetCallbacks(t) ==
  /\ pc[t] = "reset" /\ CanWrite /\ Goto(t, "rdlock")
  /\ \/ /\ StillTheSame(t)
        /\ mRadioResponse' = NULL /\ mRadioIndication' = NULL /\ mRadioV1_1' = NULL
        /\ mCounterRadio' = mCounterRadio + 1
     \/ /\ ~ StillTheSame(t)
        /\ UNCHANGED <<mRadioResponse, mRadioIndication, mRadioV1_1, mCounterRadio>>
  /\ UNCHANGED <<lockVars, nitzVars, clientVars, ghostVars, mRadioV1_4, kind, back, counter, ret,
                 failed, nitz, sends>>

(* Faulty: the read lock is not taken again.                               *)
NotRelocked(t) == UNCHANGED lockVars

ReacquireRdlock(t) == rdlock(t)

Relock(t) ==
  /\ pc[t] = "rdlock" /\ ReacquireRdlock(t) /\ Goto(t, AfterCall(kind[t]))
  /\ counter' = [counter EXCEPT ![t] = 0] /\ failed' = [failed EXCEPT ![t] = NULL]
  /\ UNCHANGED <<callbackVars, nitzVars, clientVars, ghostVars, kind, back, ret, nitz, sends>>

(* Faulty: a NITZ time nobody got is dropped.                              *)
NitzDropped(t) == FALSE

KeepNitz(t) == kind[t] = "nitz" /\ ret[t] # 0

(* The lock is released.  A resend that succeeded has freed its copy, a    *)
(* NITZ time that failed is now kept.                                      *)
Unlock(t) ==
  /\ pc[t] = "unlock" /\ unlock(t)
  /\ Goto(t, IF KeepNitz(t) THEN "free" ELSE back[t])
  /\ s_lastNITZTimeData' = IF kind[t] = "resend" /\ ret[t] = 0 THEN NULL ELSE s_lastNITZTimeData
  /\ back' = [back EXCEPT ![t] = "idle"] /\ ret' = [ret EXCEPT ![t] = 0]
  /\ kind' = [kind EXCEPT ![t] = IF KeepNitz(t) THEN "nitz" ELSE "indication"]
  /\ UNCHANGED <<callbackVars, clientVars, ghostVars, nitzTimeReceived, handed, got, counter, failed,
                 nitz, sends>>

(* The reader replaces the copy, without any lock.                         *)
FreeLastNitz ==
  /\ pc[Reader] = "free" /\ Goto(Reader, "copy") /\ s_lastNITZTimeData' = NULL
  /\ UNCHANGED <<callbackVars, lockVars, clientVars, ghostVars, nitzTimeReceived, handed, got, kind,
                 back, counter, ret, failed, nitz, sends>>

CopyLastNitz ==
  /\ pc[Reader] = "copy" /\ Goto(Reader, "idle") /\ s_lastNITZTimeData' = nitz
  /\ kind' = [kind EXCEPT ![Reader] = "indication"]
  /\ UNCHANGED <<callbackVars, lockVars, clientVars, ghostVars, nitzTimeReceived, handed, got, back,
                 counter, ret, failed, nitz, sends>>

-----------------------------------------------------------------------------
(* A client connects.                                                      *)

(* setResponseFunctions of the next client, which may be dead by now: then *)
(* castFrom fails and there are no V1_1 and V1_4 objects.  The first of    *)
(* the initial indications of onNewCommandConnect follows.                 *)
setResponseFunctions ==
  LET c == connected + 1
  IN  /\ pc[Binder] = "idle" /\ connected < started /\ CanWrite
      /\ \E v \in Versions :
           /\ mRadioV1_1' = IF Lives(c) /\ v # "1_0" THEN c ELSE NULL
           /\ mRadioV1_4' = IF Lives(c) /\ v = "1_4" THEN c ELSE NULL
      /\ mRadioResponse' = c /\ mRadioIndication' = c
      /\ mCounterRadio' = mCounterRadio + 1
      /\ connected' = c
      /\ Goto(Binder, "lock") /\ kind' = [kind EXCEPT ![Binder] = "indication"]
      /\ back' = [back EXCEPT ![Binder] = "radioStateChanged"]
      /\ overlapped' = IF pc[Reader] # "idle" /\ kind[Reader] = "nitz" THEN 1 ELSE overlapped
      /\ UNCHANGED <<lockVars, nitzVars, counter, ret, failed, started, alive, nitz, unheld, sends>>

(* The second initial indication.                                          *)
sendRadioStateChanged ==
  /\ pc[Binder] = "radioStateChanged" /\ Goto(Binder, "lock")
  /\ kind' = [kind EXCEPT ![Binder] = "indication"]
  /\ back' = [back EXCEPT ![Binder] = "lastNITZ"]
  /\ UNCHANGED <<callbackVars, lockVars, nitzVars, clientVars, ghostVars, counter, ret, failed,
                 nitz, sends>>

(* The copy of the last NITZ time is sent, if there is one.                *)
resendLastNITZTimeData ==
  /\ pc[Binder] = "lastNITZ"
  /\ Goto(Binder, IF s_lastNITZTimeData = NULL THEN "idle" ELSE "lock")
  /\ kind' = [kind EXCEPT ![Binder] = "resend"] /\ back' = [back EXCEPT ![Binder] = "idle"]
  /\ UNCHANGED <<callbackVars, lockVars, nitzVars, clientVars, ghostVars, counter, ret, failed,
                 nitz, sends>>

-----------------------------------------------------------------------------
SendStep(t) ==
  \/ Lock(t) \/ CallNobody(t) \/ CallClient(t)
  \/ checkReturnStatus(t) \/ ResetCallbacks(t) \/ Relock(t) \/ Unlock(t)

StoreStep == FreeLastNitz \/ CopyLastNitz

ConnectStep == setResponseFunctions \/ sendRadioStateChanged \/ resendLastNITZTimeData

Next ==
  \/ ClientStarts \/ ClientDies
  \/ \E t \in Threads : (\E k \in Kinds : Send(t, k)) \/ SendStep(t)
  \/ SendNitz \/ StoreStep
  \/ ConnectStep

Spec == Init /\ [][Next]_vars

(* Threads run.  A thread that waits for the lock gets it once nobody      *)
(* holds it; a framework need not start, die, or be sent anything.         *)
Fairness ==
  /\ \A t \in Threads : WF_vars(SendStep(t))
  /\ WF_vars(StoreStep) /\ WF_vars(ConnectStep)

FairSpec == Spec /\ Fairness

-----------------------------------------------------------------------------
(* Properties.                                                             *)

Locations == {"idle", "lock", "call", "checkReturnStatus", "reset", "rdlock", "unlock",
              "free", "copy", "radioStateChanged", "lastNITZ"}

(* Types of the variables.                                                 *)
TypeOK ==
  /\ {mRadioResponse, mRadioIndication, mRadioV1_1, mRadioV1_4} \subseteq Nat
  /\ mCounterRadio \in Nat
  /\ readers \in [Threads -> Nat] /\ writer \in Threads \cup {NoThread}
  /\ nitzTimeReceived \in Nat /\ s_lastNITZTimeData \in Nat
  /\ pc \in [Threads -> Locations] /\ kind \in [Threads -> Kinds]
  /\ back \in [Threads -> {"idle", "radioStateChanged", "lastNITZ"}]
  /\ counter \in [Threads -> Nat] /\ ret \in [Threads -> {0, -1}] /\ failed \in [Threads -> Nat]
  /\ started \in 0..MaxClients /\ alive \in {0, 1} /\ connected \in 0..started
  /\ nitz \in 0..MaxNitz /\ sends \in 0..MaxSends
  /\ unheld \in {0, 1} /\ overlapped \in {0, 1}
  /\ handed \in Nat /\ got \in [nitz : Nat, time : Nat]

(* The callbacks of a live client that has connected stay installed: no    *)
(* thread that found its predecessor dead, and that had to release the     *)
(* lock to be able to reset, takes them away.                              *)
LiveClientStays ==
  unheld = 0 /\ alive = 1 /\ connected = started =>
    mRadioResponse = started /\ mRadioIndication = started

(* When checkReturnStatus is done with a client that failed, its response  *)
(* and indication objects are not installed any more, whoever reset them.  *)
DeadClientForgotten ==
  \A t \in Threads :
    unheld = 0 /\ pc[t] = "rdlock" =>
      failed[t] \notin {mRadioResponse, mRadioIndication, mRadioV1_1}

(* "Caller should already hold rdlock, release that first"                 *)
(* (checkReturnStatus).                                                    *)
CallerHoldsLock ==
  \A t \in Threads : pc[t] = "checkReturnStatus" => readers[t] > 0 \/ writer = t

(* A thread inside a send, the one of an error apart, which takes no lock. *)
Inside(t) == pc[t] \in {"call", "checkReturnStatus", "unlock"} /\ kind[t] # "error"

(* The lock is held by the threads that are inside a send, and by no other. *)
LockHeldInside ==
  \A t \in Threads : (readers[t] > 0 \/ writer = t) <=> Inside(t)

(* So it is, whoever dies and whoever lets it go for checkReturnStatus,    *)
(* until an error is sent to a dead client, which is done without it.      *)
LockHeldUntilError == unheld = 0 => LockHeldInside

(* "keep a copy of the last NITZ response (with receive time noted above)  *)
(* around so we can deliver it when it is connected"                       *)
(* (RIL_onUnsolicitedResponse): a NITZ time comes with its receive time.   *)
NitzCarriesItsTime == got.time = got.nitz

(* As long as no NITZ time arrives while a client connects, that is so,    *)
(* and the newest NITZ time is kept until it is handed to a client.        *)
NitzKeptUntilOverlap ==
  overlapped = 0 =>
    /\ NitzCarriesItsTime
    /\ pc[Reader] = "idle" => nitz \in {s_lastNITZTimeData, handed}

(* Every send comes to its end, whoever dies meanwhile, unless the lock    *)
(* was left held by an error sent to a dead client.                        *)
EverySendEnds == \A t \in Threads : pc[t] # "idle" ~> pc[t] = "idle" \/ unheld = 1

=============================================================================
