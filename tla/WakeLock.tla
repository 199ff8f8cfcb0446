------------------------------ MODULE WakeLock ------------------------------
(* The wake lock of libril (radio/libril/ril.cpp): taken for an unsolicited  *)
(* response that must wake the framework, and given back by a timer of the   *)
(* event loop, or earlier when the framework acknowledges (version 13).      *)
(*                                                                           *)
(* s_last_wake_timeout_info is how a timer is cancelled.  Version 12 guards  *)
(* it with nothing, version 13 with s_wakeLockCountMutex on one side only:   *)
(* userTimerCallback clears it without the mutex.  A timer freed while a     *)
(* thread still holds its address may be allocated again at once.            *)
(* The lock itself is external: taking it twice and giving it back once      *)
(* leaves it free.  All the timers have the same delay, so they end in order.*)
EXTENDS Naturals, Sequences, Functions

CONSTANTS Reporters,     \* threads that report responses
          TimeoutInfos,  \* bound: addresses of UserCallbackInfo
          Versions,      \* of s_callbacks.version
          ResponsesMax   \* bound: responses not acknowledged yet

VARIABLES
  version,               \* s_callbacks.version
  held,                  \* the wake lock
  s_wakelock_count,
  wakeTimers,            \* running ones, of timer_list
  userParam,             \* cancelled ones
  s_last_wake_timeout_info,
  reporting,             \* where a thread is
  p_info, previous,      \* its new timer, the one it cancels
  loopAt,                \* where userTimerCallback is, or "select"
  firing, param,         \* its timer, whether that was cancelled
  acks,                  \* acknowledgements on their way
  overlapped             \* history: two threads were cancelling at once

wakeVars == <<version, held, s_wakelock_count, wakeTimers, userParam,
              s_last_wake_timeout_info, reporting, p_info, previous,
              loopAt, firing, param, acks, overlapped>>
loopVars == <<loopAt, firing, param>>

NULL == "NULL"

ASSUME WakeBounds ==
  Versions \subseteq Nat /\ ResponsesMax \in Nat /\ NULL \notin TimeoutInfos

WakeInit ==
  /\ version \in Versions
  /\ held = FALSE /\ s_wakelock_count = 0
  /\ wakeTimers = <<>> /\ userParam = {}
  /\ s_last_wake_timeout_info = NULL
  /\ reporting = [t \in Reporters |-> "idle"]
  /\ p_info = [t \in Reporters |-> NULL] /\ previous = [t \in Reporters |-> NULL]
  /\ loopAt = "select" /\ firing = NULL /\ param = FALSE
  /\ acks = 0 /\ overlapped = FALSE

\* A thread is between the first and the last access to the timer it cancels;
\* in version 13 it has s_wakeLockCountMutex there.
Cancelling(t) == reporting[t] \in {"read", "cancel", "set"}
mutexFree == \A t \in Reporters : ~Cancelling(t)

Allocated == Range(wakeTimers) \cup {firing}

internalRequestTimedCallback(t) ==
  \E i \in TimeoutInfos \ Allocated :
    /\ wakeTimers' = Append(wakeTimers, i)
    /\ userParam' = userParam \ {i}
    /\ p_info' = [p_info EXCEPT ![t] = i]
    /\ overlapped' = (overlapped \/ ~mutexFree)

\* Version 12: the lock is taken, and the timer is set after the delivery.
\* Version 13: both at once, under the mutex; when there is no memory for the
\* timer the lock is given back and the response delivered all the same.
grabPartialWakeLock(t) ==
  /\ reporting[t] = "idle"
  /\ \/ /\ version < 13
        /\ held' = TRUE
        /\ reporting' = [reporting EXCEPT ![t] = "deliver"]
        /\ UNCHANGED <<s_wakelock_count, wakeTimers, userParam, p_info, overlapped>>
     \/ /\ version >= 13 /\ mutexFree /\ s_wakelock_count < ResponsesMax
        /\ held' = TRUE
        /\ s_wakelock_count' = s_wakelock_count + 1
        /\ reporting' = [reporting EXCEPT ![t] = "read"]
        /\ internalRequestTimedCallback(t)
     \/ /\ version >= 13 /\ mutexFree
        /\ held' = FALSE
        /\ reporting' = [reporting EXCEPT ![t] = "deliver"]
        /\ UNCHANGED <<s_wakelock_count, wakeTimers, userParam, p_info, overlapped>>
  /\ UNCHANGED <<version, s_last_wake_timeout_info, previous, loopVars, acks>>

\* The response is delivered; in version 13 it is to be acknowledged, and never
\* is when no framework is connected.  With version 12 the timer is set, or the
\* lock given back when there is no memory.
deliverResponse(t) ==
  /\ reporting[t] = "deliver"
  /\ \/ /\ version >= 13
        /\ reporting' = [reporting EXCEPT ![t] = "idle"]
        /\ acks' \in {acks, acks + 1} \cap 0..ResponsesMax
        /\ UNCHANGED <<held, wakeTimers, userParam, p_info, overlapped>>
     \/ /\ version < 13
        /\ reporting' = [reporting EXCEPT ![t] = "read"]
        /\ internalRequestTimedCallback(t)
        /\ UNCHANGED <<held, acks>>
     \/ /\ version < 13
        /\ held' = FALSE
        /\ reporting' = [reporting EXCEPT ![t] = "idle"]
        /\ UNCHANGED <<wakeTimers, userParam, p_info, overlapped, acks>>
  /\ UNCHANGED <<version, s_wakelock_count, s_last_wake_timeout_info,
                 previous, loopVars>>

readPrevious(t) ==
  /\ reporting[t] = "read"
  /\ previous' = [previous EXCEPT ![t] = s_last_wake_timeout_info]
  /\ reporting' = [reporting EXCEPT ![t] = "cancel"]
  /\ UNCHANGED <<version, held, s_wakelock_count, wakeTimers, userParam,
                 s_last_wake_timeout_info, p_info, loopVars, acks, overlapped>>

\* A faulty version: the new timer is remembered first and so cancelled.
cancelNewest(t) ==
  /\ reporting[t] = "cancel"
  /\ userParam' = userParam \cup {p_info[t]}
  /\ previous' = [previous EXCEPT ![t] = NULL]
  /\ reporting' = [reporting EXCEPT ![t] = "set"]
  /\ UNCHANGED <<version, held, s_wakelock_count, wakeTimers,
                 s_last_wake_timeout_info, p_info, loopVars, acks, overlapped>>

\* What the address holds now is marked, whichever timer it was.
cancelPrevious(t) ==
  /\ reporting[t] = "cancel"
  /\ userParam' = userParam \cup ({previous[t]} \cap Allocated \cap TimeoutInfos)
  /\ previous' = [previous EXCEPT ![t] = NULL]
  /\ reporting' = [reporting EXCEPT ![t] = "set"]
  /\ UNCHANGED <<version, held, s_wakelock_count, wakeTimers,
                 s_last_wake_timeout_info, p_info, loopVars, acks, overlapped>>

setLast(t) ==
  /\ reporting[t] = "set"
  /\ s_last_wake_timeout_info' = p_info[t]
  /\ p_info' = [p_info EXCEPT ![t] = NULL]
  /\ reporting' = [reporting EXCEPT
                     ![t] = IF version < 13 THEN "idle" ELSE "deliver"]
  /\ UNCHANGED <<version, held, s_wakelock_count, wakeTimers, userParam,
                 previous, loopVars, acks, overlapped>>

\* The framework acknowledges (responseAcknowledgement); it does so for what
\* version 13 marked only.
releaseWakeLock ==
  /\ acks > 0 /\ mutexFree
  /\ acks' = acks - 1
  /\ IF s_wakelock_count > 1
     THEN /\ s_wakelock_count' = s_wakelock_count - 1
          /\ UNCHANGED <<held, userParam>>
     ELSE /\ s_wakelock_count' = 0 /\ held' = FALSE
          /\ userParam' = userParam \cup
               ({s_last_wake_timeout_info} \cap Allocated \cap TimeoutInfos)
  /\ UNCHANGED <<version, wakeTimers, s_last_wake_timeout_info, reporting,
                 p_info, previous, loopVars, overlapped>>

\* Timing assumption: ANDROID_WAKE_LOCK_USECS (200 ms) are more than the thread
\* that set the timer takes to remember it.  A thread held up for longer would
\* cancel the newer timer of another one when its own has already ended.
InTime(i) == \A t \in Reporters : p_info[t] # i

\* The event loop runs the first timer: userParam is read for the call,
userTimerCallback ==
  /\ loopAt = "select" /\ wakeTimers # <<>> /\ InTime(Head(wakeTimers))
  /\ firing' = Head(wakeTimers) /\ wakeTimers' = Tail(wakeTimers)
  /\ param' = (Head(wakeTimers) \in userParam)
  /\ loopAt' = "callback"
  /\ UNCHANGED <<version, held, s_wakelock_count, userParam,
                 s_last_wake_timeout_info, reporting, p_info, previous, acks, overlapped>>

\* the lock is given back unless the timer was cancelled by then,
wakeTimeoutCallback ==
  /\ loopAt = "callback"
  /\ \/ param /\ UNCHANGED <<held, s_wakelock_count>>
     \/ /\ ~param /\ version < 13
        /\ held' = FALSE /\ UNCHANGED s_wakelock_count
     \/ /\ ~param /\ version >= 13 /\ mutexFree
        /\ held' = FALSE /\ s_wakelock_count' = 0
  /\ param' = FALSE
  /\ loopAt' = "test"
  /\ UNCHANGED <<version, wakeTimers, userParam, s_last_wake_timeout_info,
                 reporting, p_info, previous, firing, acks, overlapped>>

\* it is compared with the one to cancel next,
testLast ==
  /\ loopAt = "test"
  /\ loopAt' = IF s_last_wake_timeout_info = firing THEN "clear" ELSE "free"
  /\ UNCHANGED <<version, held, s_wakelock_count, wakeTimers, userParam,
                 s_last_wake_timeout_info, reporting, p_info, previous,
                 firing, param, acks, overlapped>>

\* and freed.
freeInfo ==
  /\ loopAt \in {"clear", "free"}
  /\ s_last_wake_timeout_info' =
       IF loopAt = "clear" THEN NULL ELSE s_last_wake_timeout_info
  /\ userParam' = userParam \ {firing}
  /\ firing' = NULL /\ loopAt' = "select"
  /\ UNCHANGED <<version, held, s_wakelock_count, wakeTimers, reporting,
                 p_info, previous, param, acks, overlapped>>

WakeNext ==
  \/ \E t \in Reporters : \/ grabPartialWakeLock(t) \/ deliverResponse(t)
                        \/ readPrevious(t) \/ cancelPrevious(t) \/ setLast(t)
  \/ releaseWakeLock
  \/ userTimerCallback \/ wakeTimeoutCallback \/ testLast \/ freeInfo

WakeSpec == WakeInit /\ [][WakeNext]_wakeVars

\* The variables have their types; a timer is set once at a time.
WakeTypeOK ==
  /\ version \in Versions
  /\ held \in BOOLEAN /\ s_wakelock_count \in Nat
  /\ wakeTimers \in Seq(TimeoutInfos) /\ IsInjective(wakeTimers)
  /\ userParam \subseteq Allocated
  /\ s_last_wake_timeout_info \in TimeoutInfos \cup {NULL}
  /\ reporting \in [Reporters -> {"idle", "deliver", "read", "cancel", "set"}]
  /\ p_info \in [Reporters -> TimeoutInfos \cup {NULL}]
  /\ previous \in [Reporters -> TimeoutInfos \cup {NULL}]
  /\ loopAt \in {"select", "callback", "test", "clear", "free"}
  /\ firing \in TimeoutInfos \cup {NULL} /\ param \in BOOLEAN
  /\ acks \in 0..ResponsesMax /\ overlapped \in BOOLEAN

\* A timer that was not cancelled will give the lock back.
WillRelease ==
  \/ Range(wakeTimers) \ userParam # {}
  \/ loopAt = "callback" /\ ~param

\* The phone is not kept awake for good: whenever the wake lock is held, a
\* thread is still on its way to set a timer for it (version 12), or a timer
\* runs that was not cancelled, in whatever order the threads and the event
\* loop get at s_last_wake_timeout_info (RIL_onUnsolicitedResponse: "as we
\* exit we'll either release it immediately or set a timer to release it
\* later").  Version 12 has no mutex: once two of its threads are between
\* setting a timer and remembering it, one may cancel the other's.
HeldUntilTimeout ==
  held /\ ~overlapped =>
    \/ WillRelease
    \/ version < 13 /\ \E t \in Reporters : reporting[t] = "deliver"
=============================================================================
