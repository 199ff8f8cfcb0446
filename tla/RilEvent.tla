------------------------------ MODULE RilEvent ------------------------------
(***************************************************************************)
(* The event loop of libril (ril_event.cpp) and the timed callbacks that   *)
(* ril.cpp runs on it.  Any thread adds a timer under listMutex and then   *)
(* writes to a pipe; the loop reads the head of timer_list without the     *)
(* mutex, sleeps in select() until then or until the pipe is readable, and *)
(* runs what has expired.  The read end of the pipe is the only descriptor *)
(* that this program ever puts in watch_table.                             *)
(***************************************************************************)
EXTENDS Integers, Sequences

CONSTANTS
  Threads,      \* threads other than the event loop that request callbacks
  Timers,       \* UserCallbackInfo records, each requested at most once
  Delays,       \* relative times that are asked for
  MaxTime       \* bound: the clock stops here

ASSUME EventAssumption == MaxTime \in Nat /\ Delays \subseteq Nat

Wakeup  == [ev |-> "wakeup"]                 \* s_wakeupfd_event
Entry   == [ev : Timers, timeout : Nat]      \* a ril_event in a timer list
BLOCK   == -1                                \* select() without a timeout

VARIABLES
  timer_list, pending_list,
  watched,      \* s_wakeupfd_event is in watch_table and readFds
  piped,        \* the pipe exists and s_fdWakeupWrite names it
  s_started,
  wake,         \* the pipe has bytes to read
  lpc,          \* where the event loop is
  rfds,         \* its copy of readFds has the pipe
  until,        \* when its select() times out
  n,            \* what select() returned
  tpc,          \* where each other thread is
  asked, fired, \* callbacks that were requested, that were run
  now

lists == <<timer_list, pending_list>>
setup == <<watched, piped, s_started>>
loop  == <<lpc, rfds, until, n>>
hist  == <<asked, fired>>
vars  == <<lists, setup, wake, loop, tpc, hist, now>>

Init ==
  /\ timer_list = <<>> /\ pending_list = <<>>
  /\ watched = 0 /\ piped = 0 /\ s_started = 0 /\ wake = 0
  /\ lpc = "eventLoop" /\ rfds = 0 /\ until = BLOCK /\ n = 0
  /\ tpc = [t \in Threads |-> "idle"]
  /\ asked = {} /\ fired = {} /\ now = 0

-----------------------------------------------------------------------------
(* Timers.                                                                 *)

(* Faulty: a new timer goes to the end of the list.                        *)
AppendTimer(e) == timer_list' = Append(timer_list, e)

(* ril_timer_add: in front of the first timer that is not earlier.         *)
ril_timer_add(e) ==
  \E k \in 0..Len(timer_list) :
    /\ \A i \in 1..k : timer_list[i].timeout < e.timeout
    /\ k < Len(timer_list) => ~(timer_list[k + 1].timeout < e.timeout)
    /\ timer_list' = SubSeq(timer_list, 1, k) \o <<e>>
                       \o SubSeq(timer_list, k + 1, Len(timer_list))

(* Faulty: the event loop is not told about a new timer.                   *)
NoTrigger == "idle"

(* internalRequestTimedCallback calls triggerEvLoop after ril_timer_add.   *)
AfterTimerAdd == "triggerEvLoop"

(* A callback tm is asked for after d; the clock still gets past it.       *)
CanAsk(tm, d) == s_started = 1 /\ tm \notin asked /\ now + d < MaxTime

RIL_requestTimedCallback(t, tm, d) ==
  /\ tpc[t] = "idle" /\ CanAsk(tm, d)
  /\ ril_timer_add([ev |-> tm, timeout |-> now + d])
  /\ asked' = asked \cup {tm}
  /\ tpc' = [tpc EXCEPT ![t] = AfterTimerAdd]
  /\ UNCHANGED <<pending_list, setup, wake, loop, fired, now>>

(* Before the pipe exists the byte is written elsewhere.                   *)
WriteByte == IF piped = 1 THEN 1 ELSE wake

triggerEvLoop(t) ==
  /\ tpc[t] = "triggerEvLoop"
  /\ wake' = WriteByte
  /\ tpc' = [tpc EXCEPT ![t] = "idle"]
  /\ UNCHANGED <<lists, setup, loop, hist, now>>

-----------------------------------------------------------------------------
(* The thread of eventLoop.                                                *)

(* ril_event_init, and RIL_startEventLoop is released.                     *)
StartLoop ==
  /\ lpc = "eventLoop"
  /\ s_started' = 1
  /\ lpc' = "pipe"
  /\ UNCHANGED <<lists, watched, piped, wake, rfds, until, n, tpc, hist, now>>

CreatePipe ==
  /\ lpc = "pipe"
  /\ piped' = 1
  /\ lpc' = "ril_event_add"
  /\ UNCHANGED <<lists, watched, s_started, wake, rfds, until, n, tpc, hist, now>>

(* rilEventAddWakeup: on this thread triggerEvLoop writes nothing.         *)
ril_event_add ==
  /\ lpc = "ril_event_add"
  /\ watched' = 1
  /\ lpc' = "copyFds"
  /\ UNCHANGED <<lists, piped, s_started, wake, rfds, until, n, tpc, hist, now>>

CopyFds ==
  /\ lpc = "copyFds"
  /\ rfds' = watched
  /\ lpc' = "calcNextTimeout"
  /\ UNCHANGED <<lists, setup, wake, until, n, tpc, hist, now>>

(* The first timer decides: its time, or at once when that has passed.     *)
NextTimeout ==
  IF timer_list = <<>> THEN BLOCK
  ELSE IF Head(timer_list).timeout > now THEN Head(timer_list).timeout ELSE now

calcNextTimeout ==
  /\ lpc = "calcNextTimeout"
  /\ until' = NextTimeout
  /\ lpc' = "select"
  /\ UNCHANGED <<lists, setup, wake, rfds, n, tpc, hist, now>>

(* select() returns when the pipe is readable or its time has come ...     *)
SelectReturns ==
  /\ lpc = "select"
  /\ \/ rfds = 1 /\ wake = 1 /\ n' = 1
     \/ until # BLOCK /\ now >= until /\ ~(rfds = 1 /\ wake = 1) /\ n' = 0
  /\ lpc' = "processTimeouts"
  /\ UNCHANGED <<lists, setup, wake, rfds, until, tpc, hist, now>>

(* ... or with EINTR.                                                      *)
SelectInterrupted ==
  /\ lpc = "select"
  /\ lpc' = "copyFds"
  /\ UNCHANGED <<lists, setup, wake, rfds, until, n, tpc, hist, now>>

(* timercmp(&now, &tev->timeout, >)                                        *)
Expired(e) == now > e.timeout

(* The expired timers at the head of the list become pending, in order.    *)
processTimeouts ==
  /\ lpc = "processTimeouts"
  /\ \E k \in 0..Len(timer_list) :
       /\ \A i \in 1..k : Expired(timer_list[i])
       /\ k < Len(timer_list) => ~Expired(timer_list[k + 1])
       /\ pending_list' = pending_list \o SubSeq(timer_list, 1, k)
       /\ timer_list' = SubSeq(timer_list, k + 1, Len(timer_list))
  /\ lpc' = "processReadReadies"
  /\ UNCHANGED <<setup, wake, rfds, until, n, tpc, hist, now>>

(* Faulty: the readable pipe displaces what has expired.                   *)
WakeupDisplaces == IF n > 0 THEN <<Wakeup>> ELSE pending_list

(* A readable pipe makes s_wakeupfd_event pending, behind the timers.      *)
ReadReady == IF n > 0 THEN Append(pending_list, Wakeup) ELSE pending_list

processReadReadies ==
  /\ lpc = "processReadReadies"
  /\ pending_list' = ReadReady
  /\ lpc' = "firePending"
  /\ UNCHANGED <<timer_list, setup, wake, rfds, until, n, tpc, hist, now>>

(* processWakeupCallback empties the pipe.                                 *)
FireWakeup ==
  /\ lpc = "firePending" /\ pending_list # <<>> /\ Head(pending_list) = Wakeup
  /\ pending_list' = Tail(pending_list)
  /\ wake' = 0
  /\ UNCHANGED <<timer_list, setup, loop, tpc, hist, now>>

(* userTimerCallback runs the callback, which may ask for another one: on  *)
(* this thread the pipe is not written to.                                 *)
FireTimer ==
  /\ lpc = "firePending" /\ pending_list # <<>> /\ Head(pending_list) # Wakeup
  /\ pending_list' = Tail(pending_list)
  /\ fired' = fired \cup {Head(pending_list).ev}
  /\ \/ UNCHANGED <<timer_list, asked>>
     \/ \E tm \in Timers, d \in Delays :
          /\ CanAsk(tm, d)
          /\ ril_timer_add([ev |-> tm, timeout |-> now + d])
          /\ asked' = asked \cup {tm}
  /\ UNCHANGED <<setup, wake, loop, tpc, now>>

FirePendingDone ==
  /\ lpc = "firePending" /\ pending_list = <<>>
  /\ lpc' = "copyFds"
  /\ UNCHANGED <<lists, setup, wake, rfds, until, n, tpc, hist, now>>

-----------------------------------------------------------------------------
Tick ==
  /\ now < MaxTime
  /\ now' = now + 1
  /\ UNCHANGED <<lists, setup, wake, loop, tpc, hist>>

LoopStep ==
  \/ StartLoop \/ CreatePipe \/ ril_event_add \/ CopyFds \/ calcNextTimeout
  \/ SelectReturns \/ processTimeouts \/ processReadReadies
  \/ FireWakeup \/ FireTimer \/ FirePendingDone

Next ==
  \/ LoopStep
  \/ SelectInterrupted
  \/ \E t \in Threads, tm \in Timers, d \in Delays : RIL_requestTimedCallback(t, tm, d)
  \/ \E t \in Threads : triggerEvLoop(t)
  \/ Tick

Spec == Init /\ [][Next]_vars

(* The threads run and time passes; nobody has to ask for a callback, and  *)
(* signals do not interrupt every select() that could return.              *)
FairSpec ==
  /\ Spec
  /\ WF_vars(LoopStep) /\ SF_vars(SelectReturns)
  /\ \A t \in Threads : WF_vars(triggerEvLoop(t))
  /\ WF_vars(Tick)

-----------------------------------------------------------------------------
(* Properties.                                                             *)

(* Types of the variables.                                                 *)
TypeOK ==
  /\ timer_list \in Seq(Entry)
  /\ pending_list \in Seq(Entry \cup {Wakeup})
  /\ watched \in {0, 1} /\ piped \in {0, 1} /\ s_started \in {0, 1} /\ wake \in {0, 1}
  /\ lpc \in {"eventLoop", "pipe", "ril_event_add", "copyFds", "calcNextTimeout", "select",
              "processTimeouts", "processReadReadies", "firePending"}
  /\ rfds \in {0, 1} /\ until \in Nat \cup {BLOCK} /\ n \in {0, 1}
  /\ tpc \in [Threads -> {"idle", "triggerEvLoop"}]
  /\ asked \subseteq Timers /\ fired \subseteq Timers
  /\ now \in 0..MaxTime

(* Somebody is about to wake the loop, or has done so.                     *)
WakeupOnItsWay == wake = 1 \/ \E t \in Threads : tpc[t] = "triggerEvLoop"

(* While the loop sleeps in select(), it wakes up in time for every timer: *)
(* either its timeout is not after the timer's, or the pipe will wake it.  *)
(* The head of the list is read without listMutex, before other threads    *)
(* add what is due earlier.                                                *)
NoOversleep ==
  lpc = "select" =>
    \A i \in 1..Len(timer_list) :
      \/ until # BLOCK /\ (until <= timer_list[i].timeout \/ until <= now)
      \/ WakeupOnItsWay

Sorted(l) == \A i \in 1..Len(l) : \A j \in 1..i : l[j].timeout <= l[i].timeout

PendingSorted ==
  \A p \in 1..Len(pending_list) : \A q \in 1..p :
    pending_list[p] # Wakeup /\ pending_list[q] # Wakeup =>
      pending_list[q].timeout <= pending_list[p].timeout

(* "keep list sorted": timer_list is sorted; what waits in pending_list to *)
(* be fired has expired, is in the order in which it is due, and is due    *)
(* before everything still in timer_list, whatever the threads and the     *)
(* callbacks that have fired have added meanwhile.                         *)
FiresInOrder ==
  /\ Sorted(timer_list) /\ PendingSorted
  /\ \A p \in 1..Len(pending_list) : pending_list[p] # Wakeup =>
       /\ pending_list[p].timeout < now
       /\ \A i \in 1..Len(timer_list) : pending_list[p].timeout < timer_list[i].timeout

(* A callback that was asked for is run, whichever thread asked for it and *)
(* wherever the event loop was.                                            *)
EveryTimerFires == \A tm \in Timers : tm \in asked ~> tm \in fired

=============================================================================
