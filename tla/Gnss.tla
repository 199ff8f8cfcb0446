-------------------------------- MODULE Gnss --------------------------------
(* The GNSS HAL (gnss): Gnss20, called by the framework on binder threads,   *)
(* the worker thread of GnssHwConn, and GnssHwListener, which finds NMEA     *)
(* sentences in the bytes of the emulator's "gps" service.                   *)
(*                                                                           *)
(* The host is external.  A byte is known by its sentence, its position and  *)
(* whether it is the newline; the first one of a sentence is '$'.            *)
EXTENDS Naturals, Sequences

CONSTANTS Lengths,       \* of sentences
          BufferMax,     \* 1024 in the code
          DeviceMax,     \* bound: bytes on their way
          CommandsMax    \* bound: commands on their way

ASSUME GnssBounds ==
  /\ Lengths \subseteq Nat \ {0} /\ BufferMax \in Nat \ {0}
  /\ DeviceMax \in Nat /\ CommandsMax \in Nat

VARIABLES
  worker,                \* "none", "starting" or "polling"
  running, m_buffer,     \* locals of the worker
  threadsFd,             \* commands, from the callers to the worker
  devFd,                 \* bytes, from the host
  host,                  \* the next byte
  cb20,                  \* the callback is set
  setting,               \* setCallback_2_0 is between open and setCallback20
  cleaning               \* cleanup: "none", "join" (it has m_gnssHwConnMtx), "sink"

gnssVars == <<worker, running, m_buffer, threadsFd, devFd, host, cb20, setting,
              cleaning>>

Byte(s, p, n) == [sentence |-> s, position |-> p, newline |-> p = n, length |-> n]
Bytes == UNION {{Byte(s, p, n) : s \in {0, 1}, p \in 1..n} : n \in Lengths}
FirstBytes(s) == {Byte(s, 1, n) : n \in Lengths}

GnssInit ==
  /\ worker = "none" /\ running = FALSE /\ m_buffer = <<>>
  /\ threadsFd = <<>> /\ devFd = <<>> /\ host \in FirstBytes(0)
  /\ cb20 = FALSE /\ setting = FALSE /\ cleaning = "none"

---------------------------------------------------------------------------
(* Calls of the framework *)

hasMutex == cleaning # "join"

\* open: a connection, unless there is one; it may fail, and with it the call.
open ==
  /\ hasMutex /\ ~setting
  /\ setting' = TRUE
  /\ worker' = IF worker = "none" THEN "starting" ELSE worker
  /\ UNCHANGED <<running, m_buffer, threadsFd, devFd, host, cb20, cleaning>>

\* The rest of setCallback_2_0, without the mutex.
setCallback20 ==
  /\ setting
  /\ setting' = FALSE /\ cb20' = TRUE
  /\ UNCHANGED <<worker, running, m_buffer, threadsFd, devFd, host, cleaning>>

\* start and stop.
sendWorkerThreadCommand(cmd) ==
  /\ hasMutex /\ worker # "none" /\ Len(threadsFd) < CommandsMax
  /\ threadsFd' = Append(threadsFd, cmd)
  /\ UNCHANGED <<worker, running, m_buffer, devFd, host, cb20, setting, cleaning>>

\* cleanup: ~GnssHwConn sends QUIT and waits for the worker ...
cleanup ==
  /\ cleaning = "none"
  /\ IF worker = "none"
     THEN cleaning' = "sink" /\ UNCHANGED threadsFd
     ELSE cleaning' = "join" /\ threadsFd' = Append(threadsFd, "QUIT")
  /\ UNCHANGED <<worker, running, m_buffer, devFd, host, cb20, setting>>

\* ... then the callback is forgotten.
sinkCleanup ==
  /\ cleaning = "sink"
  /\ cleaning' = "none" /\ cb20' = FALSE
  /\ UNCHANGED <<worker, running, m_buffer, threadsFd, devFd, host, setting>>

---------------------------------------------------------------------------
(* The worker *)

\* ENGINE_ON, which is lost when there is no callback yet.
engineOn ==
  /\ worker = "starting"
  /\ worker' = "polling"
  /\ UNCHANGED <<running, m_buffer, threadsFd, devFd, host, cb20, setting,
                 cleaning>>

\* A faulty version: a new session goes on with the bytes of the last.
keepBuffer == UNCHANGED m_buffer

\* GnssHwListener::reset.
reset == m_buffer' = <<>>

\* A session is begun or ended, when it is not already.
startStop ==
  /\ worker = "polling" /\ threadsFd # <<>> /\ Head(threadsFd) # "QUIT"
  /\ running' = (Head(threadsFd) = "START")
  /\ IF running' /\ ~running THEN reset ELSE UNCHANGED m_buffer
  /\ threadsFd' = Tail(threadsFd)
  /\ UNCHANGED <<worker, devFd, host, cb20, setting, cleaning>>

\* QUIT: the worker ends, in a session or not, and cleanup goes on.  The pipe
\* is closed: the host starts with a sentence again.
quit ==
  /\ worker = "polling" /\ threadsFd # <<>> /\ Head(threadsFd) = "QUIT"
  /\ worker' = "none" /\ running' = FALSE /\ m_buffer' = <<>>
  /\ threadsFd' = <<>> /\ devFd' = <<>> /\ host' \in FirstBytes(0)
  /\ cleaning' = "sink"
  /\ UNCHANGED <<cb20, setting>>

\* GnssHwListener::consume.  Bytes are kept from '$' to the newline, which
\* hands them to parse; a sentence that is too long is dropped.
\* A newline that finds the buffer empty writes before its first byte
\* (m_buffer.back()): undefined, it goes unnoticed here or ends in corrupted.
consume(c) ==
  LET pushed == IF c.position = 1 \/ m_buffer # <<>> THEN Append(m_buffer, c)
                                                     ELSE m_buffer
  IN m_buffer' = IF c.newline \/ Len(pushed) >= BufferMax THEN <<>> ELSE pushed

\* A byte of the device is read; outside of a session it is dropped.
readDevice ==
  /\ worker = "polling" /\ devFd # <<>>
  /\ IF running THEN consume(Head(devFd)) ELSE UNCHANGED m_buffer
  /\ devFd' = Tail(devFd)
  /\ UNCHANGED <<worker, running, threadsFd, host, cb20, setting, cleaning>>

\* The heap is found corrupted: the process aborts and is started again.
corrupted ==
  /\ worker = "polling" /\ running /\ devFd # <<>>
  /\ Head(devFd).newline /\ m_buffer = <<>>
  /\ worker' = "none" /\ running' = FALSE /\ UNCHANGED m_buffer
  /\ threadsFd' = <<>> /\ devFd' = <<>> /\ host' \in FirstBytes(0)
  /\ cb20' = FALSE /\ setting' = FALSE /\ cleaning' = "none"

\* The host writes, while the pipe is open.
hostWrites ==
  /\ worker # "none" /\ Len(devFd) < DeviceMax
  /\ devFd' = Append(devFd, host)
  /\ host' \in IF host.newline THEN FirstBytes(1 - host.sentence)
               ELSE {Byte(host.sentence, host.position + 1, host.length)}
  /\ UNCHANGED <<worker, running, m_buffer, threadsFd, cb20, setting, cleaning>>

GnssNext ==
  \/ open \/ setCallback20 \/ cleanup \/ sinkCleanup
  \/ \E cmd \in {"START", "STOP"} : sendWorkerThreadCommand(cmd)
  \/ engineOn \/ startStop \/ quit \/ readDevice \/ corrupted
  \/ hostWrites

GnssSpec == GnssInit /\ [][GnssNext]_gnssVars

\* The variables have their types, and queues their bounds.
GnssTypeOK ==
  /\ worker \in {"none", "starting", "polling"} /\ running \in BOOLEAN
  /\ host \in Bytes /\ m_buffer \in Seq(Bytes) /\ Len(m_buffer) < BufferMax
  /\ devFd \in Seq(Bytes) /\ Len(devFd) <= DeviceMax
  /\ threadsFd \in Seq({"START", "STOP", "QUIT"})
  /\ Len(threadsFd) <= CommandsMax + 1
  /\ cb20 \in BOOLEAN /\ setting \in BOOLEAN
  /\ cleaning \in {"none", "join", "sink"}

\* What the listener has of a sentence is its beginning, whole and of one
\* sentence, so parse gets what the host wrote in one piece: across sessions
\* that start and stop amid sentences, and sentences that are too long.
SentencesWhole ==
  \A i \in DOMAIN m_buffer :
     /\ m_buffer[i].position = i
     /\ m_buffer[i].sentence = m_buffer[1].sentence
=============================================================================
