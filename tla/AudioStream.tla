---------------------------- MODULE AudioStream ----------------------------
(* The audio HAL (audio): the primary device, its output and input streams *)
(* and the I/O thread of each, which is driven through message queues of   *)
(* one element and an event flag word.  StreamOut with WriteThread and     *)
(* StreamIn with ReadThread have the same control: NOT_EMPTY wakes the one *)
(* and answers of the other, NOT_FULL the reverse.                         *)
(*                                                                         *)
(* The caller is external: it makes one binder call at a time on a stream, *)
(* and uses the queues from another thread, one command at a time.         *)
EXTENDS Integers, FiniteSets, Sequences

CONSTANTS Streams, Commands,   \* Commands: known ones and others
          Known

ASSUME AudioBounds == IsFiniteSet(Streams)

VARIABLES
  mNStreams, mMixer,           \* PrimaryDevice
  mDev,                        \* "none" (no stream), "open" or "closed"
  ioThread,                    \* "none", "wait", "process", "gone"
  efState,                     \* bits of the event flag word
  mCommandMQ, mStatusMQ,
  current,                     \* the command the thread has read
  mPcm,                        \* the PCM is open
  caller,                      \* "idle", "write", "wait": the queue user
  asked,                       \* its last command
  lastCall,                    \* "standby" if no command came after it
  joining                      \* the call that waits for the thread to end

NoCommand == "none"
Requests == {"command", "standBy", "exit"}

streamVars == <<mDev, ioThread, efState, mCommandMQ, mStatusMQ, current, mPcm,
                caller, asked, lastCall, joining>>
deviceVars == <<mNStreams, mMixer>>
audioVars == <<deviceVars, streamVars>>

AudioInit ==
  /\ mNStreams = 0 /\ mMixer = TRUE
  /\ mDev = [s \in Streams |-> "none"]
  /\ ioThread = [s \in Streams |-> "none"]
  /\ efState = [s \in Streams |-> {}]
  /\ mCommandMQ = [s \in Streams |-> <<>>]
  /\ mStatusMQ = [s \in Streams |-> <<>>]
  /\ current = [s \in Streams |-> NoCommand]
  /\ mPcm = [s \in Streams |-> FALSE]
  /\ caller = [s \in Streams |-> "idle"]
  /\ asked = [s \in Streams |-> NoCommand]
  /\ lastCall = [s \in Streams |-> "none"]
  /\ joining = [s \in Streams |-> "none"]

-----------------------------------------------------------------------------
(* PrimaryDevice.  Opening does not look at the mixer.                     *)
openStream(s) ==
  /\ mDev[s] = "none"
  /\ mNStreams' = mNStreams + 1
  /\ mDev' = [mDev EXCEPT ![s] = "open"]
  /\ UNCHANGED <<mMixer, ioThread, efState, mCommandMQ, mStatusMQ, current, mPcm,
                 caller, asked, lastCall, joining>>

closeDevice ==
  /\ mNStreams = 0
  /\ mMixer /\ mMixer' = FALSE
  /\ UNCHANGED <<mNStreams, streamVars>>

(* prepareForWriting, prepareForReading: there is no test of mDev.         *)
prepare(s) ==
  /\ mDev[s] # "none" /\ joining[s] = "none"
  /\ ioThread[s] = "none"
  /\ ioThread' = [ioThread EXCEPT ![s] = "wait"]
  /\ efState' = [efState EXCEPT ![s] = {}]
  /\ mCommandMQ' = [mCommandMQ EXCEPT ![s] = <<>>]
  /\ mStatusMQ' = [mStatusMQ EXCEPT ![s] = <<>>]
  /\ UNCHANGED <<deviceVars, mDev, current, mPcm, caller, asked, lastCall, joining>>

wake(s, bit) == efState' = [efState EXCEPT ![s] = @ \cup {bit}]

standby(s) ==
  /\ ioThread[s] # "none" /\ joining[s] = "none"
  /\ wake(s, "standBy")
  /\ lastCall' = [lastCall EXCEPT ![s] = IF caller[s] = "idle" THEN "standby" ELSE @]
  /\ UNCHANGED <<deviceVars, mDev, ioThread, mCommandMQ, mStatusMQ, current, mPcm,
                 caller, asked, joining>>

(* close() of an open stream and the destruction of a stream end the       *)
(* thread and wait for it.                                                 *)
requestExit(s, call) ==
  /\ joining[s] = "none"
  /\ joining' = [joining EXCEPT ![s] = call]
  /\ IF ioThread[s] = "none" THEN UNCHANGED efState ELSE wake(s, "exit")
  /\ UNCHANGED <<deviceVars, mDev, ioThread, mCommandMQ, mStatusMQ, current, mPcm,
                 caller, asked, lastCall>>

closeStream(s) == mDev[s] = "open" /\ requestExit(s, "close")
destroyStream(s) == mDev[s] # "none" /\ requestExit(s, "destroy")

(* Faulty: a stream that was closed is counted down again when it ends.    *)
countDown(s) == mNStreams - 1

(* The streams of the device once a stream is closed, or ends unclosed.    *)
unrefDevice(s) == IF mDev[s] = "open" THEN mNStreams - 1 ELSE mNStreams

(* The join returns: the thread and what it owns are gone, and the device  *)
(* counts one stream less unless that was done before.                     *)
joined(s) ==
  /\ joining[s] # "none"
  /\ ioThread[s] \in {"none", "gone"}
  /\ ioThread' = [ioThread EXCEPT ![s] = "none"]
  /\ mPcm' = [mPcm EXCEPT ![s] = FALSE]
  /\ mNStreams' = unrefDevice(s)
  /\ mDev' = [mDev EXCEPT ![s] = IF joining[s] = "close" THEN "closed" ELSE "none"]
  /\ joining' = [joining EXCEPT ![s] = "none"]
  /\ caller' = [caller EXCEPT ![s] = "idle"]
  /\ asked' = [asked EXCEPT ![s] = NoCommand]
  /\ lastCall' = [lastCall EXCEPT ![s] = "none"]
  /\ UNCHANGED <<mMixer, efState, mCommandMQ, mStatusMQ, current>>

-----------------------------------------------------------------------------
(* The user of the queues.                                                 *)
ask(s, c) ==
  /\ ioThread[s] \in {"wait", "process"}
  /\ caller[s] = "idle" /\ joining[s] = "none" /\ mCommandMQ[s] = <<>>
  /\ mCommandMQ' = [mCommandMQ EXCEPT ![s] = <<c>>]
  /\ caller' = [caller EXCEPT ![s] = "write"]
  /\ asked' = [asked EXCEPT ![s] = c]
  /\ lastCall' = [lastCall EXCEPT ![s] = "none"]
  /\ UNCHANGED <<deviceVars, mDev, ioThread, efState, mStatusMQ, current, mPcm, joining>>

notify(s) ==
  /\ caller[s] = "write"
  /\ wake(s, "command")
  /\ caller' = [caller EXCEPT ![s] = "wait"]
  /\ UNCHANGED <<deviceVars, mDev, ioThread, mCommandMQ, mStatusMQ, current, mPcm,
                 asked, lastCall, joining>>

readStatus(s) ==
  /\ caller[s] = "wait"
  /\ "reply" \in efState[s]
  /\ efState' = [efState EXCEPT ![s] = @ \ {"reply"}]
  /\ mStatusMQ' = [mStatusMQ EXCEPT ![s] = <<>>]
  /\ caller' = [caller EXCEPT ![s] = "idle"]
  /\ UNCHANGED <<deviceVars, mDev, ioThread, mCommandMQ, current, mPcm, asked,
                 lastCall, joining>>

-----------------------------------------------------------------------------
(* Faulty: a command that comes with a stand-by request uses the PCM that  *)
(* is there.                                                               *)
openUnlessStandBy(s, bits) ==
  IF "standBy" \in bits THEN FALSE ELSE mPcm[s] \/ "command" \in bits

(* STAND_BY_REQUEST closes the PCM and a command opens it, in this order.  *)
pcmAfter(s, bits) ==
  IF "command" \in bits THEN TRUE ELSE mPcm[s] /\ "standBy" \notin bits

(* One round of threadLoop up to where the command is carried out.  wait   *)
(* takes the bits it waits for.                                            *)
threadLoop(s) ==
  /\ ioThread[s] = "wait"
  /\ LET bits == efState[s] \cap Requests
     IN  /\ bits # {}
         /\ efState' = [efState EXCEPT ![s] = @ \ bits]
         /\ \/ /\ "exit" \in bits
               /\ ioThread' = [ioThread EXCEPT ![s] = "gone"]
               /\ UNCHANGED <<mPcm, mCommandMQ, current>>
            \/ /\ "exit" \notin bits
               /\ mPcm' = [mPcm EXCEPT ![s] = pcmAfter(s, bits)]
               /\ IF "command" \in bits /\ mCommandMQ[s] # <<>>
                  THEN /\ current' = [current EXCEPT ![s] = mCommandMQ[s][1]]
                       /\ mCommandMQ' = [mCommandMQ EXCEPT ![s] = <<>>]
                       /\ ioThread' = [ioThread EXCEPT ![s] = "process"]
                  ELSE UNCHANGED <<current, mCommandMQ, ioThread>>
  /\ UNCHANGED <<deviceVars, mDev, mStatusMQ, caller, asked, lastCall, joining>>

(* A PCM that cannot be opened (for a command), or closed (for a stand-by, *)
(* or with the thread), aborts the process, which is started again.        *)
pcmFatal(s) ==
  /\ \/ /\ ioThread[s] = "wait" /\ "exit" \notin efState[s]
        /\ \/ "command" \in efState[s] /\ ("standBy" \in efState[s] \/ ~mPcm[s])
           \/ "standBy" \in efState[s] /\ mPcm[s]
     \/ joining[s] # "none" /\ ioThread[s] = "gone" /\ mPcm[s]
  /\ mNStreams' = 0 /\ mMixer' = TRUE
  /\ mDev' = [t \in Streams |-> "none"]
  /\ ioThread' = [t \in Streams |-> "none"]
  /\ efState' = [t \in Streams |-> {}]
  /\ mCommandMQ' = [t \in Streams |-> <<>>]
  /\ mStatusMQ' = [t \in Streams |-> <<>>]
  /\ current' = [t \in Streams |-> NoCommand]
  /\ mPcm' = [t \in Streams |-> FALSE]
  /\ caller' = [t \in Streams |-> "idle"]
  /\ asked' = [t \in Streams |-> NoCommand]
  /\ lastCall' = [t \in Streams |-> "none"]
  /\ joining' = [t \in Streams |-> "none"]

(* Faulty: only a command that is known is answered.                       *)
answerKnown(s) ==
  /\ ioThread[s] = "process"
  /\ IF current[s] \in Known
     THEN mStatusMQ' = [mStatusMQ EXCEPT ![s] = <<current[s]>>] /\ wake(s, "reply")
     ELSE UNCHANGED <<mStatusMQ, efState>>
  /\ current' = [current EXCEPT ![s] = NoCommand]
  /\ ioThread' = [ioThread EXCEPT ![s] = "wait"]
  /\ UNCHANGED <<deviceVars, mDev, mCommandMQ, mPcm, caller, asked, lastCall, joining>>

(* The rest of processCommand: every command, an unknown one too, is       *)
(* answered with a status that names it, if the queue has room.            *)
processCommand(s) ==
  /\ ioThread[s] = "process"
  /\ mStatusMQ' = [mStatusMQ EXCEPT ![s] = IF @ = <<>> THEN <<current[s]>> ELSE @]
  /\ wake(s, "reply")
  /\ current' = [current EXCEPT ![s] = NoCommand]
  /\ ioThread' = [ioThread EXCEPT ![s] = "wait"]
  /\ UNCHANGED <<deviceVars, mDev, mCommandMQ, mPcm, caller, asked, lastCall, joining>>

AudioNext ==
  \/ closeDevice
  \/ \E s \in Streams :
       \/ openStream(s) \/ prepare(s) \/ standby(s)
       \/ closeStream(s) \/ destroyStream(s) \/ joined(s)
       \/ \E c \in Commands : ask(s, c)
       \/ notify(s) \/ readStatus(s)
       \/ threadLoop(s) \/ processCommand(s) \/ pcmFatal(s)

(* The I/O thread runs, a join returns when it can, and a caller that has  *)
(* written a command goes on to wait for its answer and to read it.        *)
AudioFairness ==
  \A s \in Streams :
    /\ WF_audioVars(threadLoop(s)) /\ WF_audioVars(processCommand(s))
    /\ WF_audioVars(joined(s))
    /\ WF_audioVars(notify(s)) /\ WF_audioVars(readStatus(s))

AudioSpec == AudioInit /\ [][AudioNext]_audioVars

-----------------------------------------------------------------------------
(* The variables have their types, and the count of streams, which aborts  *)
(* the process when it is negative, stays within the number of streams.    *)
AudioTypeOK ==
  /\ mNStreams \in 0..Cardinality(Streams) /\ mMixer \in BOOLEAN
  /\ mDev \in [Streams -> {"none", "open", "closed"}]
  /\ ioThread \in [Streams -> {"none", "wait", "process", "gone"}]
  /\ efState \in [Streams -> SUBSET (Requests \cup {"reply"})]
  /\ mCommandMQ \in [Streams -> {<<>>} \cup {<<c>> : c \in Commands}]
  /\ mStatusMQ \in [Streams -> {<<>>} \cup {<<c>> : c \in Commands}]
  /\ current \in [Streams -> Commands \cup {NoCommand}]
  /\ mPcm \in [Streams -> BOOLEAN]
  /\ caller \in [Streams -> {"idle", "write", "wait"}]
  /\ asked \in [Streams -> Commands \cup {NoCommand}]
  /\ lastCall \in [Streams -> {"none", "standby"}]
  /\ joining \in [Streams -> {"none", "close", "destroy"}]

(* Whatever wakes are merged into one (threadLoop): a command never runs   *)
(* without a PCM, which doWrite and doRead use without a test; a stand-by  *)
(* that was asked for while no command was under way leaves the PCM closed *)
(* once the thread has seen it; and a status answers the command that its  *)
(* reader asked last (processCommand).                                     *)
RequestsKept ==
  \A s \in Streams :
    /\ ioThread[s] = "process" => mPcm[s]
    /\ lastCall[s] = "standby" /\ ioThread[s] = "wait" /\ "standBy" \notin efState[s]
         => ~mPcm[s]
    /\ mStatusMQ[s] # <<>> /\ ioThread[s] \in {"wait", "process"}
         => caller[s] = "wait" /\ mStatusMQ[s] = <<asked[s]>>

(* Every command is answered, unless the stream is closed or the process   *)
(* aborts meanwhile.                                                       *)
CommandsAnswered ==
  \A s \in Streams : []<>(caller[s] # "wait")
=============================================================================
