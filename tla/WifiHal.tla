------------------------------ MODULE WifiHal ------------------------------
(* The legacy Wi-Fi HAL (wifi/wifi_hal): HalState, whose Info object the     *)
(* event loop runs on and wifi_cleanup destroys, and the Netlink socket the  *)
(* link statistics are asked with.                                           *)
(*                                                                           *)
(* The client is external: one thread that calls initialize, link_stats and  *)
(* cleanup in any order, and for each initialize a thread that calls         *)
(* wifi_event_loop, which may be late.  The kernel answers a request, or     *)
(* sends an error in place of the answer.  The functions of the table that   *)
(* return a constant are left out.                                           *)
EXTENDS Naturals, FiniteSets

CONSTANTS SequenceMax,   \* bound: requests of one Netlink object
          LoopsMax       \* bound: threads on their way to wifi_event_loop

ASSUME WifiHalBounds == SequenceMax \in Nat /\ LoopsMax \in Nat

VARIABLES
  halState,              \* HalState::mState
  mInfo,                 \* it is allocated
  mHandlers,             \* sequence numbers, of this Info object
  mNextSequenceNumber,
  mStopHandler,          \* it is set
  controlPipe,           \* a byte is written
  kernel,                \* requests under way
  halClient,             \* where the client is
  stopped,               \* of wifi_cleanup
  loops,                 \* threads that have not called wifi_event_loop yet
  loop,                  \* where the running event loop is
  replying,              \* the handler it has taken off mHandlers
  broken                 \* history: poll() failed

hal == <<halState, mInfo>>
socketVars == <<mHandlers, mNextSequenceNumber, mStopHandler, controlPipe, kernel>>
loopPlace == <<loop, replying, broken>>
wifiHalVars == <<hal, socketVars, halClient, stopped, loops, loopPlace>>

NoReply == 0

freshNetlink ==
  /\ mHandlers' = {} /\ mNextSequenceNumber' = 1
  /\ mStopHandler' = FALSE /\ controlPipe' = FALSE /\ kernel' = {}

WifiHalInit ==
  /\ halState = "Constructed" /\ mInfo = FALSE
  /\ mHandlers = {} /\ mNextSequenceNumber = 1
  /\ mStopHandler = FALSE /\ controlPipe = FALSE /\ kernel = {}
  /\ halClient = "idle" /\ stopped = FALSE
  /\ loops = 0 /\ loop = "none" /\ replying = NoReply /\ broken = FALSE

-----------------------------------------------------------------------------
(* The client *)

\* HalState::init; making or opening the Info object may fail.
wifi_initialize ==
  /\ halClient = "idle" /\ loops < LoopsMax
  /\ halState \in {"Stopped", "Constructed"} /\ ~mInfo
  /\ mInfo' = TRUE /\ halState' = "Initialized"
  /\ freshNetlink
  /\ loops' = loops + 1
  /\ UNCHANGED <<halClient, stopped, loopPlace>>

\* Interface::getLinkStats and Netlink::sendMessage; send may fail, and then
\* the handler is taken back.  The client has no interface after cleanup.
getLinkStats ==
  /\ halClient = "idle" /\ mInfo /\ halState \in {"Initialized", "Running"}
  /\ mNextSequenceNumber <= SequenceMax
  /\ mNextSequenceNumber' = mNextSequenceNumber + 1
  /\ \/ /\ mHandlers' = mHandlers \cup {mNextSequenceNumber}
        /\ kernel' = kernel \cup {mNextSequenceNumber}
     \/ UNCHANGED <<mHandlers, kernel>>
  /\ UNCHANGED <<hal, mStopHandler, controlPipe, halClient, stopped, loops, loopPlace>>

\* A faulty version: the Info object is left to the loop that is to come.
keepInfo ==
  /\ halClient = "idle"
  /\ \/ /\ halState = "Running"
        /\ halState' = "Stopping" /\ halClient' = "stop" /\ stopped' = FALSE
     \/ /\ halState \in {"Constructed", "Initialized"}
        /\ halState' = "Stopped"
        /\ UNCHANGED <<halClient, stopped>>
  /\ UNCHANGED <<mInfo, socketVars, loops, loopPlace>>

\* HalState::stop under mStateMutex.  Only a running loop can call back.
wifi_cleanup ==
  /\ halClient = "idle"
  /\ \/ /\ halState = "Running"
        /\ halState' = "Stopping" /\ halClient' = "stop" /\ stopped' = FALSE
        /\ UNCHANGED mInfo
     \/ /\ halState \in {"Constructed", "Initialized"}
        /\ halState' = "Stopped" /\ mInfo' = FALSE
        /\ UNCHANGED <<halClient, stopped>>
  /\ UNCHANGED <<socketVars, loops, loopPlace>>

\* Netlink::stop, after mStateMutex is released.
setStopHandler ==
  /\ halClient = "stop"
  /\ mStopHandler' = TRUE
  /\ halClient' = "write"
  /\ UNCHANGED <<hal, mHandlers, mNextSequenceNumber, controlPipe, kernel, stopped,
                 loops, loopPlace>>

writeControl ==
  /\ halClient = "write"
  /\ controlPipe' = TRUE
  /\ halClient' = "wait"
  /\ UNCHANGED <<hal, mHandlers, mNextSequenceNumber, mStopHandler, kernel, stopped,
                 loops, loopPlace>>

\* wifi_cleanup returns.
cleanedUp ==
  /\ halClient = "wait" /\ stopped
  /\ halClient' = "idle"
  /\ UNCHANGED <<hal, socketVars, stopped, loops, loopPlace>>

-----------------------------------------------------------------------------
(* The event loop *)

\* HalState::eventLoop: a late thread finds another state, or runs on the
\* Info object of a later initialize.
eventLoop ==
  /\ loops > 0
  /\ loops' = loops - 1
  /\ IF halState = "Initialized" /\ mInfo
       THEN halState' = "Running" /\ loop' = "poll"
       ELSE UNCHANGED <<halState, loop>>
  /\ UNCHANGED <<mInfo, socketVars, halClient, stopped, replying, broken>>

\* readNetlinkMessage: an error ends the message and its handler is kept.
\* notifyHandler takes the handler off before it is called.
readNetlinkMessage(n) ==
  /\ loop = "poll" /\ n \in kernel
  /\ kernel' = kernel \ {n}
  /\ \/ n \in mHandlers /\ mHandlers' = mHandlers \ {n} /\ replying' = n /\ loop' = "reply"
     \/ UNCHANGED <<mHandlers, replying, loop>>
  /\ UNCHANGED <<hal, mNextSequenceNumber, mStopHandler, controlPipe, halClient, stopped,
                 loops, broken>>

\* Interface::onLinkStatsReply, which uses the interface of the Info object.
onLinkStatsReply ==
  /\ loop = "reply"
  /\ replying' = NoReply /\ loop' = "poll"
  /\ UNCHANGED <<hal, socketVars, halClient, stopped, loops, broken>>

\* The loop copies the stop handler and calls it: the callback of wifi_cleanup
\* comes first.
readControlMessage ==
  /\ loop = "poll" /\ controlPipe
  /\ IF mStopHandler THEN stopped' = TRUE /\ loop' = "onStop"
                     ELSE loop' = "none" /\ UNCHANGED stopped
  /\ UNCHANGED <<hal, socketVars, halClient, loops, replying, broken>>

\* eventLoop returns, and the state stays as it is.
pollFails ==
  /\ loop = "poll"
  /\ loop' = "none" /\ broken' = TRUE
  /\ UNCHANGED <<hal, socketVars, halClient, stopped, loops, replying>>

\* HalState::onStop goes on: mInfo.reset(), without mStateMutex,
resetInfo ==
  /\ loop = "onStop"
  /\ mInfo' = FALSE /\ loop' = "stopped"
  /\ UNCHANGED <<halState, socketVars, halClient, stopped, loops, replying, broken>>

\* and the state with it.
setStopped ==
  /\ loop = "stopped"
  /\ halState' = "Stopped" /\ loop' = "none"
  /\ UNCHANGED <<mInfo, socketVars, halClient, stopped, loops, replying, broken>>

\* Nobody calls back any more: the process of the HAL is started again.
restart ==
  /\ broken
  /\ halState' = "Constructed" /\ mInfo' = FALSE /\ freshNetlink
  /\ halClient' = "idle" /\ stopped' = FALSE
  /\ loops' = 0 /\ loop' = "none" /\ replying' = NoReply /\ broken' = FALSE

WifiHalNext ==
  \/ wifi_initialize \/ getLinkStats \/ wifi_cleanup \/ setStopHandler \/ writeControl
  \/ cleanedUp \/ eventLoop \/ onLinkStatsReply \/ readControlMessage
  \/ pollFails \/ restart \/ resetInfo \/ setStopped
  \/ \E n \in kernel : readNetlinkMessage(n)

\* The threads run; poll() returns when there is something to read.
clientSteps == setStopHandler \/ writeControl \/ cleanedUp
loopSteps == onLinkStatsReply \/ readControlMessage \/ resetInfo \/ setStopped
WifiHalFairness == WF_wifiHalVars(clientSteps) /\ WF_wifiHalVars(loopSteps)

WifiHalSpec == WifiHalInit /\ [][WifiHalNext]_wifiHalVars

-----------------------------------------------------------------------------
\* The variables have their types.
WifiHalTypeOK ==
  /\ halState \in {"Constructed", "Initialized", "Running", "Stopping", "Stopped"}
  /\ mInfo \in BOOLEAN /\ mStopHandler \in BOOLEAN /\ controlPipe \in BOOLEAN
  /\ mHandlers \subseteq 1..SequenceMax /\ kernel \subseteq 1..SequenceMax
  /\ mNextSequenceNumber \in 1..(SequenceMax + 1)
  /\ halClient \in {"idle", "stop", "write", "wait"} /\ stopped \in BOOLEAN
  /\ loops \in 0..LoopsMax
  /\ loop \in {"none", "poll", "reply", "onStop", "stopped"}
  /\ replying \in 0..SequenceMax /\ broken \in BOOLEAN

\* The Info object outlives its use, although it is destroyed without
\* mStateMutex, and by the loop that runs on it: it is there while the loop
\* polls or replies and while wifi_cleanup stops it, and none is left in a
\* state from which HalState::init makes another ("This is a logic error
\* somewhere and should not happen").
InfoOutlivesUse ==
  /\ loop \in {"poll", "reply"} \/ halClient \in {"stop", "write"} => mInfo
  /\ halState \in {"Constructed", "Stopped"} => ~mInfo

\* wifi_cleanup returns once it waits ("The handler succeeded and will call our
\* callback, wait for it"), unless poll() failed before.
CleanupReturns == []<>(halClient = "idle" \/ broken)
=============================================================================
