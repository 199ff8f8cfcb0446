------------------------------ MODULE Camera3 ------------------------------
(* The capture pipeline of the emulated camera (camera/EmulatedFakeCamera3  *)
(* with the Sensor and the JpegCompressor of camera/fake-pipeline2).  Four  *)
(* threads share it: the framework's, which submits requests and holds      *)
(* mLock during a call, the sensor's, which exposes one frame per cycle,    *)
(* the readout thread, which joins requests with images, and the thread     *)
(* that compresses one JPEG.                                                *)
(*                                                                          *)
(* A frame number stands for a request, its buffers and its image; 0 is     *)
(* NULL.  Settings and shutter notifications are left out: a request may be *)
(* refused whatever it is.  The framework is external: it makes one call at *)
(* a time, and may close the camera while requests are in the pipeline.     *)
(*                                                                          *)
(* A condition variable may return without a signal.  Where the code does   *)
(* not look again, an image is overwritten (lost counts them) or a null or  *)
(* freed object is used; what follows such a use is undefined, and the      *)
(* process is taken to die and to be started again.                         *)
EXTENDS Naturals, Sequences, FiniteSets

CONSTANTS MaxFrames,       \* bound: requests of a behaviour
          Kinds,           \* of "preview", "jpeg" and "depth"
          kMaxQueueSize

VARIABLES
  camStatus,               \* mStatus
  configured,              \* streams are configured (mStreams)
  call,                    \* where processCaptureRequest or closeCamera is, or "none"
  submitted,               \* frame number of the last request
  kind,                    \* kinds of the requests in the pipeline
  mInFlightQueue, mThreadActive, mCurrentRequest,
  readoutAt,               \* "take", "image", "idle", "send" or "exited"
  mNextBuffers, mGotVSync,
  nextBuffers,             \* of the sensor's current cycle
  mNextCapturedBuffers, mCapturedBuffers,
  sensorAt,                \* "control", "deliver" ("blocked", "woken"), "capture", "exited"
  lost,                    \* images overwritten since connectCamera
  mIsBusy, jpegBuffers,    \* JpegCompressor: mBuffers
  mJpegWaiting, mJpegFrameNumber,
  jpegThread,              \* "stopped", "compress", "done" or "exiting"
  results, jpegs,          \* results and JPEGs the framework waits for
  orphan                   \* a compressor of a closed camera still compresses

frameworkVars == <<camStatus, configured, call, submitted, kind>>
readoutVars == <<mInFlightQueue, mThreadActive, mCurrentRequest, readoutAt>>
controlVars == <<mNextBuffers, mGotVSync>>
sensorVars == <<nextBuffers, mNextCapturedBuffers, mCapturedBuffers, sensorAt, lost>>
jpegVars == <<mIsBusy, jpegBuffers, mJpegWaiting, mJpegFrameNumber, jpegThread>>
resultVars == <<results, jpegs>>
cameraVars == <<frameworkVars, readoutVars, controlVars, sensorVars, jpegVars,
                resultVars, orphan>>

ASSUME CameraBounds ==
  MaxFrames \in Nat /\ kMaxQueueSize \in Nat /\ "preview" \in Kinds

FrameNumbers == 1..MaxFrames
NoFrame == 0

CameraInit ==
  /\ camStatus = "CLOSED" /\ configured = FALSE
  /\ call = "none" /\ submitted = 0
  /\ kind = [f \in FrameNumbers |-> "preview"]
  /\ mInFlightQueue = <<>> /\ mThreadActive = FALSE
  /\ mCurrentRequest = NoFrame /\ readoutAt = "exited"
  /\ mNextBuffers = NoFrame /\ mGotVSync = FALSE
  /\ nextBuffers = NoFrame /\ mNextCapturedBuffers = NoFrame
  /\ mCapturedBuffers = NoFrame /\ sensorAt = "exited" /\ lost = 0
  /\ mIsBusy = FALSE /\ jpegBuffers = NoFrame /\ mJpegWaiting = FALSE
  /\ mJpegFrameNumber = 0 /\ jpegThread = "stopped"
  /\ results = {} /\ jpegs = {} /\ orphan = FALSE

---------------------------------------------------------------------------
(* Opening, configuring and closing *)

\* EmulatedFakeCamera3::connectCamera, then initializeDevice: a new sensor,
\* readout thread and compressor, whose mThreadActive is not initialised.
connectCamera ==
  /\ camStatus = "CLOSED"
  /\ camStatus' = "READY"
  /\ mInFlightQueue' = <<>> /\ mThreadActive' \in BOOLEAN
  /\ mCurrentRequest' = NoFrame /\ readoutAt' = "take"
  /\ mNextBuffers' = NoFrame /\ mGotVSync' = FALSE
  /\ nextBuffers' = NoFrame /\ mNextCapturedBuffers' = NoFrame
  /\ mCapturedBuffers' = NoFrame /\ sensorAt' = "control" /\ lost' = 0
  /\ mIsBusy' = FALSE /\ jpegBuffers' = NoFrame /\ mJpegWaiting' = FALSE
  /\ mJpegFrameNumber' = 0 /\ jpegThread' = "stopped"
  /\ UNCHANGED <<configured, call, submitted, kind, resultVars>>

\* No sensor, no readout thread and no request are left.
leaveNothing ==
  /\ camStatus' = "CLOSED" /\ configured' = FALSE
  /\ call' = "none"
  /\ kind' = [f \in FrameNumbers |-> "preview"]
  /\ mInFlightQueue' = <<>> /\ mThreadActive' = FALSE
  /\ mCurrentRequest' = NoFrame /\ readoutAt' = "exited"
  /\ mNextBuffers' = NoFrame /\ mGotVSync' = FALSE
  /\ nextBuffers' = NoFrame /\ mNextCapturedBuffers' = NoFrame
  /\ mCapturedBuffers' = NoFrame /\ sensorAt' = "exited" /\ lost' = 0
  /\ mIsBusy' = FALSE /\ jpegBuffers' = NoFrame /\ mJpegWaiting' = FALSE
  /\ mJpegFrameNumber' = 0 /\ jpegThread' = "stopped"
  /\ results' = {} /\ jpegs' = {}

\* closeCamera takes mLock and asks the sensor to exit (Sensor::shutDown),
\* whatever is in the pipeline.
closeCamera ==
  /\ camStatus # "CLOSED" /\ call = "none"
  /\ call' = "shutDown"
  /\ UNCHANGED <<camStatus, configured, submitted, kind, readoutVars,
                 controlVars, sensorVars, jpegVars, resultVars>>

\* The sensor's thread has ended: mSensor is cleared, the readout thread asked
\* to exit, and mLock released.
sensorJoined ==
  /\ call = "shutDown" /\ sensorAt = "exited"
  /\ call' = "join"
  /\ UNCHANGED <<camStatus, configured, submitted, kind, readoutVars,
                 controlVars, sensorVars, jpegVars, resultVars>>

\* The readout thread has ended: it is deleted with the requests it still
\* holds, and the streams are forgotten.  A compressor that is not done runs on.
readoutJoined ==
  /\ call = "join" /\ readoutAt = "exited"
  /\ leaveNothing /\ UNCHANGED submitted
  /\ orphan' = (orphan \/ jpegThread = "compress")

\* configureStreams, with a list that is accepted; refused while ACTIVE.
configureStreams ==
  /\ camStatus = "READY" /\ call = "none"
  /\ configured' = TRUE
  /\ UNCHANGED <<camStatus, call, submitted, kind, readoutVars,
                 controlVars, sensorVars, jpegVars, resultVars>>

---------------------------------------------------------------------------
(* processCaptureRequest, up to and between its waits *)

\* The request is valid, process3A and the locking of its buffers succeed.
\* Every BLOB buffer is taken for a JPEG, also one with a depth cloud.
processCaptureRequest(k) ==
  /\ camStatus \in {"READY", "ACTIVE"} /\ call = "none"
  /\ configured /\ submitted < MaxFrames
  /\ camStatus' = "ACTIVE"
  /\ submitted' = submitted + 1
  /\ kind' = [kind EXCEPT ![submitted + 1] = k]
  /\ call' = IF k = "preview" THEN "room" ELSE "jpeg"
  /\ UNCHANGED <<configured, readoutVars, controlVars, sensorVars, jpegVars,
                 resultVars>>

\* process3A, a fence or the locking of a buffer fails: the status is ACTIVE
\* all the same.
requestFails ==
  /\ camStatus \in {"READY", "ACTIVE"} /\ call = "none" /\ configured
  /\ camStatus' = "ACTIVE"
  /\ UNCHANGED <<configured, call, submitted, kind, readoutVars, controlVars,
                 sensorVars, jpegVars, resultVars>>

\* JpegCompressor::waitForDone and reserve.
waitForDone ==
  /\ call = "jpeg" /\ ~mIsBusy
  /\ mIsBusy' = TRUE
  /\ call' = "room"
  /\ UNCHANGED <<camStatus, configured, submitted, kind,
                 readoutVars, controlVars, sensorVars, jpegBuffers,
                 mJpegWaiting, mJpegFrameNumber, jpegThread, resultVars>>

\* A faulty version: mGotVSync is left as the last wait found it.
keepVSync ==
  /\ call = "room" /\ Len(mInFlightQueue) < kMaxQueueSize
  /\ call' = "vsync"
  /\ UNCHANGED <<camStatus, configured, submitted, kind,
                 readoutVars, controlVars, sensorVars, jpegVars, resultVars>>

\* ReadoutThread::waitForReadout, and the start of Sensor::waitForVSync.
waitForReadout ==
  /\ call = "room" /\ Len(mInFlightQueue) < kMaxQueueSize
  /\ call' = "vsync" /\ mGotVSync' = FALSE
  /\ UNCHANGED <<camStatus, configured, submitted, kind,
                 readoutVars, mNextBuffers, sensorVars, jpegVars, resultVars>>

\* The sensor has started a cycle since; setDestinationBuffers.
setDestinationBuffers ==
  /\ call = "vsync" /\ mGotVSync
  /\ mNextBuffers' = submitted
  /\ call' = "queue"
  /\ UNCHANGED <<camStatus, configured, submitted, kind,
                 mGotVSync, readoutVars, sensorVars, jpegVars, resultVars>>

\* ReadoutThread::queueCaptureRequest, and the return of the call.
queueCaptureRequest ==
  /\ call = "queue"
  /\ mInFlightQueue' = Append(mInFlightQueue, submitted)
  /\ results' = results \cup {submitted}
  /\ jpegs' = IF kind[submitted] = "jpeg" THEN jpegs \cup {submitted} ELSE jpegs
  /\ call' = "none"
  /\ UNCHANGED <<camStatus, configured, submitted, kind, mThreadActive,
                 mCurrentRequest, readoutAt, controlVars, sensorVars, jpegVars>>

\* Each wait is bounded: 5 s for the compressor, 1000 rounds of 10 ms for the
\* others.  What was reserved stays reserved.
waitTimesOut ==
  /\ \/ call = "jpeg" /\ mIsBusy
     \/ call = "room" /\ Len(mInFlightQueue) >= kMaxQueueSize
     \/ call = "vsync" /\ ~mGotVSync
  /\ call' = "none"
  /\ kind' = [kind EXCEPT ![submitted] = "preview"]
  /\ UNCHANGED <<camStatus, configured, submitted, readoutVars, controlVars,
                 sensorVars, jpegVars, resultVars>>

---------------------------------------------------------------------------
(* Sensor::threadLoop *)

\* Stage 1: the control parameters are read, the VSync signalled.
readControls ==
  /\ sensorAt = "control"
  /\ nextBuffers' = mNextBuffers
  /\ mNextBuffers' = NoFrame
  /\ mGotVSync' = TRUE
  /\ sensorAt' = IF mNextCapturedBuffers # NoFrame THEN "deliver" ELSE "capture"
  /\ UNCHANGED <<frameworkVars, readoutVars, mCapturedBuffers,
                 mNextCapturedBuffers, lost, jpegVars, resultVars>>

\* Stage 3: the image of the last cycle is handed over, unless the readout
\* thread has not taken the one before: then the sensor waits, with no bound.
\* When the wait returns it does not look again.
deliver ==
  /\ sensorAt \in {"deliver", "woken"}
  /\ IF sensorAt = "deliver" /\ mCapturedBuffers # NoFrame
     THEN sensorAt' = "blocked" /\ UNCHANGED <<mCapturedBuffers, lost>>
     ELSE /\ sensorAt' = "capture" /\ mCapturedBuffers' = mNextCapturedBuffers
          /\ lost' = IF mCapturedBuffers = NoFrame THEN lost ELSE lost + 1
  /\ UNCHANGED <<frameworkVars, readoutVars, controlVars, nextBuffers,
                 mNextCapturedBuffers, jpegVars, resultVars>>

\* mReadoutComplete.wait returns without a signal.
spuriousWakeup ==
  /\ sensorAt = "blocked"
  /\ sensorAt' = "woken"
  /\ UNCHANGED <<frameworkVars, readoutVars, controlVars, nextBuffers,
                 mNextCapturedBuffers, mCapturedBuffers, lost, jpegVars, resultVars>>

\* Stage 2: the next image is captured.  Thread::exitPending is read between
\* two cycles.
capture ==
  /\ sensorAt = "capture"
  /\ mNextCapturedBuffers' = nextBuffers
  /\ nextBuffers' = NoFrame
  /\ sensorAt' = IF call = "shutDown" THEN "exited" ELSE "control"
  /\ UNCHANGED <<frameworkVars, readoutVars, controlVars, mCapturedBuffers, lost,
                 jpegVars, resultVars>>

\* The request to exit came just before exitPending was read.
sensorExits ==
  /\ sensorAt = "control" /\ call = "shutDown"
  /\ sensorAt' = "exited"
  /\ UNCHANGED <<frameworkVars, readoutVars, controlVars, nextBuffers,
                 mNextCapturedBuffers, mCapturedBuffers, lost, jpegVars, resultVars>>

---------------------------------------------------------------------------
(* ReadoutThread::threadLoop *)

\* The first request of the queue becomes the current one.
takeRequest ==
  /\ readoutAt = "take" /\ mInFlightQueue # <<>> /\ call # "join"
  /\ mCurrentRequest' = Head(mInFlightQueue)
  /\ mInFlightQueue' = Tail(mInFlightQueue)
  /\ mThreadActive' = TRUE
  /\ readoutAt' = "image"
  /\ UNCHANGED <<frameworkVars, controlVars, sensorVars, jpegVars, resultVars>>

\* JpegCompressor::start takes the sensor buffers of a JPEG.  Without reserve it
\* is refused, and the result returns the buffer as an error.
startJpeg(f) ==
  \/ /\ ~mJpegWaiting /\ mIsBusy /\ jpegThread = "stopped"
     /\ jpegThread' = "compress" /\ jpegBuffers' = f
     /\ mJpegWaiting' = TRUE /\ mJpegFrameNumber' = f
     /\ UNCHANGED <<mIsBusy, jpegs>>
  \/ /\ mJpegWaiting \/ ~mIsBusy
     /\ jpegs' = jpegs \ {f}
     /\ UNCHANGED jpegVars

\* A faulty version: mReadoutComplete is not signalled.
sensorSleeps == sensorAt' = sensorAt

\* Sensor::waitForNewFrame takes the image and wakes the sensor if it waits.
sensorWakes == sensorAt' = IF sensorAt = "blocked" THEN "woken" ELSE sensorAt

\* waitForNewFrame, the buffers and the result of the request.
takeImage ==
  /\ readoutAt = "image" /\ mCapturedBuffers # NoFrame
  /\ mCapturedBuffers' = NoFrame /\ sensorWakes
  /\ IF kind[mCurrentRequest] = "jpeg"
     THEN startJpeg(mCurrentRequest)
     ELSE UNCHANGED <<jpegVars, jpegs>>
  /\ IF mInFlightQueue = <<>>
     THEN mThreadActive' = FALSE /\ readoutAt' = "idle"
     ELSE readoutAt' = "send" /\ UNCHANGED mThreadActive
  /\ UNCHANGED <<frameworkVars, mInFlightQueue, mCurrentRequest, controlVars,
                 nextBuffers, mNextCapturedBuffers, lost, results>>

isIdle == mInFlightQueue = <<>> /\ ~mThreadActive

\* signalReadoutIdle needs mLock, which a call of the framework holds; closeCamera
\* has released it when it joins the readout thread.
signalReadoutIdle ==
  /\ readoutAt = "idle" /\ call \in {"none", "join"}
  /\ camStatus' = IF camStatus = "ACTIVE" /\ isIdle THEN "READY" ELSE camStatus
  /\ readoutAt' = "send"
  /\ UNCHANGED <<configured, call, submitted, kind,
                 mInFlightQueue, mThreadActive, mCurrentRequest, controlVars,
                 sensorVars, jpegVars, resultVars>>

\* sendCaptureResult, and the request is cleared.
sendCaptureResult ==
  /\ readoutAt = "send"
  /\ results' = results \ {mCurrentRequest}
  /\ mCurrentRequest' = NoFrame
  /\ kind' = [kind EXCEPT ![mCurrentRequest] = "preview"]
  /\ readoutAt' = "take"
  /\ UNCHANGED <<camStatus, configured, call, submitted, mInFlightQueue,
                 mThreadActive, controlVars, sensorVars, jpegVars, jpegs>>

\* A wait has timed out and exitPending is found set.
readoutExits ==
  /\ call = "join" /\ readoutAt \in {"take", "image"}
  /\ readoutAt' = "exited"
  /\ UNCHANGED <<frameworkVars, mInFlightQueue, mThreadActive, mCurrentRequest,
                 controlVars, sensorVars, jpegVars, resultVars>>

---------------------------------------------------------------------------
(* JpegCompressor::threadLoop *)

\* compress, and onJpegDone of the readout thread: the buffer is returned with
\* the number that was noted.
onJpegDone ==
  /\ jpegThread = "compress"
  /\ mJpegWaiting' = FALSE
  /\ jpegs' = jpegs \ {mJpegFrameNumber}
  /\ jpegThread' = "done"
  /\ UNCHANGED <<frameworkVars, readoutVars, controlVars, sensorVars, mIsBusy,
                 jpegBuffers, mJpegFrameNumber, results>>

\* cleanUp: the compressor may be reserved again.
cleanUp ==
  /\ jpegThread = "done"
  /\ mIsBusy' = FALSE /\ jpegBuffers' = NoFrame
  /\ jpegThread' = "exiting"
  /\ UNCHANGED <<frameworkVars, readoutVars, controlVars, sensorVars,
                 mJpegWaiting, mJpegFrameNumber, resultVars>>

\* The thread ends (Thread::mRunning).
jpegThreadEnds ==
  /\ jpegThread = "exiting"
  /\ jpegThread' = "stopped"
  /\ UNCHANGED <<frameworkVars, readoutVars, controlVars, sensorVars, mIsBusy,
                 jpegBuffers, mJpegWaiting, mJpegFrameNumber, resultVars>>

---------------------------------------------------------------------------
(* Uses of what is not there, or not any more *)

\* mInFlightSignal.waitRelative returns without a signal, and begin() of the
\* empty queue is taken.
takesFromEmptyQueue == readoutAt = "take" /\ mInFlightQueue = <<>>

\* waitForNewFrame of the sensor that closeCamera has cleared.
usesClearedSensor ==
  /\ call = "join"
  /\ readoutAt = "image" \/ (readoutAt = "take" /\ mInFlightQueue # <<>>)

\* run fails because the compressor's last thread has not ended: start deletes
\* the sensor buffers, and so does the readout thread.
deletesTwice ==
  /\ readoutAt = "image" /\ mCapturedBuffers # NoFrame
  /\ kind[mCurrentRequest] = "jpeg"
  /\ ~mJpegWaiting /\ mIsBusy /\ jpegThread # "stopped"

\* The compressor of a closed camera calls onJpegDone of a deleted object.
callsDeletedListener == orphan

undefinedUse ==
  /\ \/ takesFromEmptyQueue \/ usesClearedSensor
     \/ deletesTwice \/ callsDeletedListener
  /\ leaveNothing /\ submitted' = 0 /\ orphan' = FALSE

---------------------------------------------------------------------------
frameworkSteps ==
  \/ /\ \/ waitForDone \/ waitForReadout \/ setDestinationBuffers
        \/ queueCaptureRequest \/ waitTimesOut \/ sensorJoined
     /\ UNCHANGED orphan
  \/ readoutJoined
sensorSteps ==
  /\ readControls \/ deliver \/ capture \/ sensorExits
  /\ UNCHANGED orphan
readoutSteps ==
  /\ \/ takeRequest \/ takeImage \/ signalReadoutIdle \/ sendCaptureResult
     \/ readoutExits
  /\ UNCHANGED orphan
jpegSteps ==
  /\ onJpegDone \/ cleanUp \/ jpegThreadEnds
  /\ UNCHANGED orphan

\* What the framework may do and need not, and the wake-ups that come unasked.
otherSteps ==
  /\ \/ connectCamera \/ closeCamera \/ configureStreams \/ requestFails
     \/ \E k \in Kinds : processCaptureRequest(k)
     \/ spuriousWakeup
  /\ UNCHANGED orphan

CameraNext ==
  \/ otherSteps \/ undefinedUse
  \/ frameworkSteps \/ sensorSteps \/ readoutSteps \/ jpegSteps

CameraSpec == CameraInit /\ [][CameraNext]_cameraVars

\* Every thread runs on; the readout thread gets mLock when it is free often
\* enough.  Nothing is assumed of spurious wake-ups.
CameraFairness ==
  /\ WF_cameraVars(frameworkSteps) /\ WF_cameraVars(sensorSteps)
  /\ SF_cameraVars(readoutSteps) /\ WF_cameraVars(jpegSteps)

---------------------------------------------------------------------------
\* The variables have their types, and queues their bounds.
CameraTypeOK ==
  /\ camStatus \in {"CLOSED", "READY", "ACTIVE"}
  /\ configured \in BOOLEAN
  /\ call \in {"none", "jpeg", "room", "vsync", "queue", "shutDown", "join"}
  /\ submitted \in 0..MaxFrames /\ kind \in [FrameNumbers -> Kinds]
  /\ mInFlightQueue \in Seq(FrameNumbers) /\ Len(mInFlightQueue) <= kMaxQueueSize
  /\ mThreadActive \in BOOLEAN /\ mCurrentRequest \in 0..MaxFrames
  /\ readoutAt \in {"take", "image", "idle", "send", "exited"}
  /\ mNextBuffers \in 0..MaxFrames /\ mGotVSync \in BOOLEAN
  /\ nextBuffers \in 0..MaxFrames
  /\ mNextCapturedBuffers \in 0..MaxFrames /\ mCapturedBuffers \in 0..MaxFrames
  /\ sensorAt \in {"control", "deliver", "blocked", "woken", "capture", "exited"}
  /\ lost \in Nat
  /\ mIsBusy \in BOOLEAN /\ jpegBuffers \in 0..MaxFrames
  /\ mJpegWaiting \in BOOLEAN /\ mJpegFrameNumber \in 0..MaxFrames
  /\ jpegThread \in {"stopped", "compress", "done", "exiting"}
  /\ results \subseteq FrameNumbers /\ jpegs \subseteq FrameNumbers
  /\ orphan \in BOOLEAN

\* The threads stay in step, although requests and images reach the readout
\* thread on two ways that only the VSync holds together.  The image it finds is
\* the one of its current request; once a spurious wake-up has made the sensor
\* overwrite one it may be a later one, but never one from before the request
\* was exposed.  When it is a JPEG, no other JPEG is waited for ("This shouldn't
\* happen, because processCaptureRequest should be stalling until JPEG compressor
\* is free", EmulatedFakeCamera3.cpp:2541).  And the buffers the sensor has yet
\* to fill are those of requests that have not been answered: their result, and
\* the deletion of the buffers, comes after the exposure.
PipelineInStep ==
  /\ readoutAt = "image" /\ mCapturedBuffers # NoFrame =>
        /\ mCurrentRequest <= mCapturedBuffers
        /\ lost = 0 => mCurrentRequest = mCapturedBuffers
        /\ kind[mCurrentRequest] = "jpeg" => ~mJpegWaiting
  /\ sensorAt # "exited" =>
        \A f \in {nextBuffers, mNextBuffers} \ {NoFrame} :
           f \in results \/ (call = "queue" /\ f = submitted)

\* closeCamera holds mLock while it waits for the sensor, which waits for the
\* readout thread, which waits for mLock.
closeStuck == call = "shutDown" /\ sensorAt = "blocked" /\ readoutAt = "idle"

\* A request that was accepted is answered, and its JPEG returned, or the camera
\* is closed first: neither the sensor, which waits for the readout thread
\* without a bound, nor the readout thread, which waits for mLock, is left
\* waiting.  Every image that was overwritten leaves one request, the last, without
\* an answer.
RequestsAnswered ==
  \A f \in FrameNumbers :
    []<>(\/ f \notin results \cup jpegs
         \/ Cardinality({g \in results \cup jpegs : f <= g}) <= lost
         \/ closeStuck)

\* closeCamera returns.
CloseReturns == []<>(call \notin {"shutDown", "join"} \/ closeStuck)
=============================================================================
