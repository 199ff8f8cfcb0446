----------------------------- MODULE Camera3A -----------------------------
(* The fake 3A of the emulated camera: process3A with doFakeAE, doFakeAF   *)
(* and doFakeAWB (camera/EmulatedFakeCamera3.cpp), run once per capture    *)
(* request.  Exposure times are integers in a coarser unit; the random     *)
(* choices of the code are choices here.  What update3A writes into the    *)
(* settings is the state below and is left out.                            *)
EXTENDS Integers

CONSTANTS
  Settings,                  \* the 3A controls requests come with
  kNormalExposureTime, kFacePriorityExposureTime,
  Wandered,                  \* targets of an occasional scan
  TrackRate,                 \* 1 / kExposureTrackRate
  kPrecaptureMinFrames, kStableAeMaxFrames

Controls ==
  [control : {"OFF", "AUTO", "FACE", "BAD"}, ae : {"OFF", "ON", "BAD"}, precapture : BOOLEAN,
   aeLock : BOOLEAN, af : {"OFF", "AUTO", "CONTINUOUS", "BAD"},
   afTrigger : {"IDLE", "START", "CANCEL", "BAD"}, awb : {"OFF", "AUTO", "BAD"}, awbLock : BOOLEAN]
SceneTimes == {kNormalExposureTime, kFacePriorityExposureTime}

ASSUME ThreeABounds ==
  /\ Settings \subseteq Controls
  /\ SceneTimes \subseteq Nat /\ Wandered \in [SceneTimes -> SUBSET Nat]
  /\ TrackRate \in Nat \ {0} /\ kPrecaptureMinFrames \in Nat /\ kStableAeMaxFrames \in Nat

VARIABLES
  mFacePriority, mAfMode, mAeState, mAfState, mAwbState, mAeCounter,
  mAeTargetExposureTime, mAeCurrentExposureTime

aeVars == <<mAeState, mAeCounter, mAeTargetExposureTime, mAeCurrentExposureTime>>
afVars == <<mAfMode, mAfState>>
threeAVars == <<mFacePriority, aeVars, afVars, mAwbState>>

\* connectCamera.
ThreeAInit ==
  /\ mFacePriority = FALSE /\ mAfMode = "AUTO"
  /\ mAeState = "INACTIVE" /\ mAfState = "INACTIVE" /\ mAwbState = "INACTIVE"
  /\ mAeCounter = 0
  /\ mAeTargetExposureTime = kNormalExposureTime
  /\ mAeCurrentExposureTime = kNormalExposureTime

---------------------------------------------------------------------------
(* Auto exposure *)

\* A step of current towards target: the sum is cut to an integer, as the
\* assignment to nsecs_t does.  (It is computed in single precision; that moves
\* tens of milliseconds by a few nanoseconds, below the unit of this module.)
converge(current, target) == current + (target - current) \div TrackRate

sceneExposureTime(face) ==
  IF face THEN kFacePriorityExposureTime ELSE kNormalExposureTime

\* A faulty version: every frame of the sequence starts the count again.
restartedCounter == 0

\* The counter of a precapture sequence starts with it.
precaptureCounter == IF mAeState = "PRECAPTURE" THEN mAeCounter ELSE 0

\* The precapture sequence: at least kPrecaptureMinFrames, and the exposure is
\* not below the target by a tenth.
precapture(face, locked) ==
  LET target == sceneExposureTime(face) IN
  /\ mAeTargetExposureTime' = target
  /\ IF /\ precaptureCounter > kPrecaptureMinFrames
        /\ target - mAeCurrentExposureTime < target \div 10
     THEN /\ mAeCounter' = 0
          /\ mAeState' = IF locked THEN "LOCKED" ELSE "CONVERGED"
          /\ UNCHANGED mAeCurrentExposureTime
     ELSE /\ mAeCurrentExposureTime' = converge(mAeCurrentExposureTime, target)
          /\ mAeCounter' = precaptureCounter + 1
          /\ mAeState' = "PRECAPTURE"

Distance(a, b) == IF a < b THEN b - a ELSE a - b

\* The standard scan of an AE that is not locked.
scan(face) ==
  \/ /\ mAeState = "INACTIVE"
     /\ mAeState' = "SEARCHING"
     /\ UNCHANGED <<mAeCounter, mAeTargetExposureTime, mAeCurrentExposureTime>>
  \/ /\ mAeState = "CONVERGED"
     /\ mAeCounter' = mAeCounter + 1
     /\ IF mAeCounter' > kStableAeMaxFrames
        THEN /\ mAeTargetExposureTime' \in Wandered[sceneExposureTime(face)]
             /\ mAeState' = "SEARCHING"
        ELSE UNCHANGED <<mAeTargetExposureTime, mAeState>>
     /\ UNCHANGED mAeCurrentExposureTime
  \/ /\ mAeState = "SEARCHING"
     /\ mAeCurrentExposureTime' =
          converge(mAeCurrentExposureTime, mAeTargetExposureTime)
     /\ IF Distance(mAeTargetExposureTime, mAeCurrentExposureTime') <
             mAeTargetExposureTime \div 10
        THEN mAeState' = "CONVERGED" /\ mAeCounter' = 0
        ELSE UNCHANGED <<mAeState, mAeCounter>>
     /\ UNCHANGED mAeTargetExposureTime
  \/ /\ mAeState = "LOCKED"
     /\ mAeState' = "CONVERGED" /\ mAeCounter' = 0
     /\ UNCHANGED <<mAeTargetExposureTime, mAeCurrentExposureTime>>

\* doFakeAE.  A precapture sequence does not look at the lock.  A request without
\* the mode (of a camera that must have it) is an error.
doFakeAE(r, face) ==
  IF r.ae = "BAD"
  THEN UNCHANGED aeVars
  ELSE IF r.ae = "OFF"
  THEN /\ mAeState' = "INACTIVE"
       /\ UNCHANGED <<mAeCounter, mAeTargetExposureTime, mAeCurrentExposureTime>>
  ELSE IF r.precapture \/ mAeState = "PRECAPTURE"
  THEN precapture(face, r.aeLock)
  ELSE IF ~r.aeLock
  THEN scan(face)
  ELSE /\ mAeState' = "LOCKED"
       /\ UNCHANGED <<mAeCounter, mAeTargetExposureTime, mAeCurrentExposureTime>>

---------------------------------------------------------------------------
(* Auto focus and white balance *)

Locked == {"FOCUSED_LOCKED", "NOT_FOCUSED_LOCKED"}

\* The states the focus may go to, one per frame.  AUTO stands for MACRO, too,
\* CONTINUOUS for both continuous modes.
afStep(state, start, mode, modeChanged) ==
  CASE state = "INACTIVE" /\ start ->
         IF mode = "AUTO" THEN {"ACTIVE_SCAN"} ELSE {"NOT_FOCUSED_LOCKED"}
    [] state = "INACTIVE" /\ ~start ->
         IF mode = "CONTINUOUS" /\ ~modeChanged THEN {"PASSIVE_SCAN"} ELSE {state}
    [] state = "PASSIVE_SCAN" ->
         IF start THEN Locked ELSE {state, "PASSIVE_FOCUSED"}
    [] state = "PASSIVE_FOCUSED" -> IF start THEN Locked ELSE {state}
    [] state = "ACTIVE_SCAN" -> Locked
    [] state \in Locked ->
         IF start /\ mode = "AUTO" THEN {"ACTIVE_SCAN"} ELSE {state}

\* doFakeAF.  OFF leaves mAfMode as it is; an unsupported mode is an error, and
\* so is, once the mode is taken over, an unknown trigger.
doFakeAF(r) ==
  CASE r.af = "BAD" -> UNCHANGED afVars
    [] r.af = "OFF" -> mAfState' = "INACTIVE" /\ UNCHANGED mAfMode
    [] OTHER ->
         /\ mAfMode' = r.af
         /\ mAfState' \in
              CASE r.afTrigger = "BAD" -> {mAfState}
                [] r.afTrigger = "CANCEL" -> {"INACTIVE"}
                [] OTHER ->
                     afStep(mAfState, r.afTrigger = "START", r.af, mAfMode # r.af)

afError(r) == r.af = "BAD" \/ (r.af # "OFF" /\ r.afTrigger = "BAD")

\* doFakeAWB, which an error of doFakeAF leaves out.
doFakeAWB(r) ==
  mAwbState' = IF afError(r) \/ r.awb = "BAD" THEN mAwbState
               ELSE IF r.awb = "OFF" THEN "INACTIVE"
               ELSE IF r.awbLock THEN "LOCKED" ELSE "CONVERGED"

---------------------------------------------------------------------------
\* process3A: OFF resets all three; requests without a control mode, or with a
\* scene mode that is not supported, are refused and change nothing.  An error of
\* doFakeAE leaves the others out.
process3A(r) ==
  IF r.control = "OFF"
  THEN /\ mAfMode' = "OFF"
       /\ mAeState' = "INACTIVE" /\ mAfState' = "INACTIVE"
       /\ mAwbState' = "INACTIVE"
       /\ UNCHANGED <<mFacePriority, mAeCounter, mAeTargetExposureTime,
                      mAeCurrentExposureTime>>
  ELSE /\ r.control # "BAD"
       /\ mFacePriority' = (r.control = "FACE")
       /\ doFakeAE(r, mFacePriority')
       /\ IF r.ae = "BAD" THEN UNCHANGED <<afVars, mAwbState>>
          ELSE doFakeAF(r) /\ doFakeAWB(r)

ThreeANext == \E r \in Settings : process3A(r)

ThreeASpec == ThreeAInit /\ [][ThreeANext]_threeAVars

\* Requests with an AE mode keep coming while the camera is used.
meteredRequest == \E r \in {s \in Settings : s.ae # "BAD"} : process3A(r)
ThreeAFairness == WF_threeAVars(meteredRequest)

\* The variables have their types.
ThreeATypeOK ==
  /\ mFacePriority \in BOOLEAN
  /\ mAfMode \in {"OFF", "AUTO", "CONTINUOUS"}
  /\ mAeState \in {"INACTIVE", "SEARCHING", "CONVERGED", "LOCKED", "PRECAPTURE"}
  /\ mAfState \in {"INACTIVE", "PASSIVE_SCAN", "PASSIVE_FOCUSED", "ACTIVE_SCAN"}
                  \cup Locked
  /\ mAwbState \in {"INACTIVE", "CONVERGED", "LOCKED"}
  /\ mAeCounter \in Nat
  /\ mAeTargetExposureTime \in Nat /\ mAeCurrentExposureTime \in Nat

\* While requests with an AE mode come, the auto exposure does not stay busy: whatever the
\* requests do to the target in between, a precapture sequence and a search
\* end, so an application that waits for either before it takes its picture
\* does take it (doFakeAE: the tracking step is cut to an integer, and the
\* counter is shared with the stable state).
ExposureSettles ==
  []<>(mAeState \notin {"PRECAPTURE", "SEARCHING"})
=============================================================================
