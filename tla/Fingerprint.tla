---------------------------- MODULE Fingerprint ----------------------------
(* The fingerprint HAL (fingerprint/fingerprint.c): the calls of the         *)
(* framework, the thread that listens to the emulator for fingers, the state *)
(* word and table of fingers they share, and the files the table is kept in. *)
(*                                                                           *)
(* The framework is external: it calls one function at a time, sets the group *)
(* first, and its user ids are not zero.  An entry of the table is the       *)
(* finger's id; its secure id is written, stored and cleared along with it.  *)
(* Files are written and read without error, and no crash cuts a save in     *)
(* two.  Left out: what a notification says, authenticator ids, and          *)
(* challenges but for whether a token is accepted.                           *)
EXTENDS Naturals, Functions

CONSTANTS Fingers, Groups,
          MAX_NUM_FINGERS,
          StoredBefore,  \* files of earlier runs: Groups -> tables, or NoFile
          EnrolMax       \* bound: calls of fingerprint_enroll

VARIABLES
  listenerState,         \* listener.state
  samples_remaining,
  fingerid,              \* the table: Slots -> finger or NoFinger
  secure_user_id,        \* it is set
  group_id,              \* the one fp_filename is of
  storage,               \* Groups -> a table, or NoFile
  listenerAt,            \* where the listener thread is
  finger,                \* the one it has received
  calling,               \* the function the framework is in
  enrolCalls,            \* calls of fingerprint_enroll so far
  enrolled,              \* history: Groups -> fingers enrolled, not removed
  exitLost               \* history: STATE_EXIT was overwritten

fingerVars == <<listenerState, samples_remaining, fingerid, secure_user_id,
                group_id, storage, listenerAt, finger, calling,
                enrolCalls, enrolled, exitLost>>
tableVars == <<fingerid, storage, enrolled>>
threadVars == <<listenerAt, finger>>
enrolVars == <<samples_remaining, secure_user_id, enrolCalls>>

NoFinger == 0
NoFile == <<>>
NoGroup == "none"
Slots == 1..MAX_NUM_FINGERS
Tables == [Slots -> Fingers \cup {NoFinger}]
EmptyTable == [i \in Slots |-> NoFinger]

\* The ids of fingers are not zero (0 marks a free entry of the table), and
\* earlier runs left whole tables.
ASSUME FingerprintBounds ==
  /\ MAX_NUM_FINGERS \in Nat \ {0} /\ EnrolMax \in Nat
  /\ NoFinger \notin Fingers /\ NoGroup \notin Groups
  /\ StoredBefore \subseteq [Groups -> Tables \cup {NoFile}]

FingerprintInit ==
  /\ listenerState = "IDLE" /\ samples_remaining = 0
  /\ fingerid = EmptyTable /\ secure_user_id = FALSE /\ group_id = NoGroup
  /\ storage \in StoredBefore
  /\ listenerAt = "none" /\ finger = NoFinger /\ calling = "closed"
  /\ enrolCalls = 0 /\ exitLost = FALSE
  /\ enrolled = [g \in Groups |-> Range(storage[g]) \ {NoFinger}]

\* listener.state is set; whoever sets it to something else than STATE_EXIT
\* makes fingerprint_close's request to the thread disappear.
setState(s) ==
  /\ listenerState' = s
  /\ exitLost' = (exitLost \/ listenerState = "EXIT")

\* A faulty version: the file is truncated when it is opened.
saveAlone(i, f) ==
  storage' = [storage EXCEPT ![group_id] = [EmptyTable EXCEPT ![i] = f]]

\* saveFingerprint: openForWrite makes a file of zeros if there is none.
saveFingerprint(i, f) ==
  storage' = [storage EXCEPT ![group_id] =
                [(IF @ = NoFile THEN EmptyTable ELSE @) EXCEPT ![i] = f]]

\* The first slot with a property, as the loops over the table find it.
First(S) == CHOOSE i \in S : \A j \in S : i <= j
Free == {i \in Slots : fingerid[i] = NoFinger}

-----------------------------------------------------------------------------
(* The calls of the framework *)

fingerprint_open ==
  /\ calling = "closed"
  /\ calling' = "none" /\ listenerAt' = "start"
  /\ UNCHANGED <<listenerState, enrolVars, tableVars, group_id, finger, exitLost>>

\* The table once a group's file is loaded: without one it stays as it is.
loadFingerprints(g) == IF storage[g] = NoFile THEN fingerid ELSE storage[g]

\* fingerprint_set_active_group.  The authenticator's id is left out.
set_active_group(g) ==
  /\ calling = "none"
  /\ group_id' = g
  /\ fingerid' = loadFingerprints(g)
  /\ UNCHANGED <<listenerState, enrolVars, storage, enrolled, threadVars, calling,
                 exitLost>>

\* fingerprint_authenticate, fingerprint_cancel and set_notify_callback.
authenticate ==
  /\ calling = "none" /\ group_id # NoGroup
  /\ setState("SCAN")
  /\ UNCHANGED <<enrolVars, tableVars, group_id, threadVars, calling>>

cancel ==
  /\ calling = "none"
  /\ setState("IDLE")
  /\ UNCHANGED <<enrolVars, tableVars, group_id, threadVars, calling>>

\* fingerprint_enroll: a token with the challenge sets secure_user_id, without
\* the lock and before the rest of the token is looked at.
enroll ==
  /\ calling = "none" /\ group_id # NoGroup
  /\ enrolCalls < EnrolMax /\ enrolCalls' = enrolCalls + 1
  /\ secure_user_id' \in {secure_user_id, TRUE}
  /\ calling' = "enroll"
  /\ UNCHANGED <<listenerState, exitLost, samples_remaining, tableVars, group_id,
                 threadVars>>

\* The token is refused, or the enrolment starts.
acceptToken ==
  /\ calling = "enroll"
  /\ \/ UNCHANGED <<listenerState, exitLost, samples_remaining>>
     \/ setState("ENROLL") /\ samples_remaining' = 2
  /\ calling' = "none"
  /\ UNCHANGED <<secure_user_id, enrolCalls, tableVars, group_id, threadVars>>

\* The slot is cleared and saved under the lock.
clearSlot(i) ==
  /\ fingerid' = [fingerid EXCEPT ![i] = NoFinger]
  /\ saveFingerprint(i, NoFinger)
  /\ enrolled' = [enrolled EXCEPT ![group_id] = @ \ {fingerid[i]}]

\* fingerprint_remove of one finger.
remove(f) ==
  /\ calling = "none" /\ group_id # NoGroup
  /\ setState("IDLE")
  /\ LET S == {i \in Slots : fingerid[i] = f}
     IN  IF S = {} THEN UNCHANGED tableVars ELSE clearSlot(First(S))
  /\ UNCHANGED <<enrolVars, group_id, threadVars, calling>>

\* fingerprint_remove of all of them, one at a time: the lock is released for
\* each notification.
removeAll ==
  /\ calling = "none" /\ group_id # NoGroup
  /\ calling' = "remove"
  /\ UNCHANGED <<listenerState, enrolVars, tableVars, group_id, threadVars, exitLost>>

removeNext ==
  /\ calling = "remove"
  /\ IF Free = Slots
       THEN setState("IDLE") /\ calling' = "none" /\ UNCHANGED tableVars
       ELSE /\ clearSlot(First(Slots \ Free))
            /\ UNCHANGED <<listenerState, exitLost, calling>>
  /\ UNCHANGED <<enrolVars, group_id, threadVars>>

\* fingerprint_close waits for the thread.
close ==
  /\ calling = "none"
  /\ listenerState' = "EXIT" /\ calling' = "close"
  /\ UNCHANGED <<enrolVars, tableVars, group_id, threadVars, exitLost>>

\* The device is freed; what a new one has of it is on disk.
forget ==
  /\ listenerState' = "IDLE" /\ samples_remaining' = 0
  /\ fingerid' = EmptyTable /\ secure_user_id' = FALSE /\ group_id' = NoGroup
  /\ listenerAt' = "none" /\ finger' = NoFinger /\ calling' = "closed"
  /\ exitLost' = FALSE
  /\ UNCHANGED <<storage, enrolCalls, enrolled>>

joinListener == calling = "close" /\ listenerAt = "gone" /\ forget

\* The process dies at any time.
crash == calling # "closed" /\ forget

-----------------------------------------------------------------------------
(* listenerFunction *)

\* The channel opens and the thread goes idle, or it does not open.
startListening ==
  /\ listenerAt = "start"
  /\ \/ setState("IDLE") /\ listenerAt' \in {"check", "gone"}
     \/ listenerAt' = "gone" /\ UNCHANGED <<listenerState, exitLost>>
  /\ UNCHANGED <<enrolVars, tableVars, group_id, finger, calling>>

\* A faulty version: the thread looks at its state when a finger comes only.
waitForFinger ==
  /\ listenerAt = "check"
  /\ listenerAt' = "poll"
  /\ UNCHANGED <<listenerState, enrolVars, tableVars, group_id, finger, calling,
                 exitLost>>

\* getListenerState, then the wait in poll().
checkState ==
  /\ listenerAt = "check"
  /\ listenerAt' = IF listenerState = "EXIT" THEN "gone" ELSE "poll"
  /\ UNCHANGED <<listenerState, enrolVars, tableVars, group_id, finger, calling,
                 exitLost>>

\* After five seconds, or with something else than a finger.
pollTimesOut ==
  /\ listenerAt = "poll"
  /\ listenerAt' = "check"
  /\ UNCHANGED <<listenerState, enrolVars, tableVars, group_id, finger, calling,
                 exitLost>>

connectionLost ==
  /\ listenerAt = "poll"
  /\ listenerAt' = "gone"
  /\ UNCHANGED <<listenerState, enrolVars, tableVars, group_id, finger, calling,
                 exitLost>>

\* "on:<fid>": what becomes of the finger is decided by the state, which is
\* read without the lock.  send_scan_notice only sends notifications.  The
\* thread ends afterwards if the connection was lost with the message.
fingerOn(f) ==
  /\ listenerAt = "poll"
  /\ IF listenerState = "ENROLL"
       THEN listenerAt' = "enroll" /\ finger' = f
       ELSE listenerAt' \in {"check", "gone"} /\ UNCHANGED finger
  /\ UNCHANGED <<listenerState, enrolVars, tableVars, group_id, calling, exitLost>>

\* send_enroll_notice: the state may have changed since fingerOn.
send_enroll_notice ==
  /\ listenerAt = "enroll"
  /\ \/ ~secure_user_id /\ UNCHANGED <<listenerState, exitLost, samples_remaining, tableVars>>
     \/ /\ secure_user_id /\ Free = {}
        /\ setState("IDLE")
        /\ UNCHANGED <<samples_remaining, tableVars>>
     \/ /\ secure_user_id /\ Free # {}
        /\ samples_remaining' = samples_remaining - 1
        /\ IF samples_remaining' <= 0
             THEN /\ fingerid' = [fingerid EXCEPT ![First(Free)] = finger]
                  /\ saveFingerprint(First(Free), finger)
                  /\ enrolled' = [enrolled EXCEPT ![group_id] = @ \cup {finger}]
                  /\ setState("IDLE")
             ELSE UNCHANGED <<tableVars, listenerState, exitLost>>
  /\ listenerAt' \in {"check", "gone"} /\ finger' = NoFinger
  /\ UNCHANGED <<secure_user_id, enrolCalls, group_id, calling>>

listenerSteps == startListening \/ checkState \/ pollTimesOut \/ send_enroll_notice
fingerprintSteps == acceptToken \/ removeNext \/ joinListener

FingerprintNext ==
  \/ fingerprint_open \/ authenticate \/ cancel \/ enroll \/ acceptToken \/ removeAll \/ removeNext
  \/ close \/ joinListener \/ crash
  \/ startListening \/ checkState \/ pollTimesOut \/ connectionLost
  \/ send_enroll_notice
  \/ \E f \in Fingers : remove(f) \/ fingerOn(f)
  \/ \E g \in Groups : set_active_group(g)

FingerprintSpec == FingerprintInit /\ [][FingerprintNext]_fingerVars

\* The thread runs, and poll() returns after five seconds at the latest.
FingerprintFairness == WF_fingerVars(listenerSteps) /\ WF_fingerVars(fingerprintSteps)

-----------------------------------------------------------------------------
\* The variables have their types.
FingerprintTypeOK ==
  /\ listenerState \in {"IDLE", "ENROLL", "SCAN", "EXIT"}
  /\ samples_remaining \in 0..2
  /\ fingerid \in Tables
  /\ secure_user_id \in BOOLEAN /\ exitLost \in BOOLEAN
  /\ group_id \in Groups \cup {NoGroup}
  /\ storage \in [Groups -> Tables \cup {NoFile}]
  /\ listenerAt \in {"none", "start", "check", "poll", "enroll", "gone"}
  /\ finger \in Fingers \cup {NoFinger}
  /\ calling \in {"closed", "none", "enroll", "remove", "close"}
  /\ enrolCalls \in 0..EnrolMax /\ enrolled \in [Groups -> SUBSET Fingers]

\* A finger that was enrolled and not removed is in the file of its group, so
\* it survives a crash at any step: the groups in turn use one table, which
\* may hold fingers of another group, and the free slot of the table is the
\* one that is written in the file (send_enroll_notice, saveFingerprint,
\* openForWrite: "write but don't truncate").
EnrolledIsStored ==
  \A g \in Groups : enrolled[g] \subseteq Range(storage[g])

\* fingerprint_remove and fingerprint_close return, unless the listener
\* overwrites STATE_EXIT.
CallsReturn == []<>(calling \in {"closed", "none"} \/ exitLost)
=============================================================================
