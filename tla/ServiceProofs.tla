--------------------------- MODULE ServiceProofs ---------------------------
(* Proofs about the fingerprint HAL and the Wi-Fi forwarder, for any number  *)
(* of fingers, frames and radios.  They use the library's theorems on least  *)
(* elements and finite sets.                                                 *)
EXTENDS Fingerprint, WifiForwarder, FiniteSetTheorems, TLAPS

-----------------------------------------------------------------------------
(* Fingerprint                                                              *)

\* The order of the naturals as a relation, for the library's minimum.
Less == {p \in Nat \X Nat : p[1] < p[2]}

LEMMA LessWellFounded == IsWellFoundedOn(Less, Nat)
<1>1. Less = OpToRel(<, Nat)
  BY ZenonT(60) DEF OpToRel, Less
<1> QED
  BY <1>1, NatLessThanWellFounded, ZenonT(60)

\* A set of numbers that is not empty has a least one.
LEMMA LeastNumber ==
  ASSUME NEW S \in SUBSET Nat, S # {}
  PROVE  \E i \in S : \A j \in S : i <= j
<1>1. PICK i \in S : \A j \in S : ~(<<j, i>> \in Less)
  BY WFMin, LessWellFounded, ZenonT(60)
<1>2. \A j, k \in Nat : j < k => <<j, k>> \in Less
  BY DEF Less
<1>3. \A j \in S : ~(j < i)
  BY <1>1, <1>2, ZenonT(60)
<1>4. \A j \in S : i <= j
  BY <1>3
<1> QED
  BY <1>4

\* The loops over the table find a slot if there is one.
LEMMA FirstIsOne ==
  ASSUME NEW S \in SUBSET Slots, S # {}
  PROVE  First(S) \in S
<1>1. S \in SUBSET Nat
  BY FingerprintBounds DEF Slots
<1> QED
  BY <1>1, LeastNumber, ZenonT(60) DEF First

\* The file of the group in use holds a slot of the table or a free entry:
\* what the table has of another group is never in the file.
FileFollowsTable ==
  group_id # NoGroup /\ storage[group_id] # NoFile =>
    \A i \in Slots : storage[group_id][i] \in {fingerid[i], NoFinger}

\* A group is set before anything is written, a finger being enrolled is one,
\* and samples are missing while it is.
WritesHaveGroup ==
  /\ secure_user_id \/ calling \in {"enroll", "remove"} => group_id \in Groups
  /\ (listenerState = "ENROLL" \/ listenerAt = "enroll") => samples_remaining \in 1..2
  /\ listenerAt = "enroll" => finger \in Fingers

FInv == FingerprintTypeOK /\ EnrolledIsStored /\ FileFollowsTable /\ WritesHaveGroup

LEMMA InitFInv == FingerprintInit => FInv
<1> SUFFICES ASSUME FingerprintInit PROVE FInv
  OBVIOUS
<1> USE DEF FingerprintInit
<1>1. storage \in [Groups -> Tables \cup {NoFile}]
  BY FingerprintBounds
<1>2. \A g \in Groups : Range(storage[g]) \ {NoFinger} \subseteq Fingers
  BY <1>1 DEF Range, Tables, NoFile
<1>3. EmptyTable \in Tables
  BY DEF EmptyTable, Tables
<1>0. 0 \in 0..2 /\ 0 \in 0..EnrolMax
  BY FingerprintBounds
<1>4. FingerprintTypeOK
  BY <1>0, <1>1, <1>2, <1>3, ZenonT(60) DEF FingerprintTypeOK
<1>5. EnrolledIsStored
  BY <1>1 DEF EnrolledIsStored
<1> QED
  BY <1>4, <1>5 DEF FInv, FileFollowsTable, WritesHaveGroup

\* The table and the file after a slot is written: both have the same entry
\* there, and the file keeps the fingers that were elsewhere.
LEMMA Saved ==
  ASSUME FInv, group_id \in Groups,
         NEW i \in Slots, NEW f \in Fingers \cup {NoFinger},
         fingerid' = [fingerid EXCEPT ![i] = f], saveFingerprint(i, f)
  PROVE  /\ fingerid' \in Tables
         /\ storage' \in [Groups -> Tables \cup {NoFile}]
         /\ \A j \in Slots : storage'[group_id][j] \in {fingerid'[j], NoFinger}
         /\ f \in Range(storage'[group_id])
         /\ \A e \in enrolled[group_id] : e # fingerid[i] => e \in Range(storage'[group_id])
         /\ \A g \in Groups : g # group_id => storage'[g] = storage[g]
<1> USE DEF FInv, FingerprintTypeOK, Tables
<1> DEFINE old == IF storage[group_id] = NoFile THEN EmptyTable ELSE storage[group_id]
           new == [old EXCEPT ![i] = f]
<1>1. fingerid' \in Tables
  OBVIOUS
<1>2. old \in Tables
  BY DEF EmptyTable
<1>3. new \in Tables /\ new[i] = f /\ \A j \in Slots \ {i} : new[j] = old[j]
  BY <1>2
<1>4. storage' = [storage EXCEPT ![group_id] = new]
  BY DEF saveFingerprint
<1> HIDE DEF new
<1>5. storage' \in [Groups -> Tables \cup {NoFile}] /\ storage'[group_id] = new
  BY <1>3, <1>4, ZenonT(60)
<1>6. \A g \in Groups : g # group_id => storage'[g] = storage[g]
  BY <1>4
<1>7. \A j \in Slots : old[j] \in {fingerid[j], NoFinger}
  BY FingerprintBounds DEF FileFollowsTable, EmptyTable
<1>8. \A j \in Slots : new[j] \in {fingerid'[j], NoFinger}
  BY <1>3, <1>7
<1>9. f \in Range(new)
  BY <1>3, ZenonT(60) DEF Range
<1>10. ASSUME NEW e \in enrolled[group_id], e # fingerid[i]
       PROVE  e \in Range(new)
  <2>1. e \in Range(storage[group_id]) /\ e # NoFinger
    BY FingerprintBounds DEF EnrolledIsStored
  <2>2. storage[group_id] # NoFile
    BY <2>1 DEF NoFile, Range
  <2>3. PICK j \in Slots : e = old[j]
    BY <2>1, <2>2 DEF Range
  <2>4. j # i
    BY <2>1, <2>3, <1>7, <1>10
  <2> QED
    BY <2>3, <2>4, <1>3, ZenonT(60) DEF Range
<1> QED
  BY <1>1, <1>5, <1>6, <1>8, <1>9, <1>10

\* What the steps that do not write the table or a file leave true.
LEMMA TableKept ==
  ASSUME FInv, UNCHANGED tableVars, group_id' = group_id
  PROVE  EnrolledIsStored' /\ FileFollowsTable'
  BY ZenonT(60) DEF FInv, tableVars, EnrolledIsStored, FileFollowsTable

\* Clearing a slot keeps what is said of the table and the files.
LEMMA ClearKeeps ==
  ASSUME FInv, group_id \in Groups, NEW i \in Slots, clearSlot(i), group_id' = group_id
  PROVE  /\ EnrolledIsStored' /\ FileFollowsTable'
         /\ fingerid' \in Tables /\ storage' \in [Groups -> Tables \cup {NoFile}]
         /\ enrolled' \in [Groups -> SUBSET Fingers]
<1>1. /\ fingerid' \in Tables
      /\ storage' \in [Groups -> Tables \cup {NoFile}]
      /\ \A j \in Slots : storage'[group_id][j] \in {fingerid'[j], NoFinger}
      /\ \A e \in enrolled[group_id] : e # fingerid[i] => e \in Range(storage'[group_id])
      /\ \A g \in Groups : g # group_id => storage'[g] = storage[g]
  BY Saved, ZenonT(60) DEF clearSlot
<1>2. /\ enrolled' \in [Groups -> SUBSET Fingers]
      /\ enrolled'[group_id] = enrolled[group_id] \ {fingerid[i]}
      /\ \A g \in Groups : g # group_id => enrolled'[g] = enrolled[g]
  BY DEF clearSlot, FInv, FingerprintTypeOK
<1>3. EnrolledIsStored'
  BY <1>1, <1>2, ZenonT(60) DEF FInv, EnrolledIsStored
<1> QED
  BY <1>1, <1>2, <1>3, ZenonT(60) DEF FileFollowsTable

\* So does writing the finger that was enrolled.
LEMMA EnrolKeeps ==
  ASSUME FInv, group_id \in Groups, NEW i \in Free, finger \in Fingers,
         fingerid' = [fingerid EXCEPT ![i] = finger], saveFingerprint(i, finger),
         enrolled' = [enrolled EXCEPT ![group_id] = @ \cup {finger}], group_id' = group_id
  PROVE  /\ EnrolledIsStored' /\ FileFollowsTable'
         /\ fingerid' \in Tables /\ storage' \in [Groups -> Tables \cup {NoFile}]
         /\ enrolled' \in [Groups -> SUBSET Fingers]
<1>0. i \in Slots /\ fingerid[i] = NoFinger
  BY DEF Free
<1>1. /\ fingerid' \in Tables
      /\ storage' \in [Groups -> Tables \cup {NoFile}]
      /\ \A j \in Slots : storage'[group_id][j] \in {fingerid'[j], NoFinger}
      /\ finger \in Range(storage'[group_id])
      /\ \A e \in enrolled[group_id] : e # fingerid[i] => e \in Range(storage'[group_id])
      /\ \A g \in Groups : g # group_id => storage'[g] = storage[g]
  BY <1>0, Saved, ZenonT(60)
<1>2. /\ enrolled' \in [Groups -> SUBSET Fingers]
      /\ enrolled'[group_id] = enrolled[group_id] \cup {finger}
      /\ \A g \in Groups : g # group_id => enrolled'[g] = enrolled[g]
  BY DEF FInv, FingerprintTypeOK
<1>3. \A e \in enrolled[group_id] : e # fingerid[i]
  BY <1>0, FingerprintBounds DEF FInv, FingerprintTypeOK
<1>4. EnrolledIsStored'
  BY <1>1, <1>2, <1>3, ZenonT(60) DEF FInv, EnrolledIsStored
<1> QED
  BY <1>1, <1>2, <1>4, ZenonT(60) DEF FileFollowsTable

LEMMA StepFInv == FInv /\ [FingerprintNext]_fingerVars => FInv'
<1> SUFFICES ASSUME FInv, [FingerprintNext]_fingerVars PROVE FInv'
  OBVIOUS
<1> USE FingerprintBounds
<1>t. FingerprintTypeOK /\ WritesHaveGroup
  BY DEF FInv
<1>u. UNCHANGED fingerVars => FInv'
  BY DEF fingerVars, FInv, FingerprintTypeOK, EnrolledIsStored, FileFollowsTable, WritesHaveGroup
<1>1. ASSUME UNCHANGED tableVars, group_id' = group_id,
             \/ fingerprint_open \/ authenticate \/ cancel \/ enroll \/ acceptToken \/ removeAll \/ close
             \/ startListening \/ checkState \/ pollTimesOut \/ connectionLost
             \/ \E f \in Fingers : fingerOn(f)
      PROVE  FInv'
  <2>1. EnrolledIsStored' /\ FileFollowsTable'
    BY <1>1, TableKept
  <2> USE DEF enrolVars, threadVars
  <2>n. 1 \in 1..2 /\ 2 \in 1..2 /\ \A n \in 1..2 : n \in 0..2
    OBVIOUS
  <2>2. /\ samples_remaining' \in 0..2
        /\ samples_remaining' = samples_remaining \/ samples_remaining' = 2
    BY <1>1, <1>t, <2>n, ZenonT(60) DEF FingerprintTypeOK, fingerprint_open, authenticate, cancel, enroll,
       acceptToken, removeAll, close, startListening, checkState, pollTimesOut, connectionLost, fingerOn
  <2>3. enrolCalls' \in 0..EnrolMax
    <3>1. enrolCalls' = enrolCalls \/ (enrolCalls < EnrolMax /\ enrolCalls' = enrolCalls + 1)
      BY <1>1, ZenonT(60) DEF fingerprint_open, authenticate, cancel, enroll,
         acceptToken, removeAll, close, startListening, checkState, pollTimesOut, connectionLost, fingerOn
    <3> QED
      BY <3>1, <1>t DEF FingerprintTypeOK
  <2>4. FingerprintTypeOK'
    <3>1. CASE fingerprint_open \/ authenticate \/ cancel \/ enroll \/ acceptToken \/ removeAll \/ close
      BY <3>1, <1>1, <1>t, <2>2, <2>3, ZenonT(60) DEF FingerprintTypeOK, tableVars, setState,
         fingerprint_open, authenticate, cancel, enroll, acceptToken, removeAll, close
    <3>2. CASE startListening \/ checkState \/ pollTimesOut \/ connectionLost
               \/ \E f \in Fingers : fingerOn(f)
      BY <3>2, <1>1, <1>t, <2>2, <2>3, ZenonT(60) DEF FingerprintTypeOK, tableVars, setState,
         startListening, checkState, pollTimesOut, connectionLost, fingerOn
    <3> QED
      BY <1>1, <3>1, <3>2
  <2>5. WritesHaveGroup'
    <3>1. CASE fingerprint_open \/ authenticate \/ cancel \/ close
      <4>1. /\ UNCHANGED <<samples_remaining, secure_user_id, finger>>
            /\ calling' \in {calling, "none", "close"}
            /\ listenerState' \in {listenerState, "SCAN", "IDLE", "EXIT"}
            /\ listenerAt' \in {listenerAt, "start"}
        BY <3>1 DEF fingerprint_open, authenticate, cancel, close, setState
      <4> QED
        BY <4>1, <1>1, <1>t DEF WritesHaveGroup
    <3>4. CASE enroll \/ removeAll
      <4>1. group_id' \in Groups
        BY <3>4, <1>t, <1>1, ZenonT(60) DEF FingerprintTypeOK, enroll, removeAll
      <4> QED
        BY <3>4, <4>1, <1>t, ZenonT(60) DEF WritesHaveGroup, enroll, removeAll
    <3>3. CASE acceptToken
      BY <3>3, <1>1, <1>t, <2>n DEF FingerprintTypeOK, WritesHaveGroup, setState, acceptToken
    <3>2. CASE startListening \/ checkState \/ pollTimesOut \/ connectionLost
               \/ \E f \in Fingers : fingerOn(f)
      <4>1. /\ UNCHANGED <<samples_remaining, secure_user_id, calling>>
            /\ listenerState' \in {listenerState, "IDLE"}
            /\ \/ listenerAt' \in {"check", "gone", "poll"}
               \/ listenerAt' = "enroll" /\ listenerState = "ENROLL" /\ finger' \in Fingers
        BY <3>2 DEF setState, startListening, checkState, pollTimesOut, connectionLost, fingerOn
      <4> QED
        BY <4>1, <1>1, <1>t DEF WritesHaveGroup
    <3> QED
      BY <1>1, <3>1, <3>2, <3>3, <3>4
  <2> QED
    BY <2>1, <2>4, <2>5 DEF FInv
<1>2. ASSUME NEW g \in Groups, set_active_group(g) PROVE FInv'
  <2>1. EnrolledIsStored'
    BY <1>2, ZenonT(60) DEF FInv, set_active_group, loadFingerprints, EnrolledIsStored
  <2>2. FileFollowsTable'
    BY <1>2, <1>t DEF set_active_group, loadFingerprints, FileFollowsTable, FingerprintTypeOK, Tables
  <2>3. FingerprintTypeOK'
    BY <1>2, <1>t DEF set_active_group, loadFingerprints, FingerprintTypeOK, enrolVars, threadVars
  <2> QED
    BY <1>2, <1>t, <2>1, <2>2, <2>3 DEF FInv, WritesHaveGroup, set_active_group, loadFingerprints, enrolVars, threadVars
<1>3. CASE forget
  <2>1. EmptyTable \in Tables
    BY DEF EmptyTable, Tables
  <2>2. FingerprintTypeOK'
    <3>1. 0 \in 0..2
      OBVIOUS
    <3> QED
      BY <1>3, <1>t, <2>1, <3>1, ZenonT(60) DEF forget, FingerprintTypeOK
  <2> QED
    BY <1>3, <2>2, ZenonT(60) DEF forget, FInv, EnrolledIsStored, FileFollowsTable, WritesHaveGroup
<1>4. ASSUME NEW f \in Fingers, remove(f) PROVE FInv'
  <2> DEFINE S == {i \in Slots : fingerid[i] = f}
  <2>0. group_id \in Groups /\ group_id' = group_id
    BY <1>4, <1>t DEF remove, FingerprintTypeOK
  <2>1. \/ UNCHANGED tableVars
        \/ First(S) \in Slots /\ clearSlot(First(S))
    BY <1>4, FirstIsOne DEF remove
  <2>2. /\ EnrolledIsStored' /\ FileFollowsTable'
        /\ fingerid' \in Tables /\ storage' \in [Groups -> Tables \cup {NoFile}]
        /\ enrolled' \in [Groups -> SUBSET Fingers]
    BY <2>0, <2>1, <1>t, TableKept, ClearKeeps, ZenonT(60) DEF tableVars, FingerprintTypeOK
  <2>3. FingerprintTypeOK'
    BY <1>4, <1>t, <2>2 DEF remove, FingerprintTypeOK, enrolVars, threadVars, setState
  <2>4. WritesHaveGroup'
    BY <1>4, <1>t, <2>0 DEF remove, WritesHaveGroup, enrolVars, threadVars, setState
  <2> QED
    BY <2>2, <2>3, <2>4 DEF FInv
<1>5. CASE removeNext
  <2>0. group_id \in Groups /\ group_id' = group_id
    BY <1>5, <1>t DEF removeNext, WritesHaveGroup
  <2>1. \/ UNCHANGED tableVars
        \/ First(Slots \ Free) \in Slots /\ clearSlot(First(Slots \ Free))
    BY <1>5, FirstIsOne DEF removeNext, Free
  <2>2. /\ EnrolledIsStored' /\ FileFollowsTable'
        /\ fingerid' \in Tables /\ storage' \in [Groups -> Tables \cup {NoFile}]
        /\ enrolled' \in [Groups -> SUBSET Fingers]
    BY <2>0, <2>1, <1>t, TableKept, ClearKeeps DEF tableVars, FingerprintTypeOK
  <2>3. FingerprintTypeOK'
    BY <1>5, <1>t, <2>2, ZenonT(60) DEF removeNext, FingerprintTypeOK, enrolVars, threadVars, setState
  <2>4. WritesHaveGroup'
    BY <1>5, <1>t, <2>0 DEF removeNext, WritesHaveGroup, enrolVars, threadVars, setState
  <2> QED
    BY <2>2, <2>3, <2>4 DEF FInv
<1>6. CASE send_enroll_notice
  <2>0. finger \in Fingers /\ group_id' = group_id /\ samples_remaining \in 1..2
    BY <1>6, <1>t DEF send_enroll_notice, WritesHaveGroup
  <2>1. /\ UNCHANGED <<secure_user_id, enrolCalls, group_id, calling>>
        /\ listenerAt' \in {"check", "gone"} /\ finger' = NoFinger
    BY <1>6 DEF send_enroll_notice
  <2>2. CASE UNCHANGED tableVars /\ UNCHANGED samples_remaining
                /\ (setState("IDLE") \/ UNCHANGED <<listenerState, exitLost>>)
    <3>1. FingerprintTypeOK'
      BY <2>1, <2>2, <1>t, ZenonT(60) DEF FingerprintTypeOK, tableVars, setState
    <3>2. WritesHaveGroup'
      BY <2>0, <2>1, <2>2, <1>t DEF WritesHaveGroup, setState
    <3> QED
      BY <2>0, <2>2, <3>1, <3>2, TableKept DEF FInv
  <2>3. CASE UNCHANGED <<tableVars, listenerState, exitLost>>
                /\ samples_remaining' = samples_remaining - 1 /\ ~(samples_remaining' <= 0)
    <3>0. samples_remaining' \in 1..2
      BY <2>0, <2>3
    <3>1. FingerprintTypeOK'
      BY <2>1, <2>3, <1>t, <3>0 DEF FingerprintTypeOK, tableVars
    <3>2. WritesHaveGroup'
      BY <3>0, <2>1, <2>3, <1>t DEF WritesHaveGroup
    <3> QED
      BY <2>0, <2>3, <3>1, <3>2, TableKept DEF FInv
  <2>4. CASE /\ secure_user_id /\ Free # {} /\ samples_remaining' = samples_remaining - 1
             /\ fingerid' = [fingerid EXCEPT ![First(Free)] = finger]
             /\ saveFingerprint(First(Free), finger)
             /\ enrolled' = [enrolled EXCEPT ![group_id] = @ \cup {finger}]
             /\ setState("IDLE")
    <3>0. samples_remaining' \in 0..2 /\ group_id \in Groups
      BY <2>0, <2>4, <1>t DEF WritesHaveGroup
    <3>1. First(Free) \in Free
      BY <2>4, FirstIsOne DEF Free
    <3>2. /\ EnrolledIsStored' /\ FileFollowsTable'
          /\ fingerid' \in Tables /\ storage' \in [Groups -> Tables \cup {NoFile}]
          /\ enrolled' \in [Groups -> SUBSET Fingers]
      BY <2>0, <2>4, <3>0, <3>1, EnrolKeeps, ZenonT(60)
    <3>3. FingerprintTypeOK'
      BY <2>1, <2>4, <3>0, <3>2, <1>t DEF FingerprintTypeOK, setState
    <3>4. WritesHaveGroup'
      BY <2>1, <2>4, <3>0, <1>t DEF WritesHaveGroup, setState
    <3> QED
      BY <3>2, <3>3, <3>4 DEF FInv
  <2> QED
    BY <1>6, <2>2, <2>3, <2>4, ZenonT(60) DEF send_enroll_notice
<1>7. fingerprint_open \/ authenticate \/ cancel \/ enroll \/ acceptToken \/ removeAll \/ close
        \/ startListening \/ checkState \/ pollTimesOut \/ connectionLost
        \/ (\E f \in Fingers : fingerOn(f))
        => UNCHANGED tableVars /\ group_id' = group_id
  BY ZenonT(60) DEF fingerprint_open, authenticate, cancel, enroll, acceptToken, removeAll, close,
     startListening, checkState, pollTimesOut, connectionLost, fingerOn
<1> QED
  BY <1>u, <1>1, <1>2, <1>3, <1>4, <1>5, <1>6, <1>7 DEF FingerprintNext, joinListener, crash

\* Whatever the groups, the fingers and the size of the table: a finger that was
\* enrolled and not removed is in the file of its group, at every step of the
\* calls and of the listener.
THEOREM EnrolledStaysStored == FingerprintSpec => []EnrolledIsStored
<1>1. FInv => EnrolledIsStored
  BY DEF FInv
<1> QED
  BY <1>1, InitFInv, StepFInv, PTL DEF FingerprintSpec

\* The variables of the fingerprint HAL have their types.
THEOREM FingerprintTypes == FingerprintSpec => []FingerprintTypeOK
<1>1. FInv => FingerprintTypeOK
  BY DEF FInv
<1> QED
  BY <1>1, InitFInv, StepFInv, PTL DEF FingerprintSpec

-----------------------------------------------------------------------------
(* The Wi-Fi forwarder                                                       *)

\* A cache of sequence numbers has records of frames.
CookieCache(cookies) ==
  \A n \in DOMAIN cookies :
    /\ cookies[n].id \in Frames
    /\ cookies[n] = [id |-> cookies[n].id, age |-> cookies[n].age]

HasCookie(cookies, f) == \E n \in DOMAIN cookies : cookies[n].id = f
OneCookie(cookies, f) ==
  \A n, m \in DOMAIN cookies : cookies[n].id = f /\ cookies[m].id = f => n = m
HasRetry(f) == \E r \in mRetryQueue : r.id = f
OneRetry(f) == \A r, q \in mRetryQueue : r.id = f /\ q.id = f => r = q

\* A sequence number the kernel will answer stands for the frame it was sent with.
AnswersMatch(cookies) ==
  \A m \in Range(netlink) : m.seq \in DOMAIN cookies => cookies[m.seq].id = m.id

WifiTypes ==
  /\ ForwarderTypeOK
  /\ CookieCache(mSequenceNumberCookies)
  /\ \A r \in mRetryQueue : r.id \in Frames /\ r = [left |-> r.left, id |-> r.id]
  /\ IsFiniteSet(mRetryQueue) /\ IsFiniteSet(DOMAIN mRadios)
  /\ netlink \in Seq(Range(netlink))
  /\ reports \in [Unicast -> {<<>>, <<TRUE>>, <<FALSE>>}]

\* Who is still to report on a unicast frame: the radio that has not sent it, the
\* kernel by a sequence number, the retry queue or the other emulators; one of
\* them only, and none after the report.
OneReporter(f) ==
  /\ OneCookie(mSequenceNumberCookies, f) /\ OneRetry(f)
  /\ HasCookie(mSequenceNumberCookies, f) =>
       ~HasRetry(f) /\ f \notin remote /\ f \notin unsent /\ reports[f] = <<>>
  /\ HasRetry(f) => f \notin remote /\ f \notin unsent /\ reports[f] = <<>>
  /\ f \in remote => f \notin unsent /\ reports[f] = <<>>
  /\ f \in unsent => reports[f] = <<>>
  /\ reports[f] = <<TRUE>> => f \in accepted

FwInv ==
  /\ WifiTypes /\ AnswersMatch(mSequenceNumberCookies)
  /\ \A f \in Unicast : OneReporter(f)

LEMMA FwInvReported == FwInv => UnicastReportedOnce
<1> SUFFICES ASSUME FwInv PROVE UnicastReportedOnce
  OBVIOUS
<1>1. Len(<<>>) <= 1 /\ Len(<<TRUE>>) <= 1 /\ Len(<<FALSE>>) <= 1
  OBVIOUS
<1>2. ASSUME NEW f \in Unicast PROVE Len(reports[f]) <= 1
  BY <1>1, ZenonT(60) DEF FwInv, WifiTypes
<1> QED
  BY <1>2, ZenonT(60) DEF FwInv, OneReporter, UnicastReportedOnce

\* A process that has just started has nothing to report.
LEMMA InitFwInv == ForwarderInit => FwInv
<1> SUFFICES ASSUME ForwarderInit PROVE FwInv
  OBVIOUS
<1> USE DEF ForwarderInit
<1>1. /\ Nothing = [x \in {} |-> x] /\ DOMAIN Nothing = {}
      /\ Range(<<>>) = {} /\ <<>> \in Seq({})
  BY DEF Nothing, Range
<1>2. WifiTypes
  <2>0. \A f \in Unicast : reports[f] = <<>> /\ DOMAIN reports[f] = {}
    OBVIOUS
  <2>1. ForwarderTypeOK
    BY <1>1, <2>0, ZenonT(60) DEF ForwarderTypeOK
  <2>2. /\ IsFiniteSet(mRetryQueue) /\ IsFiniteSet(DOMAIN mRadios)
        /\ CookieCache(mSequenceNumberCookies) /\ netlink \in Seq(Range(netlink))
    BY <1>1, FS_EmptySet DEF CookieCache
  <2> QED
    BY <2>1, <2>2 DEF WifiTypes
<1> QED
  BY <1>1, <1>2, ZenonT(60) DEF FwInv, AnswersMatch, OneReporter, OneCookie, HasCookie, OneRetry, HasRetry

\* A sequence is one of what is in it.
LEMMA OfItsRange ==
  ASSUME NEW S, NEW s \in Seq(S)
  PROVE  s \in Seq(Range(s))
<1>1. Len(s) \in Nat /\ s \in [1..Len(s) -> Range(s)]
  BY DEF Range
<1> QED
  BY <1>1

\* What an overlay holds.
LEMMA Overlaid ==
  ASSUME NEW f, NEW g
  PROVE  /\ DOMAIN Overlay(f, g) = DOMAIN f \cup DOMAIN g
         /\ \A x \in DOMAIN g : Overlay(f, g)[x] = g[x]
         /\ \A x \in DOMAIN f : x \notin DOMAIN g => Overlay(f, g)[x] = f[x]
BY ZenonT(60) DEF Overlay

\* The fields of a cookie.
LEMMA CookieFields ==
  ASSUME NEW f, NEW c, c = [id |-> f, age |-> 0]
  PROVE  c.id = f /\ c.age = 0
OBVIOUS

LEMMA AtMostOne == \A k \in Nat : k <= 1 => \A i, j \in 1..k : i = j
OBVIOUS

\* Two sequences one after the other.
LEMMA Concatenated ==
  ASSUME NEW S, NEW a \in Seq(S), NEW b \in Seq(S)
  PROVE  a \o b \in Seq(Range(a \o b)) /\ Range(a \o b) = Range(a) \cup Range(b)
<1>1. /\ a \o b \in Seq(S) /\ Len(a) \in Nat /\ Len(b) \in Nat
      /\ DOMAIN a = 1..Len(a) /\ DOMAIN b = 1..Len(b) /\ DOMAIN (a \o b) = 1..(Len(a) + Len(b))
      /\ \A i \in 1..Len(a) : (a \o b)[i] = a[i]
      /\ \A i \in 1..Len(b) : (a \o b)[Len(a) + i] = b[i]
  OBVIOUS
<1>2. ASSUME NEW x \in Range(a \o b) PROVE x \in Range(a) \cup Range(b)
  <2>1. PICK i \in 1..(Len(a) + Len(b)) : x = (a \o b)[i]
    BY <1>1 DEF Range
  <2>2. CASE i \in 1..Len(a)
    BY <1>1, <2>1, <2>2 DEF Range
  <2>3. CASE i \notin 1..Len(a)
    <3>1. i - Len(a) \in 1..Len(b) /\ i = Len(a) + (i - Len(a))
      BY <1>1, <2>3
    <3>2. x = b[i - Len(a)]
      BY <1>1, <2>1, <3>1
    <3> QED
      BY <1>1, <3>1, <3>2 DEF Range
  <2> QED
    BY <2>2, <2>3
<1>3. ASSUME NEW x \in Range(a) PROVE x \in Range(a \o b)
  BY <1>1 DEF Range
<1>4. ASSUME NEW x \in Range(b) PROVE x \in Range(a \o b)
  <2>1. PICK i \in 1..Len(b) : x = b[i]
    BY <1>1 DEF Range
  <2>2. Len(a) + i \in DOMAIN (a \o b) /\ x = (a \o b)[Len(a) + i]
    BY <1>1, <2>1
  <2> QED
    BY <2>2 DEF Range
<1>5. Range(a \o b) = Range(a) \cup Range(b)
  BY <1>2, <1>3, <1>4, ZenonT(60)
<1> QED
  BY <1>1, <1>5, OfItsRange

\* What the caches forget or age, they keep the frames of.
LEMMA CachesKeep ==
  ASSUME NEW cache
  PROVE  /\ DOMAIN cachesAfter(cache) \subseteq DOMAIN cache
         /\ CookieCache(cache) =>
              /\ CookieCache(cachesAfter(cache))
              /\ \A n \in DOMAIN cachesAfter(cache) : cachesAfter(cache)[n].id = cache[n].id
<1> DEFINE told == IF sinceUpdate > Second THEN older(cache, sinceUpdate) ELSE cache
<1>1. DOMAIN told = DOMAIN cache
  BY ZenonT(60) DEF older
<1>2. ASSUME CookieCache(cache), NEW n \in DOMAIN cache
      PROVE  told[n].id = cache[n].id /\ told[n] = [id |-> told[n].id, age |-> told[n].age]
  <2>1. cache[n] = [id |-> cache[n].id, age |-> cache[n].age]
    BY <1>2 DEF CookieCache
  <2>2. CASE sinceUpdate > Second
    <3>1. told[n] = [cache[n] EXCEPT !.age = cache[n].age + sinceUpdate]
      BY <2>2 DEF older
    <3> QED
      BY <2>1, <3>1
  <2> QED
    BY <2>1, <2>2, ZenonT(60)
<1>3. cachesAfter(cache) = IF sinceExpiration > Expiration THEN expireEntries(told) ELSE told
  BY DEF cachesAfter
<1> HIDE DEF told
<1>4. /\ DOMAIN cachesAfter(cache) \subseteq DOMAIN told
      /\ \A n \in DOMAIN cachesAfter(cache) : cachesAfter(cache)[n] = told[n]
  BY <1>3, ZenonT(60) DEF expireEntries, Without
<1> QED
  BY <1>1, <1>2, <1>4 DEF CookieCache

\* Sequence numbers are added for these messages only, one for each.
Numbered(before, after, messages) ==
  \A f \in Frames :
    /\ HasCookie(after, f) =>
         HasCookie(before, f) \/ \E i \in 1..Len(messages) : messages[i].id = f
    /\ /\ OneCookie(before, f)
       /\ \A i, j \in 1..Len(messages) : messages[i].id = f /\ messages[j].id = f => i = j
       /\ ~(HasCookie(before, f) /\ \E i \in 1..Len(messages) : messages[i].id = f)
       => OneCookie(after, f)

\* Messages get sequence numbers that nothing else uses: the answers to them and
\* to earlier ones match, and a frame has a new one for each of its messages.
LEMMA Transferred ==
  ASSUME NEW pending, NEW cookies, NEW entries, NEW messages, Len(messages) \in Nat,
         transferFrames(pending, cookies, entries, messages),
         WifiTypes, CookieCache(cookies), AnswersMatch(cookies),
         \A i \in 1..Len(messages) : messages[i].id \in Frames
  PROVE  /\ CookieCache(mSequenceNumberCookies') /\ AnswersMatch(mSequenceNumberCookies)'
         /\ netlink' \in Seq(Range(netlink'))
         /\ DOMAIN mPendingFrames' = DOMAIN pending \cup DOMAIN entries
         /\ Numbered(cookies, mSequenceNumberCookies', messages)
<1> DEFINE k == Len(messages)
           used == DOMAIN cookies \cup {netlink[i].seq : i \in DOMAIN netlink}
<1>1. PICK seqs \in getSeqNums(cookies, k) :
        /\ mPendingFrames' = Overlay(pending, entries)
        /\ mSequenceNumberCookies' =
             Overlay(cookies, [n \in Range(seqs) |->
                       [id |-> messages[CHOOSE i \in 1..k : seqs[i] = n].id, age |-> 0]])
        /\ netlink' = netlink \o [i \in 1..k |->
                        [seq |-> seqs[i], id |-> messages[i].id, dest |-> messages[i].dest]]
  BY ZenonT(60) DEF transferFrames
<1>2. /\ DOMAIN seqs = 1..k
      /\ \A i \in 1..k : seqs[i] \notin used
      /\ \A i, j \in 1..k : seqs[i] = seqs[j] => i = j
  BY <1>1, ZenonT(60) DEF getSeqNums, Injection, IsInjective
<1> DEFINE new == [n \in Range(seqs) |->
                     [id |-> messages[CHOOSE i \in 1..k : seqs[i] = n].id, age |-> 0]]
           sent == [i \in 1..k |->
                      [seq |-> seqs[i], id |-> messages[i].id, dest |-> messages[i].dest]]
<1>3. \A i \in 1..k : (CHOOSE j \in 1..k : seqs[j] = seqs[i]) = i
  BY <1>2, ZenonT(60)
<1>4. /\ DOMAIN new = {seqs[i] : i \in 1..k}
      /\ \A i \in 1..k : new[seqs[i]] = [id |-> messages[i].id, age |-> 0]
  BY <1>2, <1>3, ZenonT(60) DEF Range
<1>5. /\ mSequenceNumberCookies' = Overlay(cookies, new)
      /\ netlink' = netlink \o sent
  BY <1>1, ZenonT(60)
<1> HIDE DEF new
<1>6. /\ DOMAIN mSequenceNumberCookies' = DOMAIN cookies \cup {seqs[i] : i \in 1..k}
      /\ \A i \in 1..k : mSequenceNumberCookies'[seqs[i]] = [id |-> messages[i].id, age |-> 0]
      /\ \A n \in DOMAIN cookies : mSequenceNumberCookies'[n] = cookies[n]
  <2>1. \A n \in DOMAIN cookies : n \notin DOMAIN new
    BY <1>2, <1>4, ZenonT(60)
  <2>2. /\ DOMAIN mSequenceNumberCookies' = DOMAIN cookies \cup DOMAIN new
        /\ \A x \in DOMAIN new : mSequenceNumberCookies'[x] = new[x]
        /\ \A x \in DOMAIN cookies : x \notin DOMAIN new => mSequenceNumberCookies'[x] = cookies[x]
    <3>1. /\ DOMAIN Overlay(cookies, new) = DOMAIN cookies \cup DOMAIN new
          /\ \A x \in DOMAIN new : Overlay(cookies, new)[x] = new[x]
          /\ \A x \in DOMAIN cookies : x \notin DOMAIN new => Overlay(cookies, new)[x] = cookies[x]
      BY Overlaid, ZenonT(60)
    <3> QED
      BY <1>5, <3>1, ZenonT(60)
  <2>3. \A i \in 1..k : seqs[i] \in DOMAIN new
    BY <1>4, ZenonT(60)
  <2> QED
    BY <1>4, <2>1, <2>2, <2>3, ZenonT(60)
<1> DEFINE after == mSequenceNumberCookies'
<1>13. ASSUME NEW i \in 1..k PROVE after[seqs[i]].id = messages[i].id
  <2>1. after[seqs[i]] = [id |-> messages[i].id, age |-> 0]
    BY <1>6, ZenonT(60)
  <2> HIDE DEF after
  <2> QED
    BY <2>1, CookieFields, ZenonT(60)
<1>7. CookieCache(after)
  <2> SUFFICES ASSUME NEW n \in DOMAIN after
               PROVE  after[n].id \in Frames /\ after[n] = [id |-> after[n].id, age |-> after[n].age]
    BY ZenonT(60) DEF CookieCache
  <2>1. CASE n \in DOMAIN cookies
    BY <2>1, <1>6, ZenonT(60) DEF CookieCache
  <2>2. ASSUME NEW i \in 1..k, n = seqs[i]
        PROVE  after[n].id \in Frames /\ after[n] = [id |-> after[n].id, age |-> after[n].age]
    <3>1. after[n] = [id |-> messages[i].id, age |-> 0] /\ messages[i].id \in Frames
      BY <2>2, <1>6, ZenonT(60)
    <3> HIDE DEF after
    <3> QED
      BY <3>1, CookieFields, ZenonT(60)
  <2> QED
    BY <2>1, <2>2, <1>6, ZenonT(60)
<1>8. netlink' \in Seq(Range(netlink')) /\ Range(netlink') = Range(netlink) \cup Range(sent)
  <2> DEFINE S == Range(netlink) \cup Range(sent)
  <2>1. sent \in [1..k -> S]
    BY ZenonT(60) DEF Range
  <2> HIDE DEF sent
  <2>2. sent \in Seq(S)
    BY <2>1
  <2> HIDE DEF S
  <2>3. netlink \in Seq(S)
    BY SMTT(60) DEF WifiTypes, S
  <2> QED
    BY <2>2, <2>3, <1>5, Concatenated, ZenonT(60)
<1>9. AnswersMatch(mSequenceNumberCookies)'
  <2>1. ASSUME NEW m \in Range(netlink), m.seq \in DOMAIN mSequenceNumberCookies'
        PROVE  mSequenceNumberCookies'[m.seq].id = m.id
    <3>1. m.seq \in used
      BY ZenonT(60) DEF Range
    <3>2. m.seq \in DOMAIN cookies
      <4>1. m.seq \in DOMAIN cookies \cup {seqs[i] : i \in 1..k}
        BY <1>6, <2>1, ZenonT(60)
      <4>2. \A i \in 1..k : seqs[i] \notin used
        BY <1>2, ZenonT(60)
      <4> HIDE DEF used
      <4> QED
        BY <3>1, <4>1, <4>2, ZenonT(60)
    <3> QED
      BY <1>6, <3>2, ZenonT(60) DEF AnswersMatch
  <2>2. ASSUME NEW m \in Range(sent) PROVE mSequenceNumberCookies'[m.seq].id = m.id
    <3>1. PICK i \in 1..k : m = [seq |-> seqs[i], id |-> messages[i].id, dest |-> messages[i].dest]
      BY ZenonT(60) DEF Range
    <3> QED
      BY <3>1, <1>13, ZenonT(60)
  <2> QED
    BY <1>8, <2>1, <2>2, ZenonT(60) DEF AnswersMatch
<1>10. DOMAIN mPendingFrames' = DOMAIN pending \cup DOMAIN entries
  BY <1>1, ZenonT(60) DEF Overlay
<1>11. ASSUME NEW f \in Frames, HasCookie(mSequenceNumberCookies', f)
       PROVE  HasCookie(cookies, f) \/ \E i \in 1..k : messages[i].id = f
  <2>1. PICK n \in DOMAIN after : after[n].id = f
    BY <1>11, ZenonT(60) DEF HasCookie
  <2>2. CASE n \in DOMAIN cookies
    BY <2>1, <2>2, <1>6, ZenonT(60) DEF HasCookie
  <2>3. ASSUME NEW i \in 1..k, n = seqs[i] PROVE messages[i].id = f
    BY <2>1, <2>3, <1>13, ZenonT(60)
  <2> QED
    BY <2>2, <2>3, <1>6, ZenonT(60)
<1>12. ASSUME NEW f \in Frames, OneCookie(cookies, f),
              \A i, j \in 1..k : messages[i].id = f /\ messages[j].id = f => i = j,
              ~(HasCookie(cookies, f) /\ \E i \in 1..k : messages[i].id = f)
       PROVE  OneCookie(mSequenceNumberCookies', f)
  <2> SUFFICES ASSUME NEW n \in DOMAIN after, NEW m \in DOMAIN after,
                      after[n].id = f, after[m].id = f
               PROVE  n = m
    BY ZenonT(60) DEF OneCookie
  <2>1. \A l \in DOMAIN after : l \in DOMAIN cookies \/ \E i \in 1..k : l = seqs[i]
    BY <1>6, ZenonT(60)
  <2>2. \A i \in 1..k : after[seqs[i]].id = messages[i].id
    BY <1>13, ZenonT(60)
  <2>3. CASE HasCookie(cookies, f)
    <3>1. n \in DOMAIN cookies /\ m \in DOMAIN cookies
      <4>1. \A i \in 1..k : messages[i].id # f
        BY <2>3, <1>12, ZenonT(60)
      <4>2. ASSUME NEW l \in DOMAIN after, after[l].id = f PROVE l \in DOMAIN cookies
        <5>1. ASSUME NEW i \in 1..k, l = seqs[i] PROVE FALSE
          BY <2>2, <4>1, <4>2, <5>1, ZenonT(60)
        <5> QED
          BY <2>1, <5>1, ZenonT(60)
      <4> QED
        BY <4>2, ZenonT(60)
    <3> QED
      BY <3>1, <1>6, <1>12, ZenonT(60) DEF OneCookie
  <2>4. CASE ~HasCookie(cookies, f)
    <3>1. n \notin DOMAIN cookies /\ m \notin DOMAIN cookies
      BY <2>4, <1>6, ZenonT(60) DEF HasCookie
    <3> QED
      <4>1. PICK i \in 1..k : n = seqs[i]
        BY <2>1, <3>1, ZenonT(60)
      <4>2. PICK j \in 1..k : m = seqs[j]
        BY <2>1, <3>1, ZenonT(60)
      <4>3. messages[i].id = f /\ messages[j].id = f
        BY <2>2, <4>1, <4>2, ZenonT(60)
      <4> QED
        BY <1>12, <4>1, <4>2, <4>3, ZenonT(60)
  <2> QED
    BY <2>3, <2>4, ZenonT(60)
<1>14. Numbered(cookies, mSequenceNumberCookies', messages)
  BY <1>11, <1>12, ZenonT(60) DEF Numbered
<1> QED
  BY <1>7, <1>8, <1>9, <1>10, <1>14, ZenonT(60)

\* Fewer sequence numbers and fewer answers to come: nothing is confused.
LEMMA FewerCookies ==
  ASSUME WifiTypes, AnswersMatch(mSequenceNumberCookies), NEW cookies,
         DOMAIN cookies \subseteq DOMAIN mSequenceNumberCookies,
         \A n \in DOMAIN cookies : cookies[n].id = mSequenceNumberCookies[n].id
  PROVE  /\ AnswersMatch(cookies)
         /\ \A f \in Frames :
              /\ HasCookie(cookies, f) => HasCookie(mSequenceNumberCookies, f)
              /\ OneCookie(mSequenceNumberCookies, f) => OneCookie(cookies, f)
  BY DEF AnswersMatch, HasCookie, OneCookie

LEMMA AnswerTaken ==
  ASSUME NEW s, s \in Seq(Range(s)), s # <<>>
  PROVE  /\ Head(s) \in Range(s)
         /\ Tail(s) \in Seq(Range(Tail(s))) /\ Range(Tail(s)) \subseteq Range(s)
<1>1. /\ Len(s) \in Nat \ {0} /\ Head(s) = s[1] /\ DOMAIN s = 1..Len(s)
      /\ Tail(s) \in Seq(Range(s)) /\ DOMAIN Tail(s) = 1..(Len(s) - 1)
      /\ \A i \in 1..(Len(s) - 1) : Tail(s)[i] = s[i + 1]
  OBVIOUS
<1>2. Head(s) \in Range(s)
  BY <1>1 DEF Range
<1>3. Range(Tail(s)) \subseteq Range(s)
  BY <1>1, SMTT(60) DEF Range
<1> QED
  BY <1>1, <1>2, <1>3, OfItsRange, ZenonT(60)

\* cloneFrame gives the frame a sequence number for each radio.
LEMMA Cloned ==
  ASSUME FwInv, NEW f \in Frames, NEW radios, IsFiniteSet(radios), cloneFrame(f, radios)
  PROVE  /\ CookieCache(mSequenceNumberCookies') /\ AnswersMatch(mSequenceNumberCookies)'
         /\ netlink' \in Seq(Range(netlink')) /\ DOMAIN mPendingFrames' \subseteq Frames
         /\ \A g \in Unicast \ {f} :
              /\ HasCookie(mSequenceNumberCookies', g) => HasCookie(mSequenceNumberCookies, g)
              /\ OneCookie(mSequenceNumberCookies', g)
         /\ ~HasCookie(mSequenceNumberCookies, f) =>
              /\ Cardinality(radios) <= 1 => OneCookie(mSequenceNumberCookies', f)
              /\ radios = {} => ~HasCookie(mSequenceNumberCookies', f)
<1>0. PICK built \in SUBSET radios :
        \E order \in Bijection(1..Cardinality(built), built) :
          transferFrames(
            mPendingFrames, mSequenceNumberCookies,
            [id \in (IF built = {} THEN {} ELSE {f}) |->
               [age |-> 0, dest |-> order[Cardinality(built)], window |-> Info[f].window,
                attempts |-> incrementAttempts(f, 0, 1)]],
            [i \in 1..Cardinality(built) |-> [id |-> f, dest |-> order[i]]])
  BY ZenonT(60) DEF cloneFrame
<1> DEFINE k == Cardinality(built)
<1>1. /\ k \in Nat /\ (radios = {} => k = 0)
      /\ Cardinality(radios) <= 1 => k <= 1
  <2>1. /\ IsFiniteSet(built) /\ Cardinality(built) <= Cardinality(radios)
        /\ Cardinality(built) \in Nat /\ Cardinality(radios) \in Nat
    BY FS_Subset, FS_CardinalityType, ZenonT(60)
  <2>2. radios = {} => Cardinality(radios) = 0
    BY FS_EmptySet, ZenonT(60)
  <2> QED
    BY <2>1, <2>2, SMTT(60)
<1>2. PICK order \in Bijection(1..k, built) :
        transferFrames(
          mPendingFrames, mSequenceNumberCookies,
          [id \in (IF built = {} THEN {} ELSE {f}) |->
             [age |-> 0, dest |-> order[k], window |-> Info[f].window,
              attempts |-> incrementAttempts(f, 0, 1)]],
          [i \in 1..k |-> [id |-> f, dest |-> order[i]]])
  BY <1>0, ZenonT(60)
<1> DEFINE messages == [i \in 1..k |-> [id |-> f, dest |-> order[i]]]
           entries == [id \in (IF built = {} THEN {} ELSE {f}) |->
                         [age |-> 0, dest |-> order[k], window |-> Info[f].window,
                          attempts |-> incrementAttempts(f, 0, 1)]]
<1>3. Len(messages) = k /\ \A i \in 1..k : messages[i].id = f
  BY <1>1
<1>4. DOMAIN entries \subseteq {f}
  BY ZenonT(60)
<1>5. transferFrames(mPendingFrames, mSequenceNumberCookies, entries, messages)
  BY <1>2, ZenonT(60)
<1> HIDE DEF messages, entries, k
<1>6. /\ WifiTypes /\ CookieCache(mSequenceNumberCookies) /\ AnswersMatch(mSequenceNumberCookies)
      /\ DOMAIN mPendingFrames \subseteq Frames
      /\ \A g \in Unicast : g \in Frames /\ OneCookie(mSequenceNumberCookies, g)
  BY ZenonT(60) DEF FwInv, WifiTypes, ForwarderTypeOK, OneReporter, Unicast
<1>b. Len(messages) \in Nat /\ \A i \in 1..Len(messages) : messages[i].id \in Frames
  BY <1>1, <1>3
<1>a. /\ CookieCache(mSequenceNumberCookies') /\ AnswersMatch(mSequenceNumberCookies)'
      /\ netlink' \in Seq(Range(netlink'))
      /\ DOMAIN mPendingFrames' = DOMAIN mPendingFrames \cup DOMAIN entries
      /\ Numbered(mSequenceNumberCookies, mSequenceNumberCookies', messages)
  BY <1>b, <1>5, <1>6, Transferred, ZenonT(60)
<1>7. /\ CookieCache(mSequenceNumberCookies') /\ AnswersMatch(mSequenceNumberCookies)'
      /\ netlink' \in Seq(Range(netlink'))
      /\ DOMAIN mPendingFrames' = DOMAIN mPendingFrames \cup DOMAIN entries
      /\ \A g \in Frames :
           /\ HasCookie(mSequenceNumberCookies', g) =>
                HasCookie(mSequenceNumberCookies, g) \/ \E i \in 1..k : messages[i].id = g
           /\ /\ OneCookie(mSequenceNumberCookies, g)
              /\ \A i, j \in 1..k : messages[i].id = g /\ messages[j].id = g => i = j
              /\ ~(HasCookie(mSequenceNumberCookies, g) /\ \E i \in 1..k : messages[i].id = g)
              => OneCookie(mSequenceNumberCookies', g)
  BY <1>a, <1>3, ZenonT(60) DEF Numbered
<1>8. ASSUME NEW g \in Unicast \ {f}
      PROVE  /\ HasCookie(mSequenceNumberCookies', g) => HasCookie(mSequenceNumberCookies, g)
             /\ OneCookie(mSequenceNumberCookies', g)
  BY <1>3, <1>6, <1>7, ZenonT(60)
<1>9. ASSUME ~HasCookie(mSequenceNumberCookies, f), k <= 1
      PROVE  OneCookie(mSequenceNumberCookies', f)
  <2>1. OneCookie(mSequenceNumberCookies, f)
    BY <1>9 DEF OneCookie, HasCookie
  <2>2. \A i, j \in 1..k : i = j
    BY <1>1, <1>9, AtMostOne, ZenonT(60)
  <2> QED
    BY <2>1, <2>2, <1>7, <1>9, ZenonT(60)
<1>10. ASSUME ~HasCookie(mSequenceNumberCookies, f), radios = {}
       PROVE  ~HasCookie(mSequenceNumberCookies', f)
  BY <1>1, <1>7, <1>10
<1> QED
  BY <1>1, <1>4, <1>6, <1>7, <1>8, <1>9, <1>10, ZenonT(60)

\* A frame that arrives.
LEMMA ForwardKeeps ==
  ASSUME FwInv, NEW f \in Frames, forwardFrame(f)
  PROVE  FwInv'
<1>0. /\ f \in unsent /\ unsent' = unsent \ {f}
      /\ mRadios' = Put(mRadios, Info[f].transmitter, Info[f].from)
      /\ UNCHANGED <<mPipeFd, mRetryQueue, reports, accepted>>
  BY ZenonT(60) DEF forwardFrame
<1>t. /\ WifiTypes /\ ForwarderTypeOK /\ AnswersMatch(mSequenceNumberCookies)
      /\ \A g \in Unicast : OneReporter(g)
  BY ZenonT(60) DEF FwInv, WifiTypes
<1>1. /\ IsFiniteSet(DOMAIN mRadios')
      /\ \A r \in DOMAIN mRadios' : mRadios'[r] \in {"Local", "Remote"}
  <2>1. DOMAIN mRadios' = DOMAIN mRadios \cup {Info[f].transmitter}
    BY <1>0 DEF Put
  <2>2. IsFiniteSet(DOMAIN mRadios')
    BY <2>1, <1>t, FS_AddElement, ZenonT(60) DEF WifiTypes
  <2> QED
    BY <1>0, <1>t, <2>2, ForwarderBounds, ZenonT(60) DEF Put, ForwarderTypeOK
<1> DEFINE locals == {r \in forwardTo(f) : mRadios'[r] = "Local"}
<1>2. IsFiniteSet(locals)
  <2>1. locals \in SUBSET DOMAIN mRadios'
    BY DEF forwardTo
  <2> QED
    BY <2>1, <1>1, FS_Subset
<1>3. \E radios :
        /\ IsFiniteSet(radios) /\ cloneFrame(f, radios)
        /\ \/ f \notin Unicast /\ remote' \in {remote, remote \cup {f}}
           \/ radios = {} /\ remote' \in {remote, remote \cup {f}}
           \/ Cardinality(radios) <= 1 /\ remote' = remote
  <2>1. CASE Info[f].destination = Multicast \/ locals = {}
    <3>1. cloneFrame(f, locals) /\ remote' \in {remote, remote \cup {f}}
      BY <2>1, ZenonT(60) DEF forwardFrame
    <3>2. f \notin Unicast \/ locals = {}
      BY <2>1, ZenonT(60) DEF Unicast
    <3> QED
      BY <3>1, <3>2, <1>2, ZenonT(60)
  <2>2. CASE ~(Info[f].destination = Multicast \/ locals = {})
    <3>1. PICK r \in locals : cloneFrame(f, {r}) /\ remote' = remote
      BY <2>2, ZenonT(60) DEF forwardFrame
    <3>2. IsFiniteSet({r}) /\ Cardinality({r}) <= 1
      BY FS_Singleton
    <3> QED
      BY <3>1, <3>2, ZenonT(60)
  <2> QED
    BY <2>1, <2>2, ZenonT(60)
<1>4. PICK radios :
        /\ IsFiniteSet(radios) /\ cloneFrame(f, radios)
        /\ \/ f \notin Unicast /\ remote' \in {remote, remote \cup {f}}
           \/ radios = {} /\ remote' \in {remote, remote \cup {f}}
           \/ Cardinality(radios) <= 1 /\ remote' = remote
  BY <1>3, ZenonT(60)
<1>5. /\ CookieCache(mSequenceNumberCookies') /\ AnswersMatch(mSequenceNumberCookies)'
      /\ netlink' \in Seq(Range(netlink')) /\ DOMAIN mPendingFrames' \subseteq Frames
      /\ \A g \in Unicast \ {f} :
           /\ HasCookie(mSequenceNumberCookies', g) => HasCookie(mSequenceNumberCookies, g)
           /\ OneCookie(mSequenceNumberCookies', g)
      /\ ~HasCookie(mSequenceNumberCookies, f) =>
           /\ Cardinality(radios) <= 1 => OneCookie(mSequenceNumberCookies', f)
           /\ radios = {} => ~HasCookie(mSequenceNumberCookies', f)
  BY <1>4, Cloned, ZenonT(60)
<1>6. remote' \subseteq remote \cup {f} /\ remote' \subseteq Frames /\ unsent' \subseteq Frames
  BY <1>0, <1>4, <1>t, ZenonT(60) DEF ForwarderTypeOK
<1>7. ForwarderTypeOK'
  BY <1>0, <1>1, <1>5, <1>6, <1>t, ZenonT(60) DEF ForwarderTypeOK, CookieCache
<1>8. WifiTypes'
  BY <1>0, <1>1, <1>5, <1>7, <1>t, ZenonT(60) DEF WifiTypes
<1>9. ASSUME NEW g \in Unicast \ {f} PROVE OneReporter(g)'
  BY <1>0, <1>5, <1>6, <1>t, ZenonT(60) DEF OneReporter, HasRetry, OneRetry
<1>10. ASSUME f \in Unicast PROVE OneReporter(f)'
  <2>1. /\ ~HasCookie(mSequenceNumberCookies, f) /\ ~HasRetry(f) /\ f \notin remote
        /\ reports[f] = <<>> /\ OneRetry(f) /\ (reports[f] = <<TRUE>> => f \in accepted)
    BY <1>0, <1>10, <1>t, ZenonT(60) DEF OneReporter
  <2>2. ~HasRetry(f)' /\ OneRetry(f)'
    BY <2>1, <1>0, ZenonT(60) DEF HasRetry, OneRetry
  <2>3. \/ radios = {} /\ ~HasCookie(mSequenceNumberCookies', f) /\ OneCookie(mSequenceNumberCookies', f)
        \/ f \notin remote' /\ OneCookie(mSequenceNumberCookies', f)
    <3>1. CASE radios = {}
      BY <3>1, <1>5, <2>1, ZenonT(60) DEF HasCookie, OneCookie
    <3>2. CASE radios # {}
      BY <3>2, <1>4, <1>5, <1>10, <2>1, ZenonT(60)
    <3> QED
      BY <3>1, <3>2
  <2> QED
    BY <2>1, <2>2, <2>3, <1>0, ZenonT(60) DEF OneReporter
<1> QED
  BY <1>5, <1>8, <1>9, <1>10, ZenonT(60) DEF FwInv

LEMMA StepTypes ==
  ASSUME FwInv
  PROVE  /\ WifiTypes /\ ForwarderTypeOK /\ CookieCache(mSequenceNumberCookies)
         /\ AnswersMatch(mSequenceNumberCookies)
         /\ \A g \in Unicast : g \in Frames /\ OneReporter(g)
         /\ reports \in [Unicast -> {<<>>, <<TRUE>>, <<FALSE>>}]
  BY ZenonT(60) DEF FwInv, WifiTypes, Unicast

\* An answer of the kernel is read: its sequence number stands for its frame, and
\* no other does.
LEMMA Answered ==
  ASSUME FwInv, netlink # <<>>, answerRead
  PROVE  /\ answer \in Range(netlink)
         /\ netlink' \in Seq(Range(netlink')) /\ Range(netlink') \subseteq Range(netlink)
         /\ answer.seq \in DOMAIN mSequenceNumberCookies => cookieOf(answer.seq) = answer.id
  BY AnswerTaken DEF answerRead, answer, cookieOf, FwInv, WifiTypes, AnswersMatch

LEMMA Forgotten ==
  ASSUME FwInv, netlink # <<>>, answerRead,
         mSequenceNumberCookies' = Without(mSequenceNumberCookies, {answer.seq})
  PROVE  /\ CookieCache(mSequenceNumberCookies') /\ AnswersMatch(mSequenceNumberCookies)'
         /\ \A g \in Unicast :
              /\ HasCookie(mSequenceNumberCookies', g) => HasCookie(mSequenceNumberCookies, g)
              /\ OneCookie(mSequenceNumberCookies', g)
              /\ answer.seq \in DOMAIN mSequenceNumberCookies /\ cookieOf(answer.seq) = g =>
                   /\ HasCookie(mSequenceNumberCookies, g)
                   /\ ~HasCookie(mSequenceNumberCookies', g)
<1> DEFINE cookies == mSequenceNumberCookies
           after == mSequenceNumberCookies'
<1>1. /\ DOMAIN after = DOMAIN cookies \ {answer.seq}
      /\ \A n \in DOMAIN after : after[n] = cookies[n]
  BY DEF Without
<1>2. CookieCache(after)
  BY <1>1, StepTypes, ZenonT(60) DEF CookieCache
<1>3. AnswersMatch(mSequenceNumberCookies)'
  BY <1>1, StepTypes, Answered, ZenonT(60) DEF AnswersMatch
<1>4. ASSUME NEW g \in Unicast
      PROVE  /\ HasCookie(after, g) => HasCookie(cookies, g)
             /\ OneCookie(after, g)
             /\ answer.seq \in DOMAIN cookies /\ cookieOf(answer.seq) = g =>
                  HasCookie(cookies, g) /\ ~HasCookie(after, g)
  <2>1. OneCookie(cookies, g)
    BY StepTypes, ZenonT(60) DEF OneReporter
  <2> QED
    BY <1>1, <2>1, ZenonT(60) DEF HasCookie, OneCookie, cookieOf
<1> QED
  BY <1>2, <1>3, <1>4, ZenonT(60)

\* What report does.
LEMMA Reported ==
  ASSUME FwInv, NEW f \in Frames, NEW success \in BOOLEAN, report(f, success),
         f \in Unicast => reports[f] = <<>>
  PROVE  /\ reports' \in [Unicast -> {<<>>, <<TRUE>>, <<FALSE>>}]
         /\ \A g \in Unicast \ {f} : reports'[g] = reports[g]
         /\ f \in Unicast => reports'[f] = <<success>>
<1>1. Append(<<>>, success) = <<success>>
  OBVIOUS
<1>2. /\ \A g \in Unicast \ {f} : reports'[g] = reports[g]
      /\ f \in Unicast => reports'[f] = <<success>>
      /\ DOMAIN reports' = Unicast
  BY <1>1, ZenonT(60) DEF report
<1>3. <<success>> \in {<<TRUE>>, <<FALSE>>}
  BY ZenonT(60)
<1>4. \A g \in Unicast : reports'[g] \in {<<>>, <<TRUE>>, <<FALSE>>}
  BY <1>2, <1>3, StepTypes, ZenonT(60)
<1>5. reports' = [g \in Unicast |-> reports'[g]]
  BY DEF report
<1> QED
  BY <1>2, <1>4, <1>5, ZenonT(60)

\* Reports of these kinds have their type.
LEMMA ReportTypes ==
  ASSUME NEW r \in [Unicast -> {<<>>, <<TRUE>>, <<FALSE>>}], NEW f \in Unicast,
         NEW i \in DOMAIN r[f]
  PROVE  r[f][i] \in BOOLEAN
<1>1. r[f] \in {<<>>, <<TRUE>>, <<FALSE>>}
  BY ZenonT(60)
<1>2. <<>> \in Seq(BOOLEAN) /\ <<TRUE>> \in Seq(BOOLEAN) /\ <<FALSE>> \in Seq(BOOLEAN)
  OBVIOUS
<1>3. r[f] \in Seq(BOOLEAN)
  BY <1>1, <1>2, ZenonT(60)
<1> QED
  BY <1>3

LEMMA LostKeeps == ASSUME FwInv, lostAnswer PROVE FwInv'
<1> USE DEF lostAnswer
<1>1. netlink' \in Seq(Range(netlink')) /\ Range(netlink') \subseteq Range(netlink)
  BY Answered, ZenonT(60)
<1>2. ForwarderTypeOK'
  BY StepTypes DEF ForwarderTypeOK
<1>3. WifiTypes'
  BY <1>1, <1>2, StepTypes, ZenonT(60) DEF WifiTypes
<1>4. AnswersMatch(mSequenceNumberCookies)'
  BY <1>1, StepTypes, ZenonT(60) DEF AnswersMatch
<1>5. ASSUME NEW g \in Unicast PROVE OneReporter(g)'
  BY StepTypes, ZenonT(60) DEF OneReporter, HasRetry, OneRetry
<1> QED
  BY <1>3, <1>4, <1>5, ZenonT(60) DEF FwInv

LEMMA AckKeeps == ASSUME FwInv, onAck PROVE FwInv'
<1>0. /\ netlink # <<>> /\ answerRead
      /\ accepted' = accepted \cup ({answer.id} \cap Unicast)
      /\ mSequenceNumberCookies' = Without(mSequenceNumberCookies, {answer.seq})
      /\ UNCHANGED <<mPipeFd, mRadios, mRetryQueue, remote, unsent>>
  BY ZenonT(60) DEF onAck, taken
<1>1. netlink' \in Seq(Range(netlink')) /\ Range(netlink') \subseteq Range(netlink)
  BY <1>0, Answered
<1>2. /\ CookieCache(mSequenceNumberCookies') /\ AnswersMatch(mSequenceNumberCookies)'
      /\ \A g \in Unicast :
           /\ HasCookie(mSequenceNumberCookies', g) => HasCookie(mSequenceNumberCookies, g)
           /\ OneCookie(mSequenceNumberCookies', g)
           /\ answer.seq \in DOMAIN mSequenceNumberCookies /\ cookieOf(answer.seq) = g =>
                /\ HasCookie(mSequenceNumberCookies, g)
                /\ ~HasCookie(mSequenceNumberCookies', g)
  BY <1>0, Forgotten, ZenonT(60)
<1>3. DOMAIN mPendingFrames' \subseteq Frames
  <2>1. DOMAIN mPendingFrames' \subseteq DOMAIN mPendingFrames
    BY ZenonT(60) DEF onAck, Without
  <2> QED
    BY <2>1, StepTypes DEF ForwarderTypeOK
<1>4. /\ reports' \in [Unicast -> {<<>>, <<TRUE>>, <<FALSE>>}]
      /\ \A g \in Unicast :
           \/ reports'[g] = reports[g]
           \/ /\ answer.seq \in DOMAIN mSequenceNumberCookies /\ cookieOf(answer.seq) = g
              /\ g \in accepted'
  <2>1. CASE /\ answer.seq \in DOMAIN mSequenceNumberCookies
             /\ cookieOf(answer.seq) \in DOMAIN mPendingFrames
    <3> DEFINE id == cookieOf(answer.seq)
    <3>1. report(id, TRUE) /\ id \in Frames
      BY <2>1, StepTypes, ZenonT(60) DEF onAck, ForwarderTypeOK
    <3>2. id \in Unicast => reports[id] = <<>>
      BY <1>2, <2>1, StepTypes, ZenonT(60) DEF OneReporter
    <3>3. id = answer.id
      BY <1>0, <2>1, Answered
    <3> HIDE DEF id
    <3>4. /\ reports' \in [Unicast -> {<<>>, <<TRUE>>, <<FALSE>>}]
          /\ \A g \in Unicast \ {id} : reports'[g] = reports[g]
      BY <3>1, <3>2, Reported, ZenonT(60)
    <3> QED
      BY <1>0, <2>1, <3>3, <3>4, ZenonT(60) DEF id
  <2>2. CASE ~(/\ answer.seq \in DOMAIN mSequenceNumberCookies
               /\ cookieOf(answer.seq) \in DOMAIN mPendingFrames)
    BY <2>2, StepTypes, ZenonT(60) DEF onAck
  <2> QED
    BY <2>1, <2>2, ZenonT(60)
<1>5. ForwarderTypeOK'
  BY <1>0, <1>2, <1>3, <1>4, StepTypes, ReportTypes, ZenonT(60) DEF ForwarderTypeOK, CookieCache
<1>6. WifiTypes'
  BY <1>0, <1>1, <1>2, <1>4, <1>5, StepTypes, ZenonT(60) DEF WifiTypes
<1>7. ASSUME NEW g \in Unicast PROVE OneReporter(g)'
  <2>1. (HasRetry(g)' <=> HasRetry(g)) /\ (OneRetry(g)' <=> OneRetry(g))
    BY <1>0 DEF HasRetry, OneRetry
  <2>2. CASE reports'[g] = reports[g]
    BY <1>0, <1>2, <2>1, <2>2, StepTypes, ZenonT(60) DEF OneReporter
  <2>3. CASE reports'[g] # reports[g]
    BY <1>0, <1>2, <1>4, <2>1, <2>3, StepTypes, ZenonT(60) DEF OneReporter
  <2> QED
    BY <2>2, <2>3, ZenonT(60)
<1> QED
  BY <1>2, <1>6, <1>7, ZenonT(60) DEF FwInv

LEMMA ErrorKeeps == ASSUME FwInv, onError PROVE FwInv'
<1>0. /\ netlink # <<>> /\ answerRead
      /\ mSequenceNumberCookies' = Without(mSequenceNumberCookies, {answer.seq})
      /\ UNCHANGED <<mPipeFd, mRadios, remote, unsent, accepted>>
  BY ZenonT(60) DEF onError
<1>1. netlink' \in Seq(Range(netlink')) /\ Range(netlink') \subseteq Range(netlink)
  BY <1>0, Answered
<1>2. /\ CookieCache(mSequenceNumberCookies') /\ AnswersMatch(mSequenceNumberCookies)'
      /\ \A g \in Unicast :
           /\ HasCookie(mSequenceNumberCookies', g) => HasCookie(mSequenceNumberCookies, g)
           /\ OneCookie(mSequenceNumberCookies', g)
           /\ answer.seq \in DOMAIN mSequenceNumberCookies /\ cookieOf(answer.seq) = g =>
                /\ HasCookie(mSequenceNumberCookies, g)
                /\ ~HasCookie(mSequenceNumberCookies', g)
  BY <1>0, Forgotten, ZenonT(60)
<1> DEFINE id == cookieOf(answer.seq)
           handled == answer.seq \in DOMAIN mSequenceNumberCookies /\ id \in DOMAIN mPendingFrames
<1>3. ASSUME handled
      PROVE  /\ id \in Frames
             /\ id \in Unicast =>
                  /\ ~HasCookie(mSequenceNumberCookies', id)
                  /\ ~HasRetry(id) /\ id \notin remote /\ id \notin unsent
                  /\ reports[id] = <<>>
  <2>1. id \in Frames
    BY <1>3, StepTypes, ZenonT(60) DEF ForwarderTypeOK
  <2> QED
    BY <2>1, <1>2, <1>3, StepTypes, ZenonT(60) DEF OneReporter
<1>4. ASSUME handled, ~hasRemainingAttempts(id, mPendingFrames[id])
      PROVE  FwInv'
  <2>0. /\ report(id, FALSE) /\ mRetryQueue' = mRetryQueue
        /\ mPendingFrames' = Without(mPendingFrames, {id})
    BY <1>4, ZenonT(60) DEF onError, failedFrame
  <2>1. /\ reports' \in [Unicast -> {<<>>, <<TRUE>>, <<FALSE>>}]
        /\ \A g \in Unicast \ {id} : reports'[g] = reports[g]
        /\ id \in Unicast => reports'[id] = <<FALSE>>
    <3> HIDE DEF id
    <3>1. FALSE \in BOOLEAN
      BY ZenonT(60)
    <3> QED
      BY <1>3, <1>4, <2>0, <3>1, Reported, ZenonT(60)
  <2>2. DOMAIN mPendingFrames' \subseteq Frames
    BY <2>0, StepTypes, ZenonT(60) DEF Without, ForwarderTypeOK
  <2>3. ForwarderTypeOK'
    BY <1>0, <1>2, <2>1, <2>2, StepTypes, ReportTypes, ZenonT(60) DEF ForwarderTypeOK, CookieCache
  <2>4. WifiTypes'
    BY <1>0, <1>1, <1>2, <2>0, <2>1, <2>3, StepTypes, ZenonT(60) DEF WifiTypes
  <2>5. ASSUME NEW g \in Unicast PROVE OneReporter(g)'
    <3>1. (HasRetry(g)' <=> HasRetry(g)) /\ (OneRetry(g)' <=> OneRetry(g))
      BY <2>0 DEF HasRetry, OneRetry
    <3> HIDE DEF id
    <3>2. CASE g # id
      BY <1>0, <1>2, <2>1, <3>1, <3>2, StepTypes, ZenonT(60) DEF OneReporter
    <3>3. CASE g = id
      <4>1. <<FALSE>> # <<TRUE>>
        OBVIOUS
      <4> QED
        BY <1>0, <1>2, <1>3, <1>4, <2>1, <3>1, <3>3, <4>1, StepTypes, ZenonT(60) DEF OneReporter
    <3> QED
      BY <3>2, <3>3
  <2> QED
    BY <1>2, <2>4, <2>5, SMTT(60) DEF FwInv
<1>5. ASSUME handled, hasRemainingAttempts(id, mPendingFrames[id])
      PROVE  FwInv'
  <2> DEFINE w == mPendingFrames[id].window
  <2>0. /\ reports' = reports /\ mRetryQueue' = mRetryQueue \cup {[left |-> w, id |-> id]}
        /\ DOMAIN mPendingFrames' = DOMAIN mPendingFrames
    BY <1>5 DEF onError, failedFrame, retryLater
  <2> HIDE DEF id, w
  <2>1. IsFiniteSet(mRetryQueue')
    BY <2>0, StepTypes, FS_AddElement, ZenonT(60) DEF WifiTypes
  <2>2. \A r \in mRetryQueue' : r.id \in Frames /\ r = [left |-> r.left, id |-> r.id]
    <3>1. ASSUME NEW r, r = [left |-> w, id |-> id]
          PROVE  r.id \in Frames /\ r = [left |-> r.left, id |-> r.id]
      BY <3>1, <1>3, <1>5
    <3> QED
      BY <2>0, <3>1, StepTypes, ZenonT(60) DEF WifiTypes
  <2>3. ForwarderTypeOK'
    BY <1>0, <1>2, <2>0, StepTypes, ZenonT(60) DEF ForwarderTypeOK, CookieCache
  <2>4. WifiTypes'
    BY <1>0, <1>1, <1>2, <2>0, <2>1, <2>2, <2>3, StepTypes, ZenonT(60) DEF WifiTypes
  <2>5. ASSUME NEW g \in Unicast PROVE OneReporter(g)'
    <3>1. ASSUME NEW r, r = [left |-> w, id |-> id] PROVE r.id = id
      BY <3>1
    <3>2. CASE g # id
      <4>1. (HasRetry(g)' <=> HasRetry(g)) /\ (OneRetry(g)' <=> OneRetry(g))
        BY <2>0, <3>1, <3>2 DEF HasRetry, OneRetry
      <4> QED
        BY <1>0, <1>2, <2>0, <3>2, <4>1, StepTypes, ZenonT(60) DEF OneReporter
    <3>3. CASE g = id
      <4>1. OneRetry(g)'
        BY <1>3, <1>5, <2>0, <3>3, ZenonT(60) DEF HasRetry, OneRetry
      <4> QED
        BY <1>0, <1>2, <1>3, <1>5, <2>0, <3>3, <4>1, StepTypes, ZenonT(60) DEF OneReporter
    <3> QED
      BY <3>2, <3>3
  <2> QED
    BY <1>2, <2>4, <2>5, SMTT(60) DEF FwInv
<1>6. ASSUME ~handled PROVE FwInv'
  <2>0. UNCHANGED <<mPendingFrames, mRetryQueue, reports>>
    BY <1>6 DEF onError
  <2>3. ForwarderTypeOK'
    BY <1>0, <1>2, <2>0, StepTypes, ZenonT(60) DEF ForwarderTypeOK, CookieCache
  <2>4. WifiTypes'
    BY <1>0, <1>1, <1>2, <2>0, <2>3, StepTypes, ZenonT(60) DEF WifiTypes
  <2>5. ASSUME NEW g \in Unicast PROVE OneReporter(g)'
    <3>1. (HasRetry(g)' <=> HasRetry(g)) /\ (OneRetry(g)' <=> OneRetry(g))
      BY <2>0 DEF HasRetry, OneRetry
    <3> QED
      BY <1>0, <1>2, <2>0, <3>1, StepTypes, ZenonT(60) DEF OneReporter
  <2> QED
    BY <1>2, <2>4, <2>5, SMTT(60) DEF FwInv
<1> QED
  BY <1>4, <1>5, <1>6, ZenonT(60)

LEMMA RemoteKeeps == ASSUME FwInv, remoteAck PROVE FwInv'
<1>0. PICK f \in remote, success \in BOOLEAN :
        /\ remote' = remote \ {f} /\ report(f, success)
        /\ IF success THEN taken(f) ELSE UNCHANGED accepted
        /\ mPendingFrames' = IF onAckForgets(f)
                             THEN Without(mPendingFrames, {f}) ELSE mPendingFrames
  BY ZenonT(60) DEF remoteAck
<1>1. UNCHANGED <<mPipeFd, mRadios, mSequenceNumberCookies, mRetryQueue, netlink, unsent>>
  BY ZenonT(60) DEF remoteAck
<1>2. f \in Frames
  BY StepTypes, ZenonT(60) DEF ForwarderTypeOK
<1>3. f \in Unicast => reports[f] = <<>>
  BY StepTypes, ZenonT(60) DEF OneReporter
<1>4. /\ reports' \in [Unicast -> {<<>>, <<TRUE>>, <<FALSE>>}]
      /\ \A g \in Unicast \ {f} : reports'[g] = reports[g]
      /\ f \in Unicast => reports'[f] = <<success>>
  BY <1>0, <1>2, <1>3, Reported, ZenonT(60)
<1>5. accepted \subseteq accepted' /\ (success /\ f \in Unicast => f \in accepted')
  BY <1>0 DEF taken
<1>6. DOMAIN mPendingFrames' \subseteq Frames
  BY <1>0, StepTypes DEF Without, ForwarderTypeOK
<1>7. ForwarderTypeOK'
  BY <1>0, <1>1, <1>4, <1>6, StepTypes, ReportTypes, ZenonT(60) DEF ForwarderTypeOK
<1>8. WifiTypes'
  BY <1>1, <1>4, <1>7, StepTypes, ZenonT(60) DEF WifiTypes
<1>9. AnswersMatch(mSequenceNumberCookies)'
  BY <1>1, StepTypes DEF AnswersMatch
<1>10. ASSUME NEW g \in Unicast PROVE OneReporter(g)'
  <2>1. (HasRetry(g)' <=> HasRetry(g)) /\ (OneRetry(g)' <=> OneRetry(g))
    BY <1>1 DEF HasRetry, OneRetry
  <2>2. CASE g # f
    BY <1>0, <1>1, <1>4, <1>5, <2>1, <2>2, StepTypes, ZenonT(60) DEF OneReporter
  <2>3. CASE g = f
    <3>1. <<success>> = <<TRUE>> => success
      OBVIOUS
    <3> QED
      BY <1>0, <1>1, <1>4, <1>5, <2>1, <2>3, <3>1, StepTypes, ZenonT(60) DEF OneReporter
  <2> QED
    BY <2>2, <2>3
<1> QED
  BY <1>8, <1>9, <1>10 DEF FwInv

\* The retries that are due become messages, one each.
LEMMA Retried ==
  ASSUME FwInv, NEW pending, NEW cookies, DOMAIN pending \subseteq Frames,
         CookieCache(cookies), AnswersMatch(cookies),
         \A g \in Unicast :
           /\ HasCookie(cookies, g) => HasCookie(mSequenceNumberCookies, g)
           /\ OneCookie(cookies, g),
         retryFrames(pending, cookies)
  PROVE  /\ CookieCache(mSequenceNumberCookies') /\ AnswersMatch(mSequenceNumberCookies)'
         /\ netlink' \in Seq(Range(netlink')) /\ DOMAIN mPendingFrames' \subseteq Frames
         /\ \A g \in Unicast :
              /\ HasCookie(mSequenceNumberCookies', g) =>
                   HasCookie(mSequenceNumberCookies, g) \/ HasRetry(g)
              /\ OneCookie(mSequenceNumberCookies', g)
<1> DEFINE due == {r \in mRetryQueue : r.id \in DOMAIN pending}
<1>0. PICK built \in SUBSET due :
        \E order \in Bijection(1..Cardinality(built), built) :
          transferFrames(
            Without(pending, {r.id : r \in due \ built}), cookies,
            [id \in {r.id : r \in built} \ {r.id : r \in due \ built} |->
               [pending[id] EXCEPT
                  !.age = 0,
                  !.attempts = incrementAttempts(id, @, Cardinality({r \in built : r.id = id}))]],
            [i \in 1..Cardinality(built) |->
               [id |-> order[i].id, dest |-> pending[order[i].id].dest]])
  BY ZenonT(60) DEF retryFrames
<1> DEFINE dropped == {r.id : r \in due \ built}
           left == Without(pending, dropped)
           k == Cardinality(built)
           times(id) == Cardinality({r \in built : r.id = id})
<1>1. k \in Nat
  <2>1. built \in SUBSET mRetryQueue /\ IsFiniteSet(mRetryQueue)
    BY StepTypes, ZenonT(60) DEF WifiTypes
  <2>2. IsFiniteSet(built)
    BY <2>1, FS_Subset
  <2> QED
    BY <2>2, FS_CardinalityType, ZenonT(60)
<1>2. PICK order \in Bijection(1..k, built) :
        transferFrames(
          left, cookies,
          [id \in {r.id : r \in built} \ dropped |->
             [pending[id] EXCEPT !.age = 0,
                                 !.attempts = incrementAttempts(id, @, times(id))]],
          [i \in 1..k |-> [id |-> order[i].id, dest |-> pending[order[i].id].dest]])
  BY <1>0, ZenonT(60)
<1>3. /\ \A i \in 1..k : order[i] \in built
      /\ \A i, j \in 1..k : order[i] = order[j] => i = j
  <2> HIDE DEF due, dropped, left, k
  <2> QED
    BY ZenonT(60) DEF Bijection, Injection, Surjection, IsInjective
<1> DEFINE messages == [i \in 1..k |-> [id |-> order[i].id, dest |-> pending[order[i].id].dest]]
           entries == [id \in {r.id : r \in built} \ dropped |->
                         [pending[id] EXCEPT !.age = 0,
                            !.attempts = incrementAttempts(id, @, times(id))]]
<1>4. Len(messages) = k /\ \A i \in 1..k : messages[i].id = order[i].id
  <2> HIDE DEF due, dropped, left, k
  <2> QED
    BY <1>1
<1>5. DOMAIN entries \subseteq Frames
  <2>1. DOMAIN entries = {r.id : r \in built} \ dropped
    <3> HIDE DEF due, dropped, k, times
    <3> QED
      OBVIOUS
  <2>2. \A r \in built : r.id \in Frames
    BY ZenonT(60)
  <2> HIDE DEF entries, dropped
  <2> QED
    BY <2>1, <2>2, ZenonT(60)
<1>d. DOMAIN left \subseteq Frames
  BY ZenonT(60) DEF Without
<1>6. transferFrames(left, cookies, entries, messages)
  BY <1>2, ZenonT(60)
<1>7. ASSUME NEW i \in 1..k
      PROVE  order[i] \in mRetryQueue /\ order[i].id \in Frames
  BY <1>3, ZenonT(60)
<1> HIDE DEF due, dropped, left, k, times, messages, entries
<1>8. Len(messages) \in Nat /\ \A i \in 1..Len(messages) : messages[i].id \in Frames
  BY <1>1, <1>4, <1>7, ZenonT(60)
<1>9. /\ CookieCache(mSequenceNumberCookies') /\ AnswersMatch(mSequenceNumberCookies)'
      /\ netlink' \in Seq(Range(netlink'))
      /\ DOMAIN mPendingFrames' = DOMAIN left \cup DOMAIN entries
      /\ Numbered(cookies, mSequenceNumberCookies', messages)
  BY <1>6, <1>8, StepTypes, Transferred, ZenonT(60)
<1>10. ASSUME NEW g \in Unicast
       PROVE  /\ HasCookie(mSequenceNumberCookies', g) =>
                   HasCookie(mSequenceNumberCookies, g) \/ HasRetry(g)
              /\ OneCookie(mSequenceNumberCookies', g)
  <2>1. \A i \in 1..k : messages[i].id = g => HasRetry(g)
    BY <1>4, <1>7, ZenonT(60) DEF HasRetry
  <2>2. \A i, j \in 1..k : messages[i].id = g /\ messages[j].id = g => i = j
    <3>1. OneRetry(g)
      BY StepTypes, ZenonT(60) DEF OneReporter
    <3> QED
      BY <3>1, <1>3, <1>4, <1>7 DEF OneRetry
  <2>3. HasCookie(mSequenceNumberCookies, g) => ~HasRetry(g)
    BY StepTypes, ZenonT(60) DEF OneReporter
  <2>4. g \in Frames
    BY StepTypes
  <2> QED
    BY <1>4, <1>9, <2>1, <2>2, <2>3, <2>4, ZenonT(60) DEF Numbered
<1> QED
  BY <1>5, <1>d, <1>9, <1>10, ZenonT(60)

LEMMA TimeoutKeeps == ASSUME FwInv, onTimeout PROVE FwInv'
<1> DEFINE pending == cachesAfter(mPendingFrames)
           cookies == cachesAfter(mSequenceNumberCookies)
<1>0. /\ UNCHANGED <<mPipeFd, mRadios, remote, unsent, reports, accepted>>
      /\ IF retriesDue
         THEN retryFrames(pending, cookies) /\ mRetryQueue' = {}
         ELSE /\ mPendingFrames' = pending /\ mSequenceNumberCookies' = cookies
              /\ UNCHANGED <<netlink, mRetryQueue>>
  BY ZenonT(60) DEF onTimeout
<1>1. DOMAIN pending \subseteq Frames
  BY CachesKeep, StepTypes, ZenonT(60) DEF ForwarderTypeOK
<1>2. /\ DOMAIN cookies \subseteq DOMAIN mSequenceNumberCookies /\ CookieCache(cookies)
      /\ \A n \in DOMAIN cookies : cookies[n].id = mSequenceNumberCookies[n].id
  BY CachesKeep, StepTypes
<1> HIDE DEF pending, cookies
<1>3. /\ AnswersMatch(cookies)
      /\ \A g \in Unicast :
           /\ HasCookie(cookies, g) => HasCookie(mSequenceNumberCookies, g)
           /\ OneCookie(cookies, g)
  BY <1>2, FewerCookies, StepTypes, ZenonT(60) DEF OneReporter
<1>4. CASE retriesDue
  <2>1. /\ CookieCache(mSequenceNumberCookies') /\ AnswersMatch(mSequenceNumberCookies)'
        /\ netlink' \in Seq(Range(netlink')) /\ DOMAIN mPendingFrames' \subseteq Frames
        /\ \A g \in Unicast :
             /\ HasCookie(mSequenceNumberCookies', g) =>
                  HasCookie(mSequenceNumberCookies, g) \/ HasRetry(g)
             /\ OneCookie(mSequenceNumberCookies', g)
    BY <1>0, <1>1, <1>2, <1>3, <1>4, Retried, ZenonT(60)
  <2>2. mRetryQueue' = {} /\ IsFiniteSet(mRetryQueue')
    BY <1>0, <1>4, FS_EmptySet
  <2>3. ForwarderTypeOK'
    BY <1>0, <2>1, StepTypes, ZenonT(60) DEF ForwarderTypeOK, CookieCache
  <2>4. WifiTypes'
    BY <1>0, <2>1, <2>2, <2>3, StepTypes, ZenonT(60) DEF WifiTypes
  <2>5. ASSUME NEW g \in Unicast PROVE OneReporter(g)'
    <3>1. ~HasRetry(g)' /\ OneRetry(g)'
      BY <2>2 DEF HasRetry, OneRetry
    <3> QED
      BY <1>0, <2>1, <3>1, StepTypes, ZenonT(60) DEF OneReporter
  <2> QED
    BY <2>1, <2>4, <2>5, ZenonT(60) DEF FwInv
<1>5. CASE ~retriesDue
  <2>1. /\ mPendingFrames' = pending /\ mSequenceNumberCookies' = cookies
        /\ netlink' = netlink /\ mRetryQueue' = mRetryQueue
    BY <1>0, <1>5, ZenonT(60)
  <2>2. AnswersMatch(mSequenceNumberCookies)'
    BY <1>3, <2>1, ZenonT(60) DEF AnswersMatch
  <2>3. ForwarderTypeOK'
    BY <1>0, <1>1, <1>2, <2>1, StepTypes DEF ForwarderTypeOK, CookieCache
  <2>4. WifiTypes'
    BY <1>0, <1>2, <2>1, <2>3, StepTypes, ZenonT(60) DEF WifiTypes
  <2>5. ASSUME NEW g \in Unicast PROVE OneReporter(g)'
    <3>1. (HasRetry(g)' <=> HasRetry(g)) /\ (OneRetry(g)' <=> OneRetry(g))
      BY <2>1 DEF HasRetry, OneRetry
    <3> QED
      BY <1>0, <1>3, <2>1, <3>1, StepTypes, ZenonT(60) DEF OneReporter
  <2> QED
    BY <2>2, <2>4, <2>5, ZenonT(60) DEF FwInv
<1> QED
  BY <1>4, <1>5, ZenonT(60)

LEMMA PollKeeps == ASSUME FwInv, pollTick PROVE FwInv'
<1> DEFINE sooner == [r \in mRetryQueue |-> [r EXCEPT !.left = @ - 1]]
<1>0. /\ mRetryQueue' = {sooner[r] : r \in mRetryQueue}
      /\ UNCHANGED <<mPipeFd, mRadios, mPendingFrames, mSequenceNumberCookies,
                     netlink, remote, unsent, reports, accepted>>
  BY DEF pollTick
<1>1. ASSUME NEW r \in mRetryQueue
      PROVE  /\ sooner[r].id = r.id /\ r.id \in Frames
             /\ sooner[r] = [left |-> sooner[r].left, id |-> sooner[r].id]
  <2>1. r = [left |-> r.left, id |-> r.id] /\ r.id \in Frames
    BY StepTypes DEF WifiTypes
  <2>2. sooner[r] = [left |-> r.left - 1, id |-> r.id]
    BY <2>1
  <2> HIDE DEF sooner
  <2> QED
    BY <2>1, <2>2, SMTT(60)
<1>2. DOMAIN sooner = mRetryQueue
  OBVIOUS
<1>s. sooner = [r \in mRetryQueue |-> sooner[r]]
  OBVIOUS
<1> HIDE DEF sooner
<1>3. IsFiniteSet(mRetryQueue')
  <2>1. sooner \in Surjection(mRetryQueue, mRetryQueue')
    BY <1>0, <1>2, <1>s, ZenonT(60) DEF Surjection
  <2>2. IsFiniteSet(mRetryQueue)
    BY StepTypes DEF WifiTypes
  <2> QED
    BY <2>1, <2>2, FS_Surjection, ZenonT(60)
<1>4. \A r \in mRetryQueue' : r.id \in Frames /\ r = [left |-> r.left, id |-> r.id]
  BY <1>0, <1>1, ZenonT(60)
<1>9. ASSUME NEW q \in mRetryQueue'
      PROVE  \E r \in mRetryQueue : q = sooner[r] /\ q.id = r.id
  <2>1. PICK r \in mRetryQueue : q = sooner[r]
    BY <1>0
  <2> QED
    BY <2>1, <1>1, ZenonT(60)
<1>10. ASSUME NEW r \in mRetryQueue
       PROVE  sooner[r] \in mRetryQueue' /\ sooner[r].id = r.id
  <2>1. sooner[r] \in mRetryQueue'
    BY <1>0, ZenonT(60)
  <2> QED
    BY <2>1, <1>1, ZenonT(60)
<1>5. ForwarderTypeOK'
  BY <1>0, StepTypes DEF ForwarderTypeOK
<1>6. WifiTypes'
  BY <1>0, <1>3, <1>4, <1>5, StepTypes, ZenonT(60) DEF WifiTypes
<1>7. AnswersMatch(mSequenceNumberCookies)'
  BY <1>0, StepTypes DEF AnswersMatch
<1>8. ASSUME NEW g \in Unicast PROVE OneReporter(g)'
  <2>1. HasRetry(g)' <=> HasRetry(g)
    BY <1>9, <1>10 DEF HasRetry
  <2>2. OneRetry(g) => OneRetry(g)'
    BY <1>9 DEF OneRetry
  <2> QED
    BY <1>0, <2>1, <2>2, StepTypes, ZenonT(60) DEF OneReporter
<1> QED
  BY <1>6, <1>7, <1>8 DEF FwInv

\* The service starts again with nothing to report.
LEMMA RestartKeeps == ASSUME FwInv, exitAndRestart PROVE FwInv'
<1> USE DEF exitAndRestart, started
<1>1. /\ DOMAIN Nothing = {} /\ Range(<<>>) = {} /\ <<>> \in Seq({})
  BY DEF Nothing, Range
<1>2. ForwarderTypeOK'
  BY <1>1, StepTypes, ZenonT(60) DEF ForwarderTypeOK
<1>3. /\ IsFiniteSet(mRetryQueue') /\ IsFiniteSet(DOMAIN mRadios')
      /\ CookieCache(mSequenceNumberCookies') /\ netlink' \in Seq(Range(netlink'))
  BY <1>1, FS_EmptySet, ZenonT(60) DEF CookieCache
<1>4. WifiTypes'
  BY <1>2, <1>3, StepTypes, ZenonT(60) DEF WifiTypes
<1> QED
  BY <1>1, <1>4, StepTypes, ZenonT(60)
  DEF FwInv, AnswersMatch, OneReporter, OneCookie, HasCookie, OneRetry, HasRetry

LEMMA SameFwInv ==
  ASSUME FwInv, UNCHANGED <<mPipeFd, mRadios, local, remote, unsent, reports, accepted>>
         \/ (mPipeFd' \in BOOLEAN
             /\ UNCHANGED <<mRadios, local, remote, unsent, reports, accepted>>)
  PROVE  FwInv'
<1>1. /\ mPipeFd' \in BOOLEAN /\ UNCHANGED <<mRadios, remote, unsent, reports, accepted>>
      /\ UNCHANGED <<mPendingFrames, mSequenceNumberCookies, mRetryQueue, netlink>>
  BY StepTypes, SMTT(60) DEF ForwarderTypeOK, local
<1>2. ForwarderTypeOK'
  BY <1>1, StepTypes, ZenonT(60) DEF ForwarderTypeOK
<1>3. WifiTypes'
  BY <1>1, <1>2, StepTypes, ZenonT(60) DEF WifiTypes
<1>4. AnswersMatch(mSequenceNumberCookies)'
  BY <1>1, StepTypes, ZenonT(60) DEF AnswersMatch
<1>5. ASSUME NEW g \in Unicast PROVE OneReporter(g)'
  BY <1>1, StepTypes, ZenonT(60) DEF OneReporter, HasRetry, OneRetry
<1> QED
  BY <1>3, <1>4, <1>5, ZenonT(60) DEF FwInv

LEMMA StepFwInv == FwInv /\ [ForwarderNext]_wifiVars => FwInv'
<1> SUFFICES ASSUME FwInv, [ForwarderNext]_wifiVars PROVE FwInv'
  OBVIOUS
<1>1. CASE init
  <2>1. mPipeFd' \in BOOLEAN /\ UNCHANGED <<mRadios, local, remote, unsent, reports, accepted>>
    BY <1>1, StepTypes, ZenonT(60) DEF init, ForwarderTypeOK
  <2> QED
    BY <2>1, SameFwInv
<1>2. CASE exitAndRestart
  BY <1>2, RestartKeeps
<1>3. CASE receiveFrame
  BY <1>3, ForwardKeeps, ZenonT(60) DEF receiveFrame
<1>4. CASE lostAnswer
  BY <1>4, LostKeeps
<1>5. CASE onAck
  BY <1>5, AckKeeps
<1>6. CASE onError
  BY <1>6, ErrorKeeps
<1>7. CASE remoteAck
  BY <1>7, RemoteKeeps
<1>8. CASE onTimeout
  BY <1>8, TimeoutKeeps
<1>9. CASE pollTick
  BY <1>9, PollKeeps
<1>10. CASE UNCHANGED wifiVars
  <2>1. UNCHANGED <<mPipeFd, mRadios, local, remote, unsent, reports, accepted>>
    BY <1>10 DEF wifiVars
  <2> QED
    BY <2>1, SameFwInv, ZenonT(60)
<1> QED
  BY <1>1, <1>2, <1>3, <1>4, <1>5, <1>6, <1>7, <1>8, <1>9, <1>10, ZenonT(60) DEF ForwarderNext

\* However many radios, frames, answers and restarts there are, the transmitter of a
\* unicast frame hears of its outcome once at most, and of success only when the
\* frame was taken (WifiForwarder::onAck, LocalConnection::onAck and onError).
THEOREM ReportedAtMostOnce == ForwarderSpec => []UnicastReportedOnce
<1>1. FwInv => UnicastReportedOnce
  BY FwInvReported, ZenonT(60)
<1> QED
  BY <1>1, InitFwInv, StepFwInv, PTL DEF ForwarderSpec

\* The caches, the retry queue and the reports keep their types.
THEOREM ForwarderTypes == ForwarderSpec => []ForwarderTypeOK
<1>1. FwInv => ForwarderTypeOK
  BY DEF FwInv, WifiTypes
<1> QED
  BY <1>1, InitFwInv, StepFwInv, PTL DEF ForwarderSpec
=============================================================================
