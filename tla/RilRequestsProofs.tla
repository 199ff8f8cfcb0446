-------------------------- MODULE RilRequestsProofs --------------------------
(***************************************************************************)
(* Proofs about the requests of libril, for any addresses, clients and     *)
(* number of calls.  A call is answered once because its RequestInfo is on *)
(* the list, with its serial, until its first completion, and off it from  *)
(* then on: no other call can be given its address before the handler has  *)
(* returned, since the one thread that adds requests is in the handler.    *)
(*                                                                         *)
(* A success stays one because each handler of reference-ril completes     *)
(* with a payload that the response function of its request reads, as the  *)
(* tables of both sides show, and because the RequestInfo the completion   *)
(* finds is the one of the call.                                           *)
(***************************************************************************)
EXTENDS RilRequests, TLAPS

(* Mapped to its call, and not yet answered.                               *)
Fresh(t) ==
  /\ pRI[t] \in Addrs /\ pRI[t] \notin refused
  /\ Pending(pRI[t]) /\ info[pRI[t]].token = serial[t]
  /\ answers[t] = <<>> /\ ~unheard[t]

(* Answered, or not to be answered any more.                               *)
Settled(t) ==
  IF unheard[t] THEN answers[t] = <<>>
  ELSE \E r : answers[t] = <<r>> /\ r.by = serial[t]

(* Where a thread is in its call, and what the client has heard of it.     *)
PhaseInv ==
  \A t \in Threads :
    \/ pc[t] = "idle" /\ answers[t] = <<>> /\ ~unheard[t]
    \/ pc[t] = "dispatch" /\ Fresh(t)
    \/ pc[t] = "handler" /\ Len(todo[t]) >= 1 /\ Fresh(t)
    \/ /\ pc[t] = "handler" /\ Len(todo[t]) >= 1 /\ Settled(t)
       /\ ~Pending(pRI[t])
    \/ pc[t] = "return" /\ Settled(t)
    \/ pc[t] = "crashed" /\ answers[t] = <<>>

(* The list: a request that was refused stays on it for ever.              *)
ListInv ==
  /\ Distinct(s_pendingRequests)
  /\ \A a \in Addrs : Pending(a) <=> info[a] # Free
  /\ \A a \in refused : Pending(a)
  /\ \A a \in Addrs :
       Pending(a) => \/ a \in refused
                     \/ \E t \in Threads : /\ pRI[t] = a
                                           /\ pc[t] \in {"dispatch", "handler"}

(* What the proofs need of the types.                                      *)
TypeInv ==
  /\ s_pendingRequests \in Seq(Addrs)
  /\ DOMAIN info = Addrs
  /\ DOMAIN pc = Threads
  /\ DOMAIN serial = Threads
  /\ DOMAIN pRI = Threads
  /\ DOMAIN answers = Threads
  /\ unheard \in [Threads -> BOOLEAN]
  /\ todo \in [Threads -> Seq(Completion)]
  /\ refused \subseteq Addrs
  /\ nextSerial \in Nat \ {0}

Inv == TypeInv /\ ListInv /\ PhaseInv /\ ~stray
-----------------------------------------------------------------------------
(* Unlinking an element leaves the others, each once.                      *)
LEMMA UnlinkOne ==
  ASSUME NEW S, NEW l \in Seq(S), Distinct(l), NEW k \in 1..Len(l)
  PROVE  /\ Unlink(l, k) \in Seq(S)
         /\ Distinct(Unlink(l, k))
         /\ \A a : In(Unlink(l, k), a) <=> In(l, a) /\ a # l[k]
<1> DEFINE u == Unlink(l, k)
           n == Len(l) - 1
<1>1. n \in Nat /\ Len(l) = n + 1 /\ k \in 1..(n + 1)
  OBVIOUS
<1>2. u \in [1..n -> S]
  <2>1. ASSUME NEW j \in 1..n PROVE j \in 1..Len(l) /\ j + 1 \in 1..Len(l)
    BY <1>1
  <2>2. ASSUME NEW j \in 1..n PROVE l[j] \in S /\ l[j + 1] \in S
    BY <2>1
  <2> HIDE DEF n
  <2> QED BY <2>2 DEF Unlink, n
<1>3. u \in Seq(S) /\ Len(u) = n
  <2> HIDE DEF u, n
  <2> QED BY <1>1, <1>2
<1>4. \A j \in 1..n : u[j] = IF j < k THEN l[j] ELSE l[j + 1]
  BY DEF Unlink
<1> HIDE DEF u, n
<1>5. ASSUME NEW i \in 1..n, NEW j \in 1..n, u[i] = u[j] PROVE i = j
  BY <1>1, <1>4, <1>5 DEF Distinct
<1>6. ASSUME NEW a, In(u, a) PROVE In(l, a) /\ a # l[k]
  <2>1. PICK i \in 1..n : u[i] = a
    BY <1>3, <1>6 DEF In
  <2>2. CASE i < k
    <3>1. i \in 1..Len(l) /\ l[i] = a /\ i # k
      BY <1>1, <1>4, <2>1, <2>2
    <3> QED BY <3>1 DEF In, Distinct
  <2>3. CASE ~(i < k)
    <3>1. i + 1 \in 1..Len(l) /\ l[i + 1] = a /\ i + 1 # k
      BY <1>1, <1>4, <2>1, <2>3
    <3> QED BY <3>1 DEF In, Distinct
  <2> QED BY <2>2, <2>3
<1>7. ASSUME NEW a, In(l, a), a # l[k] PROVE In(u, a)
  <2>1. PICK i \in 1..Len(l) : l[i] = a
    BY <1>7 DEF In
  <2>2. CASE i < k
    <3>1. i \in 1..n /\ u[i] = a
      BY <1>1, <1>4, <2>1, <2>2
    <3> QED BY <3>1, <1>3 DEF In
  <2>3. CASE ~(i < k)
    <3>1. i # k
      BY <1>7, <2>1
    <3>2. i - 1 \in 1..n /\ ~(i - 1 < k) /\ (i - 1) + 1 = i
      BY <1>1, <2>1, <2>3, <3>1
    <3>3. u[i - 1] = a
      BY <1>4, <2>1, <3>2
    <3> QED BY <1>3, <3>2, <3>3 DEF In
  <2> QED BY <2>2, <2>3
<1> QED BY <1>3, <1>5, <1>6, <1>7 DEF u, Distinct

(* Prepending a new element keeps the others.                              *)
LEMMA Prepended ==
  ASSUME NEW S, NEW l \in Seq(S), Distinct(l), NEW b \in S, ~In(l, b)
  PROVE  /\ <<b>> \o l \in Seq(S)
         /\ Distinct(<<b>> \o l)
         /\ \A a : In(<<b>> \o l, a) <=> In(l, a) \/ a = b
<1>1. PICK p : p = <<b>> \o l
  BY ZenonT(60)
<1>2. /\ p \in Seq(S) /\ Len(p) = Len(l) + 1 /\ p[1] = b
      /\ \A i \in 1..Len(l) : p[i + 1] = l[i]
  BY <1>1
<1>3. Len(l) \in Nat
  OBVIOUS
<1>4. ASSUME NEW i \in 1..Len(p)
      PROVE  (i = 1 /\ p[i] = b) \/ (i - 1 \in 1..Len(l) /\ p[i] = l[i - 1])
  <2>1. CASE i = 1
    BY <1>2, <2>1
  <2>2. CASE i # 1
    <3>1. i - 1 \in 1..Len(l) /\ (i - 1) + 1 = i
      BY <1>2, <1>3, <2>2
    <3> QED BY <1>2, <3>1
  <2> QED BY <2>1, <2>2
<1>5. ASSUME NEW i \in 1..Len(p), NEW j \in 1..Len(p), p[i] = p[j] PROVE i = j
  <2>1. CASE i = 1 /\ j = 1
    BY <2>1
  <2>2. CASE i # 1 /\ j # 1
    <3>1. /\ i - 1 \in 1..Len(l) /\ j - 1 \in 1..Len(l)
          /\ l[i - 1] = l[j - 1]
      BY <1>4, <1>5, <2>2
    <3>2. i - 1 = j - 1
      BY <3>1 DEF Distinct
    <3> QED BY <1>2, <1>3, <3>2
  <2>3. CASE i = 1 /\ j # 1
    BY <1>4, <1>5, <2>3 DEF In
  <2>4. CASE i # 1 /\ j = 1
    BY <1>4, <1>5, <2>4 DEF In
  <2> QED BY <2>1, <2>2, <2>3, <2>4
<1>6. ASSUME NEW a, In(p, a) PROVE In(l, a) \/ a = b
  BY <1>4, <1>6 DEF In
<1>7. ASSUME NEW a, In(l, a) \/ a = b PROVE In(p, a)
  <2>1. CASE a = b
    <3>1. 1 \in 1..Len(p)
      BY <1>2, <1>3
    <3> QED BY <1>2, <2>1, <3>1 DEF In
  <2>2. CASE In(l, a)
    <3>1. PICK i \in 1..Len(l) : l[i] = a
      BY <2>2 DEF In
    <3>2. i + 1 \in 1..Len(p) /\ p[i + 1] = a
      BY <1>2, <1>3, <3>1
    <3> QED BY <3>2 DEF In
  <2> QED BY <1>7, <2>1, <2>2
<1> QED BY <1>1, <1>2, <1>5, <1>6, <1>7 DEF Distinct

(* A path that completes the request at least once.                        *)
Handled == {s \in Seq(Completion) : Len(s) >= 1}

LEMMA OneCompletion ==
  ASSUME NEW e \in Errors, NEW k \in Payloads
  PROVE  Done(e) \in Handled /\ With(e, k) \in Handled
<1>1. ASSUME NEW c \in Completion PROVE <<c>> \in Handled
  BY DEF Handled
<1>2. /\ [error |-> e, payload |-> "null"] \in Completion
      /\ [error |-> e, payload |-> k] \in Completion
  BY DEF Completion, Payloads
<1> QED BY <1>1, <1>2 DEF Done, With

LEMMA TwoCompletions ==
  Failure \o Failure \in Handled /\ Success \o Failure \in Handled
<1>1. Failure \in Handled /\ Success \in Handled
  BY OneCompletion DEF Failure, Success, Errors, Payloads
<1>2. ASSUME NEW a \in Handled, NEW b \in Handled PROVE a \o b \in Handled
  BY DEF Handled
<1> QED BY <1>1, <1>2

(* The handlers of reference-ril complete a request on every path.         *)
LEMMA HandlersComplete ==
  \A c \in Cases : c[2] \in Handled
<1>1. \A e \in Errors, k \in Payloads : Done(e) \in Handled /\ With(e, k) \in Handled
  BY OneCompletion
<1>2. Failure \in Handled /\ Success \in Handled
  BY <1>1 DEF Failure, Success, Errors, Payloads
<1> USE DEF Errors, Payloads
<1>3. \A c \in CardAndCallCases : c[2] \in Handled
  <2>1. /\ requestGetCurrentCalls \subseteq Handled
        /\ requestDial \subseteq Handled
        /\ requestHangup \subseteq Handled
        /\ requestCallSelection \subseteq Handled
    BY <1>1, <1>2 DEF requestGetCurrentCalls, requestDial, requestHangup,
       requestCallSelection
  <2> QED BY <1>1, <1>2, <2>1 DEF CardAndCallCases
<1>4. \A c \in NetworkAndSmsCases : c[2] \in Handled
  <2>1. /\ requestVoiceRegistrationState \subseteq Handled
        /\ requestDataRegistrationState \subseteq Handled
        /\ requestOperator \subseteq Handled
        /\ requestRadioPower \subseteq Handled
    BY <1>1, <1>2 DEF requestVoiceRegistrationState,
       requestDataRegistrationState, requestOperator, requestRadioPower
  <2>2. requestSignalStrength \subseteq Handled
    BY <1>1, <1>2, TwoCompletions DEF requestSignalStrength
  <2>3. /\ requestSendSMS \subseteq Handled
        /\ requestCdmaSendSMS \subseteq Handled
    BY <1>1, <1>2 DEF requestSendSMS, requestCdmaSendSMS
  <2>4. requestImsSendSMS \subseteq Handled
    BY <1>1, <1>2, <2>3 DEF requestImsSendSMS
  <2> QED BY <1>1, <1>2, <2>1, <2>2, <2>3, <2>4 DEF NetworkAndSmsCases
<1>5. \A c \in SimAndDataCases : c[2] \in Handled
  <2>1. /\ requestSimOpenChannel \subseteq Handled
        /\ requestSimCloseChannel \subseteq Handled
        /\ requestSimTransmitApduChannel \subseteq Handled
        /\ requestOrSendDataCallList \subseteq Handled
    BY <1>1, <1>2 DEF requestSimOpenChannel, requestSimCloseChannel,
       requestSimTransmitApduChannel, requestOrSendDataCallList
  <2>2. requestSetupDataCall \subseteq Handled
    BY <1>1, <1>2, <2>1 DEF requestSetupDataCall
  <2>3. requestDeactivateDataCall \subseteq Handled
    BY <1>1, <1>2 DEF requestDeactivateDataCall, setInterfaceState
  <2>4. requestSMSAcknowledge \subseteq Handled
    BY <1>1, <1>2, TwoCompletions DEF requestSMSAcknowledge
  <2>5. /\ requestSIM_IO \subseteq Handled
        /\ requestSendUSSD \subseteq Handled
        /\ setNetworkSelectionAutomatic \subseteq Handled
        /\ requestQueryNetworkSelectionMode \subseteq Handled
    BY <1>1, <1>2 DEF requestSIM_IO, requestSendUSSD,
       setNetworkSelectionAutomatic, requestQueryNetworkSelectionMode
  <2> QED BY <1>1, <1>2, <2>1, <2>2, <2>3, <2>4, <2>5 DEF SimAndDataCases
<1>6. \A c \in SmsStorageAndPinCases : c[2] \in Handled
  <2>1. /\ requestWriteSmsToSim \subseteq Handled
        /\ requestEnterSimPin \subseteq Handled
    BY <1>1, <1>2 DEF requestWriteSmsToSim, requestEnterSimPin
  <2> QED BY <1>1, <1>2, <2>1 DEF SmsStorageAndPinCases
<1>7. \A c \in SettingsCases : c[2] \in Handled
  <2>1. /\ requestSetPreferredNetworkType \subseteq Handled
        /\ requestGetPreferredNetworkType \subseteq Handled
        /\ requestGetCellInfoList \subseteq Handled
        /\ requestSetCellInfoListRate \subseteq Handled
        /\ requestGetHardwareConfig \subseteq Handled
    BY <1>1, <1>2 DEF requestSetPreferredNetworkType,
       requestGetPreferredNetworkType, requestGetCellInfoList,
       requestSetCellInfoListRate, requestGetHardwareConfig
  <2>2. /\ requestShutdown \subseteq Handled
        /\ requestGetTtyMode \subseteq Handled
        /\ requestGetRadioCapability \subseteq Handled
        /\ requestGetMute \subseteq Handled
        /\ requestGetSimAuthentication \subseteq Handled
    BY <1>1, <1>2 DEF requestShutdown, requestGetTtyMode,
       requestGetRadioCapability, requestGetMute, requestGetSimAuthentication
  <2> QED BY <1>1, <1>2, <2>1, <2>2 DEF SettingsCases
<1>8. \A c \in CdmaAndCarrierCases : c[2] \in Handled
  <2>1. /\ requestCdmaBaseBandVersion \subseteq Handled
        /\ requestDeviceIdentity \subseteq Handled
        /\ requestCdmaSubscription \subseteq Handled
        /\ requestCdmaGetSubscriptionSource \subseteq Handled
        /\ requestCdmaGetRoamingPreference \subseteq Handled
    BY <1>1, <1>2 DEF requestCdmaBaseBandVersion, requestDeviceIdentity,
       requestCdmaSubscription, requestCdmaGetSubscriptionSource,
       requestCdmaGetRoamingPreference
  <2>2. /\ requestCdmaSetSubscriptionSource \subseteq Handled
        /\ requestCdmaSetRoamingPreference \subseteq Handled
        /\ requestExitEmergencyMode \subseteq Handled
        /\ requestModemActivityInfo \subseteq Handled
        /\ requestSetCarrierRestrictions \subseteq Handled
    BY <1>1, <1>2 DEF requestCdmaSetSubscriptionSource,
       requestCdmaSetRoamingPreference, requestExitEmergencyMode,
       requestModemActivityInfo, requestSetCarrierRestrictions
  <2> QED BY <1>1, <1>2, <2>1, <2>2 DEF CdmaAndCarrierCases
<1> QED BY <1>3, <1>4, <1>5, <1>6, <1>7, <1>8 DEF Cases

(* ... and so does onRequest, whatever the request and the radio's state.  *)
LEMMA OnRequestCompletes ==
  ASSUME NEW r, NEW sState, NEW path \in onRequest(r, sState)
  PROVE  path \in Handled
<1>1. Done("RADIO_NOT_AVAILABLE") \in Handled
  BY OneCompletion DEF Errors, Payloads
<1>2. Done("REQUEST_NOT_SUPPORTED") \in Handled
  BY OneCompletion DEF Errors, Payloads
<1>3. ASSUME NEW p \in {c[2] : c \in {d \in Cases : d[1] = r}} PROVE p \in Handled
  BY HandlersComplete
<1> QED BY <1>1, <1>2, <1>3 DEF onRequest
-----------------------------------------------------------------------------
(* The pool has one thread.                                                *)
LEMMA OneThread ==
  ASSUME NEW t \in Threads, NEW u \in Threads
  PROVE  t = u
BY DEF Threads

(* An answer to a fresh call settles it.                                   *)
LEMMA Responds ==
  ASSUME NEW t \in Threads, NEW ri, NEW c, responseFunction(t, ri, c), ~stray,
         unheard \in [Threads -> BOOLEAN],
         ri.token = serial[t], answers[t] = <<>>, ~unheard[t], serial' = serial
  PROVE  /\ ~stray' /\ DOMAIN answers' = Threads
         /\ unheard' \in [Threads -> BOOLEAN]
         /\ Settled(t)'
<1> DEFINE f == ResponseFunction[ri.request]
           called == /\ mRadioResponse # "NULL"
                     /\ f \in OnlyV1_1 => mRadioResponse # "1_0"
           heard == called /\ alive
           r == [vendor |-> c.error,
                 error |-> IF c.error = "SUCCESS" /\ c.payload \notin Reads[f]
                           THEN "INVALID_RESPONSE" ELSE c.error,
                 by |-> serial[t]]
<1>1. /\ answers' = [u \in Threads |->
                       IF heard /\ serial[u] = ri.token
                       THEN Append(answers[u], r) ELSE answers[u]]
      /\ unheard' = [u \in Threads |->
                       unheard[u] \/ (~heard /\ serial[u] = ri.token)]
      /\ stray' = (stray \/ \A u \in Threads : serial[u] # ri.token)
  BY ZenonT(60) DEF responseFunction
<1>2. r.by = serial[t]
  OBVIOUS
<1> HIDE DEF heard, r
<1>3. ~stray'
  BY <1>1
<1>4. DOMAIN answers' = Threads /\ unheard' \in [Threads -> BOOLEAN]
  BY <1>1
<1>5. CASE heard
  <2>1. answers'[t] = Append(<<>>, r)
    BY <1>1, <1>5, ZenonT(60)
  <2>2. answers'[t] = <<r>>
    BY <2>1
  <2>3. ~unheard'[t]
    BY <1>1, <1>5
  <2> QED BY <1>2, <1>3, <1>4, <2>2, <2>3 DEF Settled
<1>6. CASE ~heard
  <2>1. answers'[t] = <<>>
    BY <1>1, <1>6
  <2>2. unheard'[t]
    BY <1>1, <1>6, ZenonT(60)
  <2> QED BY <1>3, <1>4, <2>1, <2>2 DEF Settled
<1> QED BY <1>5, <1>6

(* A step that leaves the list and the calls alone keeps the invariant.    *)
LEMMA ClientStep ==
  ASSUME Inv, UNCHANGED <<s_pendingRequests, info, pc, serial, pRI, todo,
                          answers, unheard, stray, refused, nextSerial>>
  PROVE  Inv'
<1>1. TypeInv'
  BY DEF Inv, TypeInv
<1>2. ListInv'
  BY DEF Inv, ListInv, Pending
<1>3. PhaseInv'
  BY DEF Inv, PhaseInv, Fresh, Settled, Pending
<1> QED BY <1>1, <1>2, <1>3 DEF Inv

(* A new request has an address that nothing on the list has.              *)
LEMMA AddKeeps ==
  ASSUME Inv, NEW t \in Threads, NEW row, NEW a \in Addrs,
         addRequestToList(t, row, a)
  PROVE  Inv'
<1>1. /\ pc[t] = "idle" /\ info[a] = Free
      /\ info' = [info EXCEPT ![a] = [token |-> nextSerial, request |-> row[2]]]
      /\ s_pendingRequests' = <<a>> \o s_pendingRequests
      /\ pc' = [pc EXCEPT ![t] = "dispatch"]
      /\ serial' = [serial EXCEPT ![t] = nextSerial]
      /\ pRI' = [pRI EXCEPT ![t] = a]
      /\ nextSerial' = nextSerial + 1
      /\ todo' = todo /\ answers' = answers /\ unheard' = unheard
      /\ stray' = stray /\ refused' = refused
  BY ZenonT(60) DEF addRequestToList, clientVars
<1>2. ~Pending(a) /\ a \notin refused
  BY <1>1 DEF Inv, ListInv
<1>3. /\ s_pendingRequests' \in Seq(Addrs)
      /\ Distinct(s_pendingRequests')
      /\ \A b : Pending(b)' <=> Pending(b) \/ b = a
  BY <1>1, <1>2, Prepended DEF Inv, TypeInv, ListInv, Pending
<1>4. TypeInv'
  BY <1>1, <1>3 DEF Inv, TypeInv
<1>5. /\ info'[a].token = nextSerial /\ info'[a] # Free
      /\ \A b \in Addrs : b # a => info'[b] = info[b]
  <2>1. info'[a] = [token |-> nextSerial, request |-> row[2]]
    BY <1>1 DEF Inv, TypeInv
  <2> QED BY <1>1, <2>1 DEF Inv, TypeInv, Free
<1>6. pRI'[t] = a /\ pc'[t] = "dispatch" /\ serial'[t] = nextSerial
  BY <1>1 DEF Inv, TypeInv
<1>7. ListInv'
  <2>1. ASSUME NEW b \in Addrs PROVE Pending(b)' <=> info'[b] # Free
    BY <1>3, <1>5, ZenonT(60) DEF Inv, ListInv
  <2>2. ASSUME NEW b \in refused' PROVE Pending(b)'
    BY <1>1, <1>3 DEF Inv, ListInv
  <2>3. ASSUME NEW b \in Addrs, Pending(b)'
        PROVE  \/ b \in refused'
               \/ \E u \in Threads : pRI'[u] = b /\ pc'[u] \in {"dispatch", "handler"}
    <3>1. CASE b = a
      BY <1>6, <3>1
    <3>2. CASE b # a
      <4>1. Pending(b)
        BY <1>3, <2>3, <3>2
      <4>2. \A u \in Threads : pc[u] = "idle"
        BY <1>1, OneThread
      <4> QED BY <1>1, <4>1, <4>2, ZenonT(60) DEF Inv, ListInv
    <3> QED BY <3>1, <3>2
  <2> QED BY <1>3, <2>1, <2>2, <2>3 DEF ListInv
<1>8. PhaseInv'
  <2>1. answers[t] = <<>> /\ ~unheard[t]
    BY <1>1, ZenonT(60) DEF Inv, PhaseInv
  <2>2. Fresh(t)'
    BY <1>1, <1>2, <1>3, <1>5, <1>6, <2>1 DEF Fresh
  <2>3. ASSUME NEW u \in Threads PROVE pc'[u] = "dispatch" /\ Fresh(u)'
    BY <1>6, <2>2, OneThread
  <2> QED BY <2>3 DEF PhaseInv
<1> QED BY <1>1, <1>4, <1>7, <1>8 DEF Inv

(* Without memory the list is as it was.                                   *)
LEMMA AllocationFailsKeeps ==
  ASSUME Inv, NEW t \in Threads, NEW row, allocationFails(t, row)
  PROVE  Inv'
<1>1. /\ pc[t] = "idle"
      /\ pc' = [pc EXCEPT ![t] = IF row[2] \in RefusedOutright
                                 THEN "crashed" ELSE "return"]
      /\ serial' = [serial EXCEPT ![t] = nextSerial]
      /\ unheard' = [unheard EXCEPT ![t] = TRUE]
      /\ nextSerial' = nextSerial + 1
      /\ s_pendingRequests' = s_pendingRequests /\ info' = info
      /\ pRI' = pRI /\ todo' = todo /\ answers' = answers
      /\ stray' = stray /\ refused' = refused
  BY ZenonT(60) DEF allocationFails
<1>2. pc'[t] \in {"crashed", "return"} /\ unheard'[t]
  BY <1>1 DEF Inv, TypeInv
<1>3. TypeInv'
  BY <1>1 DEF Inv, TypeInv
<1>4. ListInv'
  <2>1. \A u \in Threads : pc[u] = "idle"
    BY <1>1, OneThread
  <2>2. \A b : Pending(b)' <=> Pending(b)
    BY <1>1 DEF Pending
  <2> QED BY <1>1, <2>1, <2>2 DEF Inv, ListInv
<1>5. PhaseInv'
  <2>1. answers'[t] = <<>>
    BY <1>1 DEF Inv, PhaseInv
  <2>2. Settled(t)'
    BY <1>2, <2>1 DEF Settled
  <2>3. ASSUME NEW u \in Threads
        PROVE  \/ pc'[u] = "return" /\ Settled(u)'
               \/ pc'[u] = "crashed" /\ answers'[u] = <<>>
    BY <1>2, <2>1, <2>2, OneThread
  <2> QED BY <2>3 DEF PhaseInv
<1> QED BY <1>1, <1>3, <1>4, <1>5 DEF Inv

(* A refused request stays on the list, and is marked so.                  *)
LEMMA RefuseKeeps ==
  ASSUME Inv, NEW t \in Threads, sendErrorResponse(t)
  PROVE  Inv'
<1>1. /\ pc[t] = "dispatch"
      /\ refused' = refused \cup {pRI[t]}
      /\ pc' = [pc EXCEPT ![t] = "return"]
      /\ s_pendingRequests' = s_pendingRequests /\ info' = info
      /\ serial' = serial /\ pRI' = pRI /\ todo' = todo
      /\ nextSerial' = nextSerial
  BY ZenonT(60) DEF sendErrorResponse, threadVars
<1>2. PICK e \in call[t][3] :
        responseFunction(t, info[pRI[t]], [error |-> e, payload |-> "null"])
  BY ZenonT(60) DEF sendErrorResponse
<1>3. Fresh(t)
  BY <1>1 DEF Inv, PhaseInv
<1>4. /\ pRI[t] \in Addrs /\ Pending(pRI[t])
      /\ info[pRI[t]].token = serial[t] /\ answers[t] = <<>> /\ ~unheard[t]
  BY <1>3 DEF Fresh
<1>5. unheard \in [Threads -> BOOLEAN] /\ ~stray
  BY DEF Inv, TypeInv
<1>6. /\ ~stray' /\ DOMAIN answers' = Threads
      /\ unheard' \in [Threads -> BOOLEAN] /\ Settled(t)'
  BY <1>1, <1>2, <1>4, <1>5, Responds
<1>7. TypeInv'
  BY <1>1, <1>4, <1>6, ZenonT(60) DEF Inv, TypeInv
<1>8. \A u \in Threads : pc'[u] = "return" /\ u = t
  BY <1>1, OneThread DEF Inv, TypeInv
<1>9. ListInv'
  <2>1. \A b : Pending(b)' <=> Pending(b)
    BY <1>1 DEF Pending
  <2>2. ASSUME NEW b \in refused' PROVE Pending(b)'
    BY <1>1, <1>4, <2>1 DEF Inv, ListInv
  <2>3. ASSUME NEW b \in Addrs, Pending(b)' PROVE b \in refused'
    BY <1>1, <1>8, <2>1, <2>3, ZenonT(60) DEF Inv, ListInv
  <2> QED BY <1>1, <2>1, <2>2, <2>3 DEF Inv, ListInv
<1>10. PhaseInv'
  BY <1>6, <1>8, ZenonT(60) DEF PhaseInv
<1> QED BY <1>6, <1>7, <1>9, <1>10 DEF Inv

(* The handler has at least one completion to make.                        *)
LEMMA ForwardKeeps ==
  ASSUME Inv, NEW t \in Threads, CALL_ONREQUEST(t)
  PROVE  Inv'
<1>9. PICK sState \in RadioStates : \E path \in onRequest(request(t), sState) :
        /\ todo' = [todo EXCEPT ![t] = path]
        /\ pc' = [pc EXCEPT ![t] = IF path = <<>> THEN "return" ELSE "handler"]
  BY ZenonT(60) DEF CALL_ONREQUEST
<1>1. PICK path \in onRequest(request(t), sState) :
        /\ todo' = [todo EXCEPT ![t] = path]
        /\ pc' = [pc EXCEPT ![t] = IF path = <<>> THEN "return" ELSE "handler"]
  BY ZenonT(60), <1>9
<1>2. /\ pc[t] = "dispatch"
      /\ s_pendingRequests' = s_pendingRequests /\ info' = info
      /\ serial' = serial /\ pRI' = pRI /\ answers' = answers
      /\ unheard' = unheard /\ stray' = stray /\ refused' = refused
      /\ nextSerial' = nextSerial
  BY ZenonT(60) DEF CALL_ONREQUEST, threadVars, clientVars
<1>3. path \in Seq(Completion) /\ Len(path) >= 1
  BY OnRequestCompletes DEF Handled
<1>4. path # <<>>
  BY <1>3
<1>5. TypeInv'
  BY <1>1, <1>2, <1>3, ZenonT(60) DEF Inv, TypeInv
<1>6. \A u \in Threads : u = t /\ pc'[u] = "handler" /\ todo'[u] = path
  BY <1>1, <1>4, OneThread, ZenonT(60) DEF Inv, TypeInv
<1>7. ListInv'
  <2>1. \A b : Pending(b)' <=> Pending(b)
    BY <1>2 DEF Pending
  <2> QED BY <1>2, <1>6, <2>1 DEF Inv, ListInv
<1>8. PhaseInv'
  <2>1. Fresh(t)
    BY <1>2 DEF Inv, PhaseInv
  <2>2. Fresh(t)'
    BY <1>2, <2>1 DEF Fresh, Pending
  <2> QED BY <1>3, <1>6, <2>2 DEF PhaseInv
<1> QED BY <1>2, <1>5, <1>7, <1>8 DEF Inv

LEMMA Tails ==
  ASSUME NEW S, NEW s \in Seq(S), Len(s) >= 1
  PROVE  /\ Tail(s) \in Seq(S)
         /\ Len(s) # 1 => Len(Tail(s)) >= 1
<1>1. s # <<>>
  OBVIOUS
<1>2. Tail(s) \in Seq(S) /\ Len(Tail(s)) = Len(s) - 1
  BY <1>1
<1>3. Len(s) \in Nat
  OBVIOUS
<1> QED BY <1>2, <1>3

(* The first completion takes the request off the list and settles the     *)
(* call; the later ones find it gone.                                      *)
LEMMA CompleteKeeps ==
  ASSUME Inv, NEW t \in Threads, RIL_onRequestComplete(t)
  PROVE  Inv'
<1>1. /\ pc[t] = "handler"
      /\ todo' = [todo EXCEPT ![t] = Tail(todo[t])]
      /\ pc' = [pc EXCEPT ![t] = IF Len(todo[t]) = 1 THEN "return" ELSE "handler"]
      /\ serial' = serial /\ pRI' = pRI /\ refused' = refused
      /\ nextSerial' = nextSerial
  BY ZenonT(60) DEF RIL_onRequestComplete, threadVars
<1>2. /\ todo[t] \in Seq(Completion) /\ Len(todo[t]) >= 1
  BY <1>1, ZenonT(60) DEF Inv, TypeInv, PhaseInv
<1>3. /\ Tail(todo[t]) \in Seq(Completion)
      /\ Len(todo[t]) # 1 => Len(Tail(todo[t])) >= 1
  BY <1>2, Tails
<1>4. \A u \in Threads :
        /\ u = t /\ todo'[u] = Tail(todo[t])
        /\ pc'[u] = IF Len(todo[t]) = 1 THEN "return" ELSE "handler"
  BY <1>1, OneThread DEF Inv, TypeInv
<1>5. todo' \in [Threads -> Seq(Completion)] /\ DOMAIN pc' = Threads
  BY <1>1, <1>3 DEF Inv, TypeInv
<1>6. CASE Pending(pRI[t])
  <2>1. Fresh(t)
    BY <1>1, <1>6 DEF Inv, PhaseInv
  <2>2. /\ pRI[t] \in Addrs /\ pRI[t] \notin refused
        /\ info[pRI[t]].token = serial[t] /\ answers[t] = <<>> /\ ~unheard[t]
    BY <2>1 DEF Fresh
  <2>3. /\ responseFunction(t, info[pRI[t]], Head(todo[t]))
        /\ checkAndDequeueRequestInfoIfAck(pRI[t])
        /\ info' = [info EXCEPT ![pRI[t]] = Free]
    BY ZenonT(60), <1>6 DEF RIL_onRequestComplete
  <2>4. PICK k \in 1..Len(s_pendingRequests) :
          /\ s_pendingRequests[k] = pRI[t]
          /\ s_pendingRequests' = Unlink(s_pendingRequests, k)
    BY <2>3, ZenonT(60) DEF checkAndDequeueRequestInfoIfAck
  <2>5. /\ s_pendingRequests' \in Seq(Addrs)
        /\ Distinct(s_pendingRequests')
        /\ \A b : Pending(b)' <=> Pending(b) /\ b # pRI[t]
    BY <2>4, UnlinkOne DEF Inv, TypeInv, ListInv, Pending
  <2>6. unheard \in [Threads -> BOOLEAN] /\ ~stray
    BY ZenonT(60) DEF Inv, TypeInv
  <2>7. /\ ~stray' /\ DOMAIN answers' = Threads
        /\ unheard' \in [Threads -> BOOLEAN] /\ Settled(t)'
    BY <1>1, <2>2, <2>3, <2>6, Responds, ZenonT(60)
  <2>8. TypeInv'
    BY <1>1, <1>5, <2>3, <2>5, <2>7, ZenonT(60) DEF Inv, TypeInv
  <2>9. /\ info'[pRI[t]] = Free
        /\ \A b \in Addrs : b # pRI[t] => info'[b] = info[b]
    BY <2>2, <2>3 DEF Inv, TypeInv
  <2>10. ListInv'
    <3>1. ASSUME NEW b \in Addrs PROVE Pending(b)' <=> info'[b] # Free
      BY <2>5, <2>9, ZenonT(60) DEF Inv, ListInv
    <3>2. ASSUME NEW b \in refused' PROVE Pending(b)'
      BY <1>1, <2>2, <2>5 DEF Inv, ListInv
    <3>3. ASSUME NEW b \in Addrs, Pending(b)' PROVE b \in refused'
      <4>1. Pending(b) /\ b # pRI[t]
        BY <2>5, <3>3
      <4> QED BY <1>1, <1>4, <4>1 DEF Inv, ListInv
    <3> QED BY <2>5, <3>1, <3>2, <3>3 DEF ListInv
  <2>11. PhaseInv'
    <3>1. ~Pending(pRI[t])'
      BY <1>1, <2>5
    <3> QED BY <1>1, <1>3, <1>4, <2>7, <3>1 DEF PhaseInv
  <2> QED BY <2>7, <2>8, <2>10, <2>11 DEF Inv
<1>7. CASE ~Pending(pRI[t])
  <2>1. /\ s_pendingRequests' = s_pendingRequests /\ info' = info
        /\ answers' = answers /\ unheard' = unheard /\ stray' = stray
    BY ZenonT(60), <1>7 DEF RIL_onRequestComplete, clientVars
  <2>2. \A b : Pending(b)' <=> Pending(b)
    BY <2>1, ZenonT(60) DEF Pending
  <2>3. TypeInv'
    BY <1>1, <1>5, <2>1, ZenonT(60) DEF Inv, TypeInv
  <2>4. ListInv'
    <3>1. ASSUME NEW b \in Addrs, Pending(b)' PROVE b \in refused'
      BY <1>1, <1>4, <1>7, <2>2, <3>1, SMTT(60) DEF Inv, ListInv
    <3> QED BY <1>1, <2>1, <2>2, <3>1 DEF Inv, ListInv
  <2>5. Settled(t)
    BY <1>1, <1>7, ZenonT(60) DEF Inv, PhaseInv, Fresh
  <2>6. Settled(t)'
    BY <1>1, <2>1, <2>5, ZenonT(60) DEF Settled
  <2>7. PhaseInv'
    BY <1>1, <1>3, <1>4, <1>7, <2>2, <2>6, ZenonT(60) DEF PhaseInv
  <2> QED BY <2>1, <2>3, <2>4, <2>7 DEF Inv
<1> QED BY <1>6, <1>7

(* Between two calls the thread is idle, with nothing heard.               *)
LEMMA ReturnKeeps ==
  ASSUME Inv, NEW t \in Threads, methodReturns(t)
  PROVE  Inv'
<1>1. /\ pc[t] = "return"
      /\ pc' = [pc EXCEPT ![t] = "idle"]
      /\ serial' = [serial EXCEPT ![t] = 0]
      /\ pRI' = [pRI EXCEPT ![t] = NoAddr]
      /\ answers' = [answers EXCEPT ![t] = <<>>]
      /\ unheard' = [unheard EXCEPT ![t] = FALSE]
      /\ s_pendingRequests' = s_pendingRequests /\ info' = info
      /\ todo' = todo /\ stray' = stray /\ refused' = refused
      /\ nextSerial' = nextSerial
  BY ZenonT(60) DEF methodReturns
<1>2. TypeInv'
  BY <1>1 DEF Inv, TypeInv
<1>3. \A u \in Threads :
        u = t /\ pc'[u] = "idle" /\ answers'[u] = <<>> /\ ~unheard'[u]
  BY <1>1, OneThread DEF Inv, TypeInv
<1>4. ListInv'
  <2>1. \A b : Pending(b)' <=> Pending(b)
    BY <1>1 DEF Pending
  <2>2. \A u \in Threads : pc[u] = "return"
    BY <1>1, <1>3
  <2> QED BY <1>1, <2>1, <2>2 DEF Inv, ListInv
<1>5. PhaseInv'
  BY <1>3 DEF PhaseInv
<1> QED BY <1>1, <1>2, <1>4, <1>5 DEF Inv
-----------------------------------------------------------------------------
LEMMA InitInv == Init => Inv
<1> SUFFICES ASSUME Init PROVE Inv
  OBVIOUS
<1>1. TypeInv
  BY DEF Init, TypeInv
<1>2. ListInv
  <2>1. s_pendingRequests = <<>>
    BY DEF Init
  <2>2. \A a : ~Pending(a)
    BY <2>1 DEF Pending, In
  <2> QED BY <2>1, <2>2 DEF Init, ListInv, Distinct
<1>3. PhaseInv
  BY DEF Init, PhaseInv
<1> QED BY <1>1, <1>2, <1>3 DEF Init, Inv

LEMMA NextInv == Inv /\ [Next]_vars => Inv'
<1> SUFFICES ASSUME Inv, [Next]_vars PROVE Inv'
  OBVIOUS
<1>1. ASSUME NEW t \in Threads, NEW row \in RadioMethods, NEW a \in Addrs,
             addRequestToList(t, row, a)
      PROVE  Inv'
  BY <1>1, AddKeeps
<1>2. ASSUME NEW t \in Threads, NEW row \in RadioMethods, allocationFails(t, row)
      PROVE  Inv'
  BY <1>2, AllocationFailsKeeps
<1>3. ASSUME NEW t \in Threads, sendErrorResponse(t) PROVE Inv'
  BY <1>3, RefuseKeeps
<1>4. ASSUME NEW t \in Threads, CALL_ONREQUEST(t) PROVE Inv'
  BY <1>4, ForwardKeeps
<1>5. ASSUME NEW t \in Threads, RIL_onRequestComplete(t) PROVE Inv'
  BY <1>5, CompleteKeeps
<1>6. ASSUME NEW t \in Threads, methodReturns(t) PROVE Inv'
  BY <1>6, ReturnKeeps
<1>7. ASSUME NEW t \in Threads, NEW version \in Versions,
             setResponseFunctions(t, version)
      PROVE  Inv'
  BY ZenonT(60), <1>7, ClientStep DEF setResponseFunctions, threadVars
<1>8. ASSUME clientDies PROVE Inv'
  BY ZenonT(60), <1>8, ClientStep DEF clientDies, threadVars, clientVars
<1>9. ASSUME checkReturnStatus PROVE Inv'
  BY ZenonT(60), <1>9, ClientStep DEF checkReturnStatus, threadVars
<1>10. ASSUME UNCHANGED vars PROVE Inv'
  BY ZenonT(60), <1>10, ClientStep DEF vars, threadVars, clientVars
<1> QED BY ZenonT(60), <1>1, <1>2, <1>3, <1>4, <1>5, <1>6, <1>7, <1>8, <1>9,
       <1>10 DEF Next, Step

(* What the invariant says of the calls and of the list.                   *)
LEMMA InvImplies ==
  ASSUME Inv
  PROVE  AnsweredExactlyOnce /\ AnswerIsOwn /\ PendingServedOrRefused
<1>1. ASSUME NEW t \in Threads
      PROVE  \/ answers[t] = <<>>
             \/ \E r : answers[t] = <<r>> /\ r.by = serial[t]
  BY DEF Inv, PhaseInv, Fresh, Settled
<1>2. ASSUME NEW t \in Threads, pc[t] = "return"
      PROVE  Len(answers[t]) = IF unheard[t] THEN 0 ELSE 1
  <2>1. Settled(t)
    BY <1>2 DEF Inv, PhaseInv
  <2> QED BY <2>1, ZenonT(60) DEF Settled
<1>3. AnsweredExactlyOnce
  <2>1. ASSUME NEW t \in Threads PROVE Len(answers[t]) <= 1
    <3>1. CASE answers[t] = <<>>
      BY <3>1
    <3>2. CASE answers[t] # <<>>
      <4>1. PICK r : answers[t] = <<r>>
        BY <1>1, <3>2
      <4> QED BY <4>1
    <3> QED BY <3>1, <3>2
  <2> QED BY <1>2, <2>1 DEF AnsweredExactlyOnce
<1>4. AnswerIsOwn
  <2>1. ASSUME NEW t \in Threads, NEW i \in 1..Len(answers[t])
        PROVE  answers[t][i].by = serial[t]
    <3>1. CASE answers[t] = <<>>
      BY <3>1
    <3>2. CASE answers[t] # <<>>
      <4>1. PICK r : answers[t] = <<r>> /\ r.by = serial[t]
        BY <1>1, <3>2
      <4>2. i = 1 /\ answers[t][i] = r
        BY <4>1
      <4> QED BY <4>1, <4>2
    <3> QED BY <3>1, <3>2
  <2> QED BY <2>1 DEF AnswerIsOwn, Inv
<1>5. PendingServedOrRefused
  BY DEF Inv, ListInv, PendingServedOrRefused
<1> QED BY <1>3, <1>4, <1>5

(* Every call is answered once, however often its handler completes it,    *)
(* and its method does not return before, for any number of calls.         *)
THEOREM AnsweredOnce == Spec => []AnsweredExactlyOnce
<1>1. Inv => AnsweredExactlyOnce
  BY InvImplies
<1> QED BY InitInv, NextInv, <1>1, PTL DEF Spec

(* An answer is made by the handler of the call whose serial it has,       *)
(* although an address is used again as soon as it is free.                *)
THEOREM OwnAnswers == Spec => []AnswerIsOwn
<1>1. Inv => AnswerIsOwn
  BY InvImplies
<1> QED BY InitInv, NextInv, <1>1, PTL DEF Spec

(* s_pendingRequests is the request in service and the refused ones.       *)
THEOREM ListIsSound == Spec => []PendingServedOrRefused
<1>1. Inv => PendingServedOrRefused
  BY InvImplies
<1> QED BY InitInv, NextInv, <1>1, PTL DEF Spec
-----------------------------------------------------------------------------
(* What the handlers complete with, and what the response functions read.  *)

(* The payloads that the response function of a request reads.             *)
ReadBy(r) == Reads[ResponseFunction[r]]

(* The completions that a response function which reads P passes on: a     *)
(* success comes with a payload of P.                                      *)
Good(P) ==
  {s \in Seq(Completion) : \A i \in 1..Len(s) : s[i].error = "SUCCESS" => s[i].payload \in P}

(* The client sees the success of this path of the request's handler.      *)
Readable(r, path) ==
  r \notin {"WRITE_SMS_TO_SIM", "SET_CARRIER_RESTRICTIONS"} => path \in Good(ReadBy(r))

(* A lookup of s_commands and then of the response functions finds the     *)
(* rows of the request.                                                    *)
LEMMA Lookup ==
  ASSUME NEW r, NEW f, NEW P, <<r, f>> \in s_commands, <<f, P>> \in ResponseTable
  PROVE  ReadBy(r) = P
<1>1. ResponseFunction[r] = f
  <2> DEFINE row == CHOOSE row \in s_commands : row[1] = r
  <2>1. r \in {q[1] : q \in s_commands} /\ row \in s_commands /\ row[1] = r
    OBVIOUS
  <2>2. row = <<r, f>>
    BY <2>1, TablesComplete, ZenonT(60)
  <2> HIDE DEF row
  <2>3. ResponseFunction[r] = row[2]
    BY <2>1, ZenonT(60) DEF ResponseFunction, row
  <2> QED
    BY <2>2, <2>3
<1>2. Reads[f] = P
  <2> DEFINE row == CHOOSE row \in ResponseTable : row[1] = f
  <2>1. f \in {q[1] : q \in ResponseTable} /\ row \in ResponseTable /\ row[1] = f
    OBVIOUS
  <2>2. row = <<f, P>>
    BY <2>1, TablesComplete, ZenonT(60)
  <2> HIDE DEF row
  <2>3. Reads[f] = row[2]
    BY <2>1, ZenonT(60) DEF Reads, row
  <2> QED
    BY <2>2, <2>3
<1> QED
  BY <1>1, <1>2 DEF ReadBy

(* The paths of the handlers, by the payload of their success.             *)
LEMMA GoodPaths ==
  ASSUME NEW P
  PROVE  /\ \A e \in Errors : e # "SUCCESS" \/ "null" \in P => Done(e) \in Good(P)
         /\ \A e \in Errors, k \in Payloads : e # "SUCCESS" \/ k \in P => With(e, k) \in Good(P)
         /\ Failure \in Good(P) /\ Failure \o Failure \in Good(P)
         /\ "null" \in P => Success \in Good(P) /\ Success \o Failure \in Good(P)
<1>1. ASSUME NEW c \in Completion, c.error = "SUCCESS" => c.payload \in P
      PROVE  <<c>> \in Good(P)
  BY <1>1 DEF Good
<1>2. ASSUME NEW e \in Errors, NEW k \in Payloads, e # "SUCCESS" \/ k \in P
      PROVE  With(e, k) \in Good(P)
  <2>1. [error |-> e, payload |-> k] \in Completion
    BY DEF Completion
  <2> QED
    BY <1>1, <1>2, <2>1 DEF With
<1>3. ASSUME NEW e \in Errors, e # "SUCCESS" \/ "null" \in P
      PROVE  Done(e) \in Good(P)
  <2>1. [error |-> e, payload |-> "null"] \in Completion
    BY DEF Completion, Payloads
  <2> QED
    BY <1>1, <1>3, <2>1 DEF Done
<1>4. ASSUME NEW a \in Good(P), NEW b \in Good(P) PROVE a \o b \in Good(P)
  <2>1. /\ a \in Seq(Completion) /\ b \in Seq(Completion)
        /\ \A i \in 1..Len(a) : a[i].error = "SUCCESS" => a[i].payload \in P
        /\ \A i \in 1..Len(b) : b[i].error = "SUCCESS" => b[i].payload \in P
    BY DEF Good
  <2>2. PICK s : s = a \o b
    BY ZenonT(60)
  <2>3. s \in Seq(Completion) /\ Len(s) = Len(a) + Len(b)
    BY <2>1, <2>2
  <2>4. ASSUME NEW i \in 1..Len(s)
        PROVE  \/ i \in 1..Len(a) /\ s[i] = a[i]
               \/ i - Len(a) \in 1..Len(b) /\ s[i] = b[i - Len(a)]
    BY <2>1, <2>2, <2>3
  <2>5. \A i \in 1..Len(s) : s[i].error = "SUCCESS" => s[i].payload \in P
    BY <2>1, <2>4, ZenonT(60)
  <2> QED
    BY <2>2, <2>3, <2>5, ZenonT(60) DEF Good
<1>5. Failure \in Good(P) /\ ("null" \in P => Success \in Good(P))
  BY <1>3 DEF Failure, Success, Errors
<1> QED
  BY <1>2, <1>3, <1>4, <1>5

(* Success on the cases of the SIM card and the calls can be read.         *)
LEMMA CardAndCallReadable == \A c \in CardAndCallCases : Readable(c[1], c[2])
<1>1. {<<"GET_SIM_STATUS", "getIccCardStatusResponse">>,
       <<"GET_CURRENT_CALLS", "getCurrentCallsResponse">>, <<"DIAL", "dialResponse">>,
       <<"HANGUP", "hangupConnectionResponse">>,
       <<"HANGUP_WAITING_OR_BACKGROUND", "hangupWaitingOrBackgroundResponse">>,
       <<"HANGUP_FOREGROUND_RESUME_BACKGROUND", "hangupForegroundResumeBackgroundResponse">>,
       <<"SWITCH_WAITING_OR_HOLDING_AND_ACTIVE", "switchWaitingOrHoldingAndActiveResponse">>,
       <<"CONFERENCE", "conferenceResponse">>, <<"UDUB", "rejectCallResponse">>,
       <<"ANSWER", "acceptCallResponse">>,
       <<"SEPARATE_CONNECTION", "separateConnectionResponse">>} \subseteq s_commands
  BY DEF s_commands
<1>2. {<<"getIccCardStatusResponse", Exactly("CardStatus_v6")>>,
       <<"getCurrentCallsResponse", ListOf("Calls")>>, <<"dialResponse", anything>>,
       <<"hangupConnectionResponse", anything>>,
       <<"hangupWaitingOrBackgroundResponse", anything>>,
       <<"hangupForegroundResumeBackgroundResponse", anything>>,
       <<"switchWaitingOrHoldingAndActiveResponse", anything>>,
       <<"conferenceResponse", anything>>, <<"rejectCallResponse", anything>>,
       <<"acceptCallResponse", anything>>,
       <<"separateConnectionResponse", anything>>} \subseteq ResponseTable
  BY DEF ResponseTable, AnswerAndLocksResponses, CallControlResponses, CardAndPinResponses,
     MuteAndDataCallsResponses, PinChangeAndDialResponses
<1>3. /\ ReadBy("GET_SIM_STATUS") = Exactly("CardStatus_v6")
      /\ ReadBy("GET_CURRENT_CALLS") = ListOf("Calls")
      /\ \A r \in {"DIAL", "HANGUP", "HANGUP_WAITING_OR_BACKGROUND",
             "HANGUP_FOREGROUND_RESUME_BACKGROUND", "SWITCH_WAITING_OR_HOLDING_AND_ACTIVE",
             "CONFERENCE", "UDUB", "ANSWER", "SEPARATE_CONNECTION"} : ReadBy(r) = anything
  BY <1>1, <1>2, Lookup, ZenonT(60)
<1>4. /\ {With("SUCCESS", "CardStatus_v6")} \subseteq Good(ReadBy("GET_SIM_STATUS"))
      /\ requestGetCurrentCalls \subseteq Good(ReadBy("GET_CURRENT_CALLS"))
      /\ requestDial \subseteq Good(ReadBy("DIAL"))
      /\ requestHangup \subseteq Good(ReadBy("HANGUP"))
      /\ \A r \in {"HANGUP_WAITING_OR_BACKGROUND", "HANGUP_FOREGROUND_RESUME_BACKGROUND",
             "SWITCH_WAITING_OR_HOLDING_AND_ACTIVE", "CONFERENCE",
             "UDUB"} : requestCallSelection \subseteq Good(ReadBy(r))
      /\ {Done("MODEM_ERR"), Success} \subseteq Good(ReadBy("ANSWER"))
      /\ {Done("RADIO_NOT_AVAILABLE"), Success, Failure}
           \subseteq Good(ReadBy("SEPARATE_CONNECTION"))
  BY <1>3, GoodPaths DEF Errors, Payloads, Exactly, ListOf, anything, requestGetCurrentCalls,
     requestDial, requestHangup, requestCallSelection
<1> QED
  BY <1>4, ZenonT(60) DEF CardAndCallCases, Readable

(* Success on the cases of the network and short messages can be read.     *)
LEMMA NetworkAndSmsReadable == \A c \in NetworkAndSmsCases : Readable(c[1], c[2])
<1>1. {<<"SIGNAL_STRENGTH", "getSignalStrengthResponse">>,
       <<"VOICE_REGISTRATION_STATE", "getVoiceRegistrationStateResponse">>,
       <<"DATA_REGISTRATION_STATE", "getDataRegistrationStateResponse">>,
       <<"OPERATOR", "getOperatorResponse">>, <<"RADIO_POWER", "setRadioPowerResponse">>,
       <<"DTMF", "sendDtmfResponse">>, <<"SEND_SMS", "sendSmsResponse">>,
       <<"SEND_SMS_EXPECT_MORE", "sendSMSExpectMoreResponse">>,
       <<"CDMA_SEND_SMS", "sendCdmaSmsResponse">>,
       <<"IMS_SEND_SMS", "sendImsSmsResponse">>} \subseteq s_commands
  BY DEF s_commands
<1>2. {<<"getSignalStrengthResponse", Exactly("SignalStrength_v10")>>,
       <<"getVoiceRegistrationStateResponse", Exactly("strings15")>>,
       <<"getDataRegistrationStateResponse", {"strings6", "strings11", "strings13"}>>,
       <<"getOperatorResponse", Exactly("strings3")>>, <<"setRadioPowerResponse", anything>>,
       <<"sendDtmfResponse", anything>>, <<"sendSmsResponse", makeSendSmsResult>>,
       <<"sendSMSExpectMoreResponse", makeSendSmsResult>>,
       <<"sendCdmaSmsResponse", makeSendSmsResult>>,
       <<"sendImsSmsResponse", makeSendSmsResult>>} \subseteq ResponseTable
  BY DEF ResponseTable, CdmaCallResponses, FailCauseAndSignalResponses, ImsAndChannelResponses,
     RegistrationAndPowerResponses, SendSmsAndDataCallResponses, VoiceRegistrationResponses
<1>3. /\ ReadBy("SIGNAL_STRENGTH") = Exactly("SignalStrength_v10")
      /\ ReadBy("VOICE_REGISTRATION_STATE") = Exactly("strings15")
      /\ ReadBy("DATA_REGISTRATION_STATE") = {"strings6", "strings11", "strings13"}
      /\ ReadBy("OPERATOR") = Exactly("strings3")
      /\ \A r \in {"RADIO_POWER", "DTMF"} : ReadBy(r) = anything
      /\ \A r \in {"SEND_SMS", "SEND_SMS_EXPECT_MORE", "CDMA_SEND_SMS",
             "IMS_SEND_SMS"} : ReadBy(r) = makeSendSmsResult
  BY <1>1, <1>2, Lookup, ZenonT(60)
<1>4. /\ requestSignalStrength \subseteq Good(ReadBy("SIGNAL_STRENGTH"))
      /\ requestVoiceRegistrationState \subseteq Good(ReadBy("VOICE_REGISTRATION_STATE"))
      /\ requestDataRegistrationState \subseteq Good(ReadBy("DATA_REGISTRATION_STATE"))
      /\ requestOperator \subseteq Good(ReadBy("OPERATOR"))
      /\ requestRadioPower \subseteq Good(ReadBy("RADIO_POWER"))
      /\ {Success} \subseteq Good(ReadBy("DTMF"))
      /\ \A r \in {"SEND_SMS", "SEND_SMS_EXPECT_MORE"} : requestSendSMS \subseteq Good(ReadBy(r))
      /\ requestCdmaSendSMS \subseteq Good(ReadBy("CDMA_SEND_SMS"))
      /\ requestImsSendSMS \subseteq Good(ReadBy("IMS_SEND_SMS"))
  BY <1>3, GoodPaths DEF Errors, Payloads, Exactly, anything, makeSendSmsResult,
     requestSignalStrength, requestVoiceRegistrationState, requestDataRegistrationState,
     requestOperator, requestRadioPower, requestSendSMS, requestCdmaSendSMS, requestImsSendSMS
<1> QED
  BY <1>4 DEF NetworkAndSmsCases, Readable

(* Success on the cases of SIM channels, data calls and USSD can be read.  *)
LEMMA SimAndDataReadable == \A c \in SimAndDataCases : Readable(c[1], c[2])
<1>1. {<<"SIM_OPEN_CHANNEL", "iccOpenLogicalChannelResponse">>,
       <<"SIM_CLOSE_CHANNEL", "iccCloseLogicalChannelResponse">>,
       <<"SIM_TRANSMIT_APDU_CHANNEL", "iccTransmitApduLogicalChannelResponse">>,
       <<"SIM_TRANSMIT_APDU_BASIC", "iccTransmitApduBasicChannelResponse">>,
       <<"SETUP_DATA_CALL", "setupDataCallResponse">>,
       <<"DEACTIVATE_DATA_CALL", "deactivateDataCallResponse">>,
       <<"SMS_ACKNOWLEDGE", "acknowledgeLastIncomingGsmSmsResponse">>,
       <<"GET_IMSI", "getIMSIForAppResponse">>, <<"SIM_IO", "iccIOForAppResponse">>,
       <<"SEND_USSD", "sendUssdResponse">>, <<"CANCEL_USSD", "cancelPendingUssdResponse">>,
       <<"SET_NETWORK_SELECTION_AUTOMATIC", "setNetworkSelectionModeAutomaticResponse">>,
       <<"DATA_CALL_LIST", "getDataCallListResponse">>,
       <<"QUERY_NETWORK_SELECTION_MODE", "getNetworkSelectionModeResponse">>} \subseteq s_commands
  BY DEF s_commands
<1>2. {<<"iccOpenLogicalChannelResponse", ints>>,
       <<"iccCloseLogicalChannelResponse", anything>>,
       <<"iccTransmitApduLogicalChannelResponse", responseIccIo>>,
       <<"iccTransmitApduBasicChannelResponse", responseIccIo>>,
       <<"setupDataCallResponse", ListOf("DataCalls_v11")>>,
       <<"deactivateDataCallResponse", anything>>,
       <<"acknowledgeLastIncomingGsmSmsResponse", anything>>,
       <<"getIMSIForAppResponse", anything>>, <<"iccIOForAppResponse", responseIccIo>>,
       <<"sendUssdResponse", anything>>, <<"cancelPendingUssdResponse", anything>>,
       <<"setNetworkSelectionModeAutomaticResponse", anything>>,
       <<"getDataCallListResponse", ListOf("DataCalls_v11")>>,
       <<"getNetworkSelectionModeResponse", responseInt>>} \subseteq ResponseTable
  BY DEF ResponseTable, AnswerAndLocksResponses, CallControlResponses,
     ForwardingAndWaitingResponses, ImsAndChannelResponses, MuteAndDataCallsResponses,
     NetworkSelectionResponses, NvAndUiccResponses, SendSmsAndDataCallResponses,
     SimIoAndUssdResponses
<1>3. /\ ReadBy("SIM_OPEN_CHANNEL") = ints
      /\ \A r \in {"SIM_CLOSE_CHANNEL", "DEACTIVATE_DATA_CALL", "SMS_ACKNOWLEDGE", "GET_IMSI",
             "SEND_USSD", "CANCEL_USSD",
             "SET_NETWORK_SELECTION_AUTOMATIC"} : ReadBy(r) = anything
      /\ \A r \in {"SIM_TRANSMIT_APDU_CHANNEL", "SIM_TRANSMIT_APDU_BASIC",
             "SIM_IO"} : ReadBy(r) = responseIccIo
      /\ \A r \in {"SETUP_DATA_CALL", "DATA_CALL_LIST"} : ReadBy(r) = ListOf("DataCalls_v11")
      /\ ReadBy("QUERY_NETWORK_SELECTION_MODE") = responseInt
  BY <1>1, <1>2, Lookup, ZenonT(60)
<1>4. /\ requestSimOpenChannel \subseteq Good(ReadBy("SIM_OPEN_CHANNEL"))
      /\ requestSimCloseChannel \subseteq Good(ReadBy("SIM_CLOSE_CHANNEL"))
      /\ \A r \in {"SIM_TRANSMIT_APDU_CHANNEL",
             "SIM_TRANSMIT_APDU_BASIC"} : requestSimTransmitApduChannel \subseteq Good(ReadBy(r))
      /\ requestSetupDataCall \subseteq Good(ReadBy("SETUP_DATA_CALL"))
      /\ requestDeactivateDataCall \subseteq Good(ReadBy("DEACTIVATE_DATA_CALL"))
      /\ requestSMSAcknowledge \subseteq Good(ReadBy("SMS_ACKNOWLEDGE"))
      /\ {Failure, With("SUCCESS", "text")} \subseteq Good(ReadBy("GET_IMSI"))
      /\ requestSIM_IO \subseteq Good(ReadBy("SIM_IO"))
      /\ requestSendUSSD \subseteq Good(ReadBy("SEND_USSD"))
      /\ {Done("RADIO_NOT_AVAILABLE"), Failure, With("SUCCESS", "text")}
           \subseteq Good(ReadBy("CANCEL_USSD"))
      /\ setNetworkSelectionAutomatic \subseteq Good(ReadBy("SET_NETWORK_SELECTION_AUTOMATIC"))
      /\ requestOrSendDataCallList \subseteq Good(ReadBy("DATA_CALL_LIST"))
      /\ requestQueryNetworkSelectionMode \subseteq Good(ReadBy("QUERY_NETWORK_SELECTION_MODE"))
  BY <1>3, GoodPaths DEF Errors, Payloads, ListOf, anything, ints, responseInt, responseIccIo,
     requestSimOpenChannel, requestSimCloseChannel, requestSimTransmitApduChannel,
     requestSetupDataCall, requestDeactivateDataCall, requestSMSAcknowledge, requestSIM_IO,
     requestSendUSSD, setNetworkSelectionAutomatic, requestOrSendDataCallList,
     requestQueryNetworkSelectionMode, setInterfaceState
<1> QED
  BY <1>4 DEF SimAndDataCases, Readable

(* Success on the cases of stored messages and PINs can be read.           *)
LEMMA SmsStorageAndPinReadable == \A c \in SmsStorageAndPinCases : Readable(c[1], c[2])
<1>1. {<<"DELETE_SMS_ON_SIM", "deleteSmsOnSimResponse">>,
       <<"ENTER_SIM_PIN", "supplyIccPinForAppResponse">>,
       <<"ENTER_SIM_PUK", "supplyIccPukForAppResponse">>,
       <<"ENTER_SIM_PIN2", "supplyIccPin2ForAppResponse">>,
       <<"ENTER_SIM_PUK2", "supplyIccPuk2ForAppResponse">>,
       <<"CHANGE_SIM_PIN", "changeIccPinForAppResponse">>,
       <<"CHANGE_SIM_PIN2", "changeIccPin2ForAppResponse">>,
       <<"IMS_REGISTRATION_STATE", "getImsRegistrationStateResponse">>,
       <<"VOICE_RADIO_TECH", "getVoiceRadioTechnologyResponse">>} \subseteq s_commands
  BY DEF s_commands
<1>2. {<<"deleteSmsOnSimResponse", anything>>,
       <<"supplyIccPinForAppResponse", responseIntOrEmpty>>,
       <<"supplyIccPukForAppResponse", responseIntOrEmpty>>,
       <<"supplyIccPin2ForAppResponse", responseIntOrEmpty>>,
       <<"supplyIccPuk2ForAppResponse", responseIntOrEmpty>>,
       <<"changeIccPinForAppResponse", responseIntOrEmpty>>,
       <<"changeIccPin2ForAppResponse", responseIntOrEmpty>>,
       <<"getImsRegistrationStateResponse", Exactly("ints2")>>,
       <<"getVoiceRadioTechnologyResponse", responseInt>>} \subseteq ResponseTable
  BY DEF ResponseTable, CardAndPinResponses, CellInfoResponses, ImsAndChannelResponses,
     PinChangeAndDialResponses, SmsStorageResponses
<1>3. /\ ReadBy("DELETE_SMS_ON_SIM") = anything
      /\ \A r \in {"ENTER_SIM_PIN", "ENTER_SIM_PUK", "ENTER_SIM_PIN2", "ENTER_SIM_PUK2",
             "CHANGE_SIM_PIN", "CHANGE_SIM_PIN2"} : ReadBy(r) = responseIntOrEmpty
      /\ ReadBy("IMS_REGISTRATION_STATE") = Exactly("ints2")
      /\ ReadBy("VOICE_RADIO_TECH") = responseInt
  BY <1>1, <1>2, Lookup, ZenonT(60)
<1>4. /\ {Failure, Success} \subseteq Good(ReadBy("DELETE_SMS_ON_SIM"))
      /\ \A r \in {"ENTER_SIM_PIN", "ENTER_SIM_PUK", "ENTER_SIM_PIN2", "ENTER_SIM_PUK2",
             "CHANGE_SIM_PIN", "CHANGE_SIM_PIN2"} : requestEnterSimPin \subseteq Good(ReadBy(r))
      /\ {With("SUCCESS", "ints2"), Failure} \subseteq Good(ReadBy("IMS_REGISTRATION_STATE"))
      /\ {Failure, With("SUCCESS", "int")} \subseteq Good(ReadBy("VOICE_RADIO_TECH"))
  BY <1>3, GoodPaths DEF Errors, Payloads, Exactly, anything, responseInt, responseIntOrEmpty,
     requestEnterSimPin
<1> QED
  BY <1>4 DEF SmsStorageAndPinCases, Readable

(* Success on the cases of settings and device queries can be read.        *)
LEMMA SettingsReadable == \A c \in SettingsCases : Readable(c[1], c[2])
<1>1. {<<"SET_PREFERRED_NETWORK_TYPE", "setPreferredNetworkTypeResponse">>,
       <<"GET_PREFERRED_NETWORK_TYPE", "getPreferredNetworkTypeResponse">>,
       <<"GET_CELL_INFO_LIST", "getCellInfoListResponse">>,
       <<"SET_UNSOL_CELL_INFO_LIST_RATE", "setCellInfoListRateResponse">>,
       <<"GET_HARDWARE_CONFIG", "getHardwareConfigResponse">>,
       <<"SHUTDOWN", "requestShutdownResponse">>, <<"QUERY_TTY_MODE", "getTTYModeResponse">>,
       <<"GET_RADIO_CAPABILITY", "getRadioCapabilityResponse">>,
       <<"GET_MUTE", "getMuteResponse">>,
       <<"SET_INITIAL_ATTACH_APN", "setInitialAttachApnResponse">>,
       <<"ALLOW_DATA", "setDataAllowedResponse">>,
       <<"ENTER_NETWORK_DEPERSONALIZATION", "supplyNetworkDepersonalizationResponse">>,
       <<"SET_CLIR", "setClirResponse">>,
       <<"SET_SUPP_SVC_NOTIFICATION", "setSuppServiceNotificationsResponse">>,
       <<"SET_BAND_MODE", "setBandModeResponse">>,
       <<"QUERY_AVAILABLE_BAND_MODE", "getAvailableBandModesResponse">>,
       <<"GET_NEIGHBORING_CELL_IDS", "getNeighboringCidsResponse">>,
       <<"SET_LOCATION_UPDATES", "setLocationUpdatesResponse">>,
       <<"SET_TTY_MODE", "setTTYModeResponse">>,
       <<"CDMA_SET_PREFERRED_VOICE_PRIVACY_MODE", "setPreferredVoicePrivacyResponse">>,
       <<"SIM_AUTHENTICATION", "requestIccSimAuthenticationResponse">>} \subseteq s_commands
  BY DEF s_commands
<1>2. {<<"setPreferredNetworkTypeResponse", anything>>,
       <<"getPreferredNetworkTypeResponse", responseInt>>,
       <<"getCellInfoListResponse", ListOf("CellInfos_v12")>>,
       <<"setCellInfoListRateResponse", anything>>,
       <<"getHardwareConfigResponse", ListOf("HardwareConfigs")>>,
       <<"requestShutdownResponse", anything>>, <<"getTTYModeResponse", responseInt>>,
       <<"getRadioCapabilityResponse", responseRadioCapability>>,
       <<"getMuteResponse", responseInt>>, <<"setInitialAttachApnResponse", anything>>,
       <<"setDataAllowedResponse", anything>>,
       <<"supplyNetworkDepersonalizationResponse", responseIntOrEmpty>>,
       <<"setClirResponse", anything>>, <<"setSuppServiceNotificationsResponse", anything>>,
       <<"setBandModeResponse", anything>>, <<"getAvailableBandModesResponse", ints>>,
       <<"getNeighboringCidsResponse", ListOf("NeighboringCells")>>,
       <<"setLocationUpdatesResponse", anything>>, <<"setTTYModeResponse", anything>>,
       <<"setPreferredVoicePrivacyResponse", anything>>,
       <<"requestIccSimAuthenticationResponse", responseIccIo>>} \subseteq ResponseTable
  BY DEF ResponseTable, CdmaPreferenceResponses, CellInfoResponses, HardwareAndProfileResponses,
     MuteAndDataCallsResponses, NvAndUiccResponses, PinChangeAndDialResponses,
     SimIoAndUssdResponses, SmsStorageResponses, StkAndNetworkTypeResponses
<1>3. /\ \A r \in {"SET_PREFERRED_NETWORK_TYPE", "SET_UNSOL_CELL_INFO_LIST_RATE", "SHUTDOWN",
             "SET_INITIAL_ATTACH_APN", "ALLOW_DATA", "SET_CLIR", "SET_SUPP_SVC_NOTIFICATION",
             "SET_BAND_MODE", "SET_LOCATION_UPDATES", "SET_TTY_MODE",
             "CDMA_SET_PREFERRED_VOICE_PRIVACY_MODE"} : ReadBy(r) = anything
      /\ \A r \in {"GET_PREFERRED_NETWORK_TYPE", "QUERY_TTY_MODE",
             "GET_MUTE"} : ReadBy(r) = responseInt
      /\ ReadBy("GET_CELL_INFO_LIST") = ListOf("CellInfos_v12")
      /\ ReadBy("GET_HARDWARE_CONFIG") = ListOf("HardwareConfigs")
      /\ ReadBy("GET_RADIO_CAPABILITY") = responseRadioCapability
      /\ ReadBy("ENTER_NETWORK_DEPERSONALIZATION") = responseIntOrEmpty
      /\ ReadBy("QUERY_AVAILABLE_BAND_MODE") = ints
      /\ ReadBy("GET_NEIGHBORING_CELL_IDS") = ListOf("NeighboringCells")
      /\ ReadBy("SIM_AUTHENTICATION") = responseIccIo
  BY <1>1, <1>2, Lookup
<1>4. /\ requestSetPreferredNetworkType \subseteq Good(ReadBy("SET_PREFERRED_NETWORK_TYPE"))
      /\ requestGetPreferredNetworkType \subseteq Good(ReadBy("GET_PREFERRED_NETWORK_TYPE"))
      /\ requestGetCellInfoList \subseteq Good(ReadBy("GET_CELL_INFO_LIST"))
      /\ requestSetCellInfoListRate \subseteq Good(ReadBy("SET_UNSOL_CELL_INFO_LIST_RATE"))
      /\ requestGetHardwareConfig \subseteq Good(ReadBy("GET_HARDWARE_CONFIG"))
      /\ requestShutdown \subseteq Good(ReadBy("SHUTDOWN"))
      /\ requestGetTtyMode \subseteq Good(ReadBy("QUERY_TTY_MODE"))
      /\ requestGetRadioCapability \subseteq Good(ReadBy("GET_RADIO_CAPABILITY"))
      /\ requestGetMute \subseteq Good(ReadBy("GET_MUTE"))
      /\ \A r \in {"SET_INITIAL_ATTACH_APN", "ALLOW_DATA", "ENTER_NETWORK_DEPERSONALIZATION",
             "SET_CLIR", "SET_SUPP_SVC_NOTIFICATION", "SET_BAND_MODE",
             "QUERY_AVAILABLE_BAND_MODE", "GET_NEIGHBORING_CELL_IDS", "SET_LOCATION_UPDATES",
             "SET_TTY_MODE",
             "CDMA_SET_PREFERRED_VOICE_PRIVACY_MODE"} : {Success} \subseteq Good(ReadBy(r))
      /\ requestGetSimAuthentication \subseteq Good(ReadBy("SIM_AUTHENTICATION"))
  BY <1>3, GoodPaths DEF Errors, Payloads, ListOf, anything, ints, responseInt,
     responseIntOrEmpty, responseIccIo, responseRadioCapability, requestSetPreferredNetworkType,
     requestGetPreferredNetworkType, requestGetCellInfoList, requestSetCellInfoListRate,
     requestGetHardwareConfig, requestShutdown, requestGetTtyMode, requestGetRadioCapability,
     requestGetMute, requestGetSimAuthentication
<1> QED
  BY <1>4 DEF SettingsCases, Readable

(* Success on the cases of CDMA, LCE and the carriers can be read.         *)
LEMMA CdmaAndCarrierReadable == \A c \in CdmaAndCarrierCases : Readable(c[1], c[2])
<1>1. {<<"BASEBAND_VERSION", "getBasebandVersionResponse">>,
       <<"DEVICE_IDENTITY", "getDeviceIdentityResponse">>,
       <<"CDMA_SUBSCRIPTION", "getCDMASubscriptionResponse">>,
       <<"CDMA_GET_SUBSCRIPTION_SOURCE", "getCdmaSubscriptionSourceResponse">>,
       <<"START_LCE", "startLceServiceResponse">>, <<"STOP_LCE", "stopLceServiceResponse">>,
       <<"PULL_LCEDATA", "pullLceDataResponse">>,
       <<"CDMA_QUERY_ROAMING_PREFERENCE", "getCdmaRoamingPreferenceResponse">>,
       <<"CDMA_SET_SUBSCRIPTION_SOURCE", "setCdmaSubscriptionSourceResponse">>,
       <<"CDMA_SET_ROAMING_PREFERENCE", "setCdmaRoamingPreferenceResponse">>,
       <<"EXIT_EMERGENCY_CALLBACK_MODE", "exitEmergencyCallbackModeResponse">>,
       <<"GET_ACTIVITY_INFO", "getModemActivityInfoResponse">>} \subseteq s_commands
  BY DEF s_commands
<1>2. {<<"getBasebandVersionResponse", anything>>,
       <<"getDeviceIdentityResponse", Exactly("strings4")>>,
       <<"getCDMASubscriptionResponse", Exactly("strings5")>>,
       <<"getCdmaSubscriptionSourceResponse", responseInt>>,
       <<"startLceServiceResponse", responseLceStatusInfo>>,
       <<"stopLceServiceResponse", responseLceStatusInfo>>,
       <<"pullLceDataResponse", Exactly("LceDataInfo")>>,
       <<"getCdmaRoamingPreferenceResponse", responseInt>>,
       <<"setCdmaSubscriptionSourceResponse", anything>>,
       <<"setCdmaRoamingPreferenceResponse", anything>>,
       <<"exitEmergencyCallbackModeResponse", anything>>,
       <<"getModemActivityInfoResponse", Exactly("ActivityStatsInfo")>>} \subseteq ResponseTable
  BY DEF ResponseTable, CdmaIdentityResponses, CdmaPreferenceResponses, LceAndCarriersResponses,
     MuteAndDataCallsResponses, SmscAndIsimResponses
<1>3. /\ \A r \in {"BASEBAND_VERSION", "CDMA_SET_SUBSCRIPTION_SOURCE", "CDMA_SET_ROAMING_PREFERENCE",
             "EXIT_EMERGENCY_CALLBACK_MODE"} : ReadBy(r) = anything
      /\ ReadBy("DEVICE_IDENTITY") = Exactly("strings4")
      /\ ReadBy("CDMA_SUBSCRIPTION") = Exactly("strings5")
      /\ \A r \in {"CDMA_GET_SUBSCRIPTION_SOURCE",
             "CDMA_QUERY_ROAMING_PREFERENCE"} : ReadBy(r) = responseInt
      /\ \A r \in {"START_LCE", "STOP_LCE"} : ReadBy(r) = responseLceStatusInfo
      /\ ReadBy("PULL_LCEDATA") = Exactly("LceDataInfo")
      /\ ReadBy("GET_ACTIVITY_INFO") = Exactly("ActivityStatsInfo")
  BY <1>1, <1>2, Lookup
<1>4. /\ requestCdmaBaseBandVersion \subseteq Good(ReadBy("BASEBAND_VERSION"))
      /\ requestDeviceIdentity \subseteq Good(ReadBy("DEVICE_IDENTITY"))
      /\ requestCdmaSubscription \subseteq Good(ReadBy("CDMA_SUBSCRIPTION"))
      /\ requestCdmaGetSubscriptionSource \subseteq Good(ReadBy("CDMA_GET_SUBSCRIPTION_SOURCE"))
      /\ \A r \in {"START_LCE", "STOP_LCE",
             "PULL_LCEDATA"} : {Done("SIM_ABSENT"), Done("LCE_NOT_SUPPORTED")}
                  \subseteq Good(ReadBy(r))
      /\ (requestCdmaGetRoamingPreference \cup {Done("REQUEST_NOT_SUPPORTED")})
           \subseteq Good(ReadBy("CDMA_QUERY_ROAMING_PREFERENCE"))
      /\ (requestCdmaSetSubscriptionSource \cup {Success})
           \subseteq Good(ReadBy("CDMA_SET_SUBSCRIPTION_SOURCE"))
      /\ (requestCdmaSetRoamingPreference \cup {Success})
           \subseteq Good(ReadBy("CDMA_SET_ROAMING_PREFERENCE"))
      /\ (requestExitEmergencyMode \cup {Success})
           \subseteq Good(ReadBy("EXIT_EMERGENCY_CALLBACK_MODE"))
      /\ requestModemActivityInfo \subseteq Good(ReadBy("GET_ACTIVITY_INFO"))
  BY <1>3, GoodPaths, SMTT(60) DEF Errors, Payloads, Exactly, anything, responseInt,
     responseLceStatusInfo, requestCdmaBaseBandVersion, requestDeviceIdentity,
     requestCdmaSubscription, requestCdmaGetSubscriptionSource, requestCdmaGetRoamingPreference,
     requestCdmaSetSubscriptionSource, requestCdmaSetRoamingPreference,
     requestExitEmergencyMode, requestModemActivityInfo
<1> QED
  BY <1>4 DEF CdmaAndCarrierCases, Readable

(* ... so that every success on a path through onRequest can be read.      *)
LEMMA OnRequestReadable ==
  ASSUME NEW r, NEW sState, NEW path \in onRequest(r, sState)
  PROVE  Readable(r, path)
<1>1. /\ Done("RADIO_NOT_AVAILABLE") \in Good(ReadBy(r))
      /\ Done("REQUEST_NOT_SUPPORTED") \in Good(ReadBy(r))
  BY GoodPaths DEF Errors
<1>2. \A c \in Cases : Readable(c[1], c[2])
  BY CardAndCallReadable, NetworkAndSmsReadable, SimAndDataReadable, SmsStorageAndPinReadable,
     SettingsReadable, CdmaAndCarrierReadable DEF Cases
<1>3. ASSUME NEW p \in {c[2] : c \in {d \in Cases : d[1] = r}} PROVE Readable(r, p)
  BY <1>2
<1> QED
  BY <1>1, <1>3 DEF onRequest, Readable

(* Tail and Head of the completions that are left.                         *)
LEMMA GoodTail ==
  ASSUME NEW P, NEW s \in Good(P), Len(s) >= 1
  PROVE  /\ Tail(s) \in Good(P)
         /\ Head(s) \in Completion
         /\ Head(s).error = "SUCCESS" => Head(s).payload \in P
<1>1. /\ s \in Seq(Completion) /\ s # <<>>
      /\ \A i \in 1..Len(s) : s[i].error = "SUCCESS" => s[i].payload \in P
  BY DEF Good
<1>2. /\ Tail(s) \in Seq(Completion) /\ Len(Tail(s)) = Len(s) - 1
      /\ \A i \in 1..Len(Tail(s)) : i + 1 \in 1..Len(s) /\ Tail(s)[i] = s[i + 1]
  BY <1>1
<1>3. Head(s) = s[1] /\ 1 \in 1..Len(s) /\ s[1] \in Completion
  BY <1>1
<1>4. Tail(s) \in Good(P)
  BY <1>1, <1>2, ZenonT(60) DEF Good
<1> QED
  BY <1>1, <1>3, <1>4

(* A RequestInfo on the list is the one of its call, and what the handler  *)
(* has still to complete it with can be read.                              *)
CallInv ==
  \A t \in Threads :
    /\ pc[t] \in {"dispatch", "handler"} =>
         /\ call[t] \in RadioMethods
         /\ Pending(pRI[t]) => info[pRI[t]].request = request(t)
    /\ pc[t] = "handler" => Readable(request(t), todo[t])

ReadInv == TypeOK /\ CallInv /\ SuccessIsReadable

(* What a response function does for a call that has no answer yet.        *)
LEMMA Answer ==
  ASSUME NEW t \in Threads, NEW ri, NEW c, responseFunction(t, ri, c), answers[t] = <<>>
  PROVE  /\ mRadioResponse' \in {mRadioResponse, "NULL"}
         /\ stray' \in BOOLEAN /\ unheard' \in [Threads -> BOOLEAN]
         /\ \/ answers' = [u \in Threads |-> <<>>]
            \/ \E a : /\ answers' = [u \in Threads |-> <<a>>]
                      /\ a = [vendor |-> c.error, by |-> serial[t],
                              error |-> IF c.error = "SUCCESS" /\ c.payload \notin ReadBy(ri.request)
                                        THEN "INVALID_RESPONSE" ELSE c.error]
<1> DEFINE f == ResponseFunction[ri.request]
           called == /\ mRadioResponse # "NULL"
                     /\ f \in OnlyV1_1 => mRadioResponse # "1_0"
           heard == called /\ alive
           a == [vendor |-> c.error,
                 error |-> IF c.error = "SUCCESS" /\ c.payload \notin Reads[f]
                           THEN "INVALID_RESPONSE" ELSE c.error,
                 by |-> serial[t]]
<1>1. /\ answers' = [u \in Threads |->
                       IF heard /\ serial[u] = ri.token
                       THEN Append(answers[u], a) ELSE answers[u]]
      /\ unheard' = [u \in Threads |-> unheard[u] \/ (~heard /\ serial[u] = ri.token)]
      /\ stray' = (stray \/ \A u \in Threads : serial[u] # ri.token)
      /\ mRadioResponse' = IF called /\ ~alive THEN "NULL" ELSE mRadioResponse
  BY ZenonT(60) DEF responseFunction
<1>2. a = [vendor |-> c.error, by |-> serial[t],
           error |-> IF c.error = "SUCCESS" /\ c.payload \notin ReadBy(ri.request)
                     THEN "INVALID_RESPONSE" ELSE c.error]
  BY ZenonT(60) DEF ReadBy
<1> HIDE DEF heard, called, a
<1>3. mRadioResponse' \in {mRadioResponse, "NULL"} /\ stray' \in BOOLEAN
  BY <1>1, ZenonT(60)
<1>4. unheard' \in [Threads -> BOOLEAN]
  BY <1>1, ZenonT(60)
<1>5. CASE heard /\ serial[t] = ri.token
  <2>1. answers' = [u \in Threads |-> Append(<<>>, a)]
    BY <1>1, <1>5, OneThread, ZenonT(60)
  <2>2. Append(<<>>, a) = <<a>>
    BY SMTT(60)
  <2> QED
    BY <1>2, <1>3, <1>4, <2>1, <2>2, ZenonT(60)
<1>6. CASE ~(heard /\ serial[t] = ri.token)
  <2>1. answers' = [u \in Threads |-> <<>>]
    BY <1>1, <1>6, OneThread, SMTT(60)
  <2> QED
    BY <1>3, <1>4, <2>1, ZenonT(60)
<1> QED
  BY <1>5, <1>6, ZenonT(60)

(* The next serial number stays within its bound.                          *)
LEMMA SerialGrows ==
  ASSUME NEW m \in Nat, NEW n \in 1..(m + 1), n <= m
  PROVE  n \in Nat /\ n + 1 \in 1..(m + 1)
OBVIOUS

(* There is nothing to read in no answer.                                  *)
LEMMA NoAnswer == 1..Len(<<>>) = {}
OBVIOUS

(* ... and what follows for the answers of the call.                       *)
LEMMA AnswerRead ==
  ASSUME ReadInv, NEW t \in Threads, NEW ri, NEW c, responseFunction(t, ri, c), answers[t] = <<>>,
         c.error \in CallErrors, ri.request = request(t), UNCHANGED call,
         request(t) \notin {"WRITE_SMS_TO_SIM", "SET_CARRIER_RESTRICTIONS"} =>
           (c.error = "SUCCESS" => c.payload \in ReadBy(request(t)))
  PROVE  /\ answers' \in [Threads -> Seq([vendor : CallErrors, by : Nat,
                                          error : CallErrors \cup {"INVALID_RESPONSE"}])]
         /\ mRadioResponse' \in Versions \cup {"NULL"}
         /\ stray' \in BOOLEAN /\ unheard' \in [Threads -> BOOLEAN]
         /\ SuccessIsReadable'
<1> DEFINE A == [vendor : CallErrors, by : Nat, error : CallErrors \cup {"INVALID_RESPONSE"}]
<1>1. /\ mRadioResponse' \in {mRadioResponse, "NULL"}
      /\ stray' \in BOOLEAN /\ unheard' \in [Threads -> BOOLEAN]
  BY Answer, ZenonT(60)
<1>2. mRadioResponse' \in Versions \cup {"NULL"}
  BY <1>1 DEF ReadInv, TypeOK
<1>3. CASE answers' = [u \in Threads |-> <<>>]
  <2>1. answers' \in [Threads -> Seq(A)]
    BY <1>3
  <2>2. SuccessIsReadable'
    BY <1>3, NoAnswer, ZenonT(60) DEF SuccessIsReadable
  <2> QED
    BY <1>1, <1>2, <2>1, <2>2, ZenonT(60)
<1>4. CASE \E a : /\ answers' = [u \in Threads |-> <<a>>]
                  /\ a = [vendor |-> c.error, by |-> serial[t],
                          error |-> IF c.error = "SUCCESS" /\ c.payload \notin ReadBy(ri.request)
                                    THEN "INVALID_RESPONSE" ELSE c.error]
  <2>1. PICK a : /\ answers' = [u \in Threads |-> <<a>>]
                 /\ a = [vendor |-> c.error, by |-> serial[t],
                         error |-> IF c.error = "SUCCESS" /\ c.payload \notin ReadBy(ri.request)
                                   THEN "INVALID_RESPONSE" ELSE c.error]
    BY <1>4
  <2>2. a \in A
    BY <2>1, ZenonT(60) DEF ReadInv, TypeOK
  <2>3. answers' \in [Threads -> Seq(A)]
    <3> HIDE DEF A
    <3>1. <<a>> \in Seq(A)
      BY <2>2
    <3> QED
      BY <2>1, <3>1, ZenonT(60)
  <2>4. ASSUME NEW u \in Threads, NEW i \in 1..Len(answers'[u])
        PROVE  answers'[u][i] = a /\ request(u)' = request(t)
    <3>1. answers'[u] = <<a>> /\ u = t
      BY <2>1, OneThread
    <3>2. i = 1
      BY <3>1
    <3> QED
      BY <3>1, <3>2, SMTT(60) DEF request
  <2>5. SuccessIsReadable'
    <3>1. a.vendor = "SUCCESS" /\ request(t) \notin {"WRITE_SMS_TO_SIM", "SET_CARRIER_RESTRICTIONS"}
          => a.error = "SUCCESS"
      BY <2>1
    <3> QED
      BY <2>4, <3>1, ZenonT(60) DEF SuccessIsReadable
  <2> QED
    BY <1>1, <1>2, <2>3, <2>5, ZenonT(60)
<1> QED
  BY <1>3, <1>4, Answer, ZenonT(60)

(* A method never refuses a call with SUCCESS.                             *)
LEMMA MethodsRefuse == \A row \in RadioMethods : "SUCCESS" \notin row[3]
<1> DEFINE Refuses(S) == \A row \in S : "SUCCESS" \notin row[3]
<1>1. /\ "SUCCESS" \notin plainStruct /\ "SUCCESS" \notin dispatchVoid
      /\ "SUCCESS" \notin dispatchRaw /\ "SUCCESS" \notin copyHidlStringToRil
      /\ "SUCCESS" \notin dispatchString /\ "SUCCESS" \notin dispatchStrings
      /\ "SUCCESS" \notin dispatchInts /\ "SUCCESS" \notin dispatchCallForwardStatus
      /\ "SUCCESS" \notin dispatchIccApdu /\ "SUCCESS" \notin checkedArguments
      /\ "SUCCESS" \notin imsSms /\ "SUCCESS" \notin notSupported
  BY DEF plainStruct, dispatchVoid, dispatchRaw, copyHidlStringToRil, dispatchString,
     dispatchStrings, dispatchInts, dispatchCallForwardStatus, dispatchIccApdu,
     checkedArguments, imsSms, notSupported
<1>2. /\ Refuses(SimPinAndDialMethods) /\ Refuses(CallsAndRegistrationMethods)
      /\ Refuses(DataCallAndUssdMethods) /\ Refuses(SupplementaryServicesMethods)
  BY <1>1 DEF SimPinAndDialMethods, CallsAndRegistrationMethods, DataCallAndUssdMethods,
     SupplementaryServicesMethods
<1>3. /\ Refuses(ScanAndDtmfMethods) /\ Refuses(SmsStorageAndStkMethods)
      /\ Refuses(CdmaSettingsMethods) /\ Refuses(BroadcastSmsMethods)
  BY <1>1 DEF ScanAndDtmfMethods, SmsStorageAndStkMethods, CdmaSettingsMethods,
     BroadcastSmsMethods
<1>4. /\ Refuses(IdentityAndStkMethods) /\ Refuses(AttachApnMethods)
      /\ Refuses(ImsSmsMethods) /\ Refuses(SimChannelsAndNvMethods)
  BY <1>1 DEF IdentityAndStkMethods, AttachApnMethods, ImsSmsMethods, SimChannelsAndNvMethods
<1>5. /\ Refuses(SubscriptionAndAuthMethods) /\ Refuses(DataProfileMethods)
      /\ Refuses(CapabilityAndCarriersMethods) /\ Refuses(DeviceStateAndKeepaliveMethods)
  BY <1>1 DEF SubscriptionAndAuthMethods, DataProfileMethods, CapabilityAndCarriersMethods,
     DeviceStateAndKeepaliveMethods
<1> QED
  BY <1>2, <1>3, <1>4, <1>5 DEF RadioMethods

(* The RequestInfo that is linked has the request of the row.              *)
LEMMA AddReads ==
  ASSUME Inv, Inv', ReadInv, NEW t \in Threads, NEW row \in RadioMethods, NEW a \in Addrs,
         addRequestToList(t, row, a)
  PROVE  ReadInv'
<1>1. /\ nextSerial <= MaxCalls /\ pc[t] = "idle"
      /\ info' = [info EXCEPT ![a] = [token |-> nextSerial, request |-> row[2]]]
      /\ pc' = [pc EXCEPT ![t] = "dispatch"]
      /\ call' = [call EXCEPT ![t] = row]
      /\ serial' = [serial EXCEPT ![t] = nextSerial]
      /\ pRI' = [pRI EXCEPT ![t] = a]
      /\ nextSerial' = nextSerial + 1
      /\ todo' = todo /\ answers' = answers /\ unheard' = unheard /\ stray' = stray
      /\ refused' = refused /\ mRadioResponse' = mRadioResponse /\ alive' = alive
  BY ZenonT(60) DEF addRequestToList, clientVars
<1>2. row[2] \in Requests
  BY ZenonT(60) DEF Requests
<1>3. nextSerial \in Nat /\ nextSerial' \in 1..(MaxCalls + 1)
  BY <1>1, RequestsAssumption, SerialGrows, ZenonT(60) DEF ReadInv, TypeOK
<1>4. info' \in [Addrs -> [token : Nat, request : Requests \cup {"none"}]]
  BY <1>1, <1>2, <1>3, ZenonT(60) DEF ReadInv, TypeOK
<1>5. s_pendingRequests' \in Seq(Addrs)
  BY ZenonT(60) DEF Inv, TypeInv
<1>6. TypeOK'
  BY <1>1, <1>3, <1>4, <1>5, ZenonT(60) DEF ReadInv, TypeOK
<1>7. \A u \in Threads :
        /\ pc'[u] = "dispatch" /\ call'[u] = row /\ pRI'[u] = a /\ answers'[u] = <<>>
        /\ info'[a].request = row[2]
  BY <1>1, OneThread, ZenonT(60) DEF ReadInv, TypeOK, Inv, PhaseInv
<1>8. CallInv'
  BY <1>7, ZenonT(60) DEF CallInv, request
<1>9. SuccessIsReadable'
  BY <1>7 DEF SuccessIsReadable
<1> QED
  BY <1>6, <1>8, <1>9 DEF ReadInv

(* Without memory there is no answer.                                      *)
LEMMA AllocationFailsReads ==
  ASSUME Inv, Inv', ReadInv, NEW t \in Threads, NEW row \in RadioMethods, allocationFails(t, row)
  PROVE  ReadInv'
<1>1. /\ nextSerial <= MaxCalls /\ pc[t] = "idle"
      /\ pc' = [pc EXCEPT ![t] = IF row[2] \in RefusedOutright THEN "crashed" ELSE "return"]
      /\ call' = [call EXCEPT ![t] = row]
      /\ serial' = [serial EXCEPT ![t] = nextSerial]
      /\ unheard' = [unheard EXCEPT ![t] = TRUE]
      /\ nextSerial' = nextSerial + 1
      /\ s_pendingRequests' = s_pendingRequests /\ info' = info /\ pRI' = pRI
      /\ todo' = todo /\ answers' = answers /\ stray' = stray
      /\ refused' = refused /\ mRadioResponse' = mRadioResponse /\ alive' = alive
  BY ZenonT(60) DEF allocationFails
<1>2. nextSerial \in Nat /\ nextSerial' \in 1..(MaxCalls + 1)
  BY <1>1, RequestsAssumption DEF ReadInv, TypeOK
<1>3. TypeOK'
  BY <1>1, <1>2, ZenonT(60) DEF ReadInv, TypeOK
<1>4. \A u \in Threads : pc'[u] \in {"crashed", "return"} /\ answers'[u] = <<>>
  BY <1>1, OneThread, ZenonT(60) DEF ReadInv, TypeOK, Inv, PhaseInv
<1>5. CallInv' /\ SuccessIsReadable'
  BY <1>4, NoAnswer, ZenonT(60) DEF CallInv, SuccessIsReadable
<1> QED
  BY <1>3, <1>5, ZenonT(60) DEF ReadInv

(* A refusal is an error of the method.                                    *)
LEMMA RefuseReads ==
  ASSUME Inv, Inv', ReadInv, NEW t \in Threads, sendErrorResponse(t)
  PROVE  ReadInv'
<1>1. /\ pc[t] = "dispatch"
      /\ refused' = refused \cup {pRI[t]}
      /\ pc' = [pc EXCEPT ![t] = "return"]
      /\ s_pendingRequests' = s_pendingRequests /\ info' = info
      /\ call' = call /\ serial' = serial /\ pRI' = pRI /\ todo' = todo
      /\ alive' = alive /\ nextSerial' = nextSerial
  BY ZenonT(60) DEF sendErrorResponse, threadVars
<1>2. PICK e \in call[t][3] :
        responseFunction(t, info[pRI[t]], [error |-> e, payload |-> "null"])
  BY ZenonT(60) DEF sendErrorResponse
<1>3. Fresh(t)
  BY <1>1, ZenonT(60) DEF Inv, PhaseInv
<1>4. call[t] \in RadioMethods /\ info[pRI[t]].request = request(t)
  BY <1>1, <1>3, ZenonT(60) DEF ReadInv, CallInv, Fresh
<1>5. e \in CallErrors
  BY <1>2, <1>4, ZenonT(60) DEF CallErrors
<1>6. e # "SUCCESS"
  BY <1>2, <1>4, MethodsRefuse, ZenonT(60)
<1>7. PICK c : c = [error |-> e, payload |-> "null"]
  BY ZenonT(60)
<1>8. c.error = e
  BY <1>7
<1>9. responseFunction(t, info[pRI[t]], c)
  BY <1>2, <1>7, ZenonT(60)
<1>10. answers[t] = <<>>
  BY <1>3, ZenonT(60) DEF Fresh
<1>11. /\ answers' \in [Threads -> Seq([vendor : CallErrors, by : Nat,
                                       error : CallErrors \cup {"INVALID_RESPONSE"}])]
       /\ mRadioResponse' \in Versions \cup {"NULL"}
       /\ stray' \in BOOLEAN /\ unheard' \in [Threads -> BOOLEAN]
       /\ SuccessIsReadable'
  BY <1>1, <1>4, <1>5, <1>6, <1>8, <1>9, <1>10, AnswerRead, ZenonT(60)
<1>12. pRI[t] \in Addrs
  BY <1>3, SMTT(60) DEF Fresh
<1>13. TypeOK'
  BY <1>1, <1>11, <1>12, ZenonT(60) DEF ReadInv, TypeOK
<1>14. CallInv'
  <2>1. \A u \in Threads : pc'[u] = "return"
    BY <1>1, OneThread, ZenonT(60) DEF ReadInv, TypeOK
  <2> QED
    BY <2>1, ZenonT(60) DEF CallInv
<1> QED
  BY <1>11, <1>13, <1>14 DEF ReadInv

(* The paths that the vendor RIL takes can be read.                        *)
LEMMA ForwardReads ==
  ASSUME Inv, Inv', ReadInv, NEW t \in Threads, CALL_ONREQUEST(t)
  PROVE  ReadInv'
<1>1. PICK sState \in RadioStates : \E path \in onRequest(request(t), sState) :
        /\ todo' = [todo EXCEPT ![t] = path]
        /\ pc' = [pc EXCEPT ![t] = IF path = <<>> THEN "return" ELSE "handler"]
  BY ZenonT(60) DEF CALL_ONREQUEST
<1>2. PICK path \in onRequest(request(t), sState) :
        /\ todo' = [todo EXCEPT ![t] = path]
        /\ pc' = [pc EXCEPT ![t] = IF path = <<>> THEN "return" ELSE "handler"]
  BY ZenonT(60), <1>1
<1>3. /\ pc[t] = "dispatch"
      /\ s_pendingRequests' = s_pendingRequests /\ info' = info
      /\ call' = call /\ serial' = serial /\ pRI' = pRI /\ answers' = answers
      /\ unheard' = unheard /\ stray' = stray /\ refused' = refused
      /\ mRadioResponse' = mRadioResponse /\ alive' = alive /\ nextSerial' = nextSerial
  BY ZenonT(60) DEF CALL_ONREQUEST, threadVars, clientVars
<1>4. Readable(request(t), path)
  BY OnRequestReadable
<1>5. path \in Seq(Completion)
  BY OnRequestCompletes DEF Handled
<1>6. TypeOK'
  BY <1>2, <1>3, <1>5, ZenonT(60) DEF ReadInv, TypeOK
<1>7. \A u \in Threads : u = t /\ todo'[u] = path /\ request(u)' = request(t)
  BY <1>2, <1>3, OneThread, ZenonT(60) DEF ReadInv, TypeOK, request
<1>8. Pending(pRI[t])' = Pending(pRI[t])
  BY <1>3, ZenonT(60) DEF Pending
<1>9. CallInv'
  BY <1>3, <1>4, <1>7, <1>8, ZenonT(60) DEF ReadInv, CallInv
<1>10. SuccessIsReadable'
  BY <1>3, <1>7, ZenonT(60) DEF ReadInv, SuccessIsReadable
<1> QED
  BY <1>6, <1>9, <1>10 DEF ReadInv

(* A completion that finds the RequestInfo is read by the function of its  *)
(* request; a later one is dropped.                                        *)
LEMMA CompleteReads ==
  ASSUME Inv, Inv', ReadInv, NEW t \in Threads, RIL_onRequestComplete(t)
  PROVE  ReadInv'
<1>1. /\ pc[t] = "handler"
      /\ todo' = [todo EXCEPT ![t] = Tail(todo[t])]
      /\ pc' = [pc EXCEPT ![t] = IF Len(todo[t]) = 1 THEN "return" ELSE "handler"]
      /\ call' = call /\ serial' = serial /\ pRI' = pRI /\ refused' = refused
      /\ alive' = alive /\ nextSerial' = nextSerial
  BY ZenonT(60) DEF RIL_onRequestComplete, threadVars
<1>2. /\ todo[t] \in Seq(Completion) /\ Len(todo[t]) >= 1
      /\ call[t] \in RadioMethods /\ Readable(request(t), todo[t])
  BY <1>1, ZenonT(60) DEF Inv, TypeInv, PhaseInv, ReadInv, CallInv
<1>3. \A u \in Threads :
        u = t /\ todo'[u] = Tail(todo[t]) /\ request(u)' = request(t) /\ pRI'[u] = pRI[t]
        /\ call'[u] = call[t]
  BY <1>1, OneThread, ZenonT(60) DEF ReadInv, TypeOK, request
<1>4. Readable(request(t), Tail(todo[t]))
  BY <1>2, GoodTail, ZenonT(60) DEF Readable
<1>5. Head(todo[t]) \in Completion
  BY <1>2
<1>6. Head(todo[t]).error \in CallErrors
  BY <1>5, ZenonT(60) DEF Completion, CallErrors
<1>7. todo' \in [Threads -> Seq(Completion)] /\ s_pendingRequests' \in Seq(Addrs)
  BY ZenonT(60) DEF Inv, TypeInv
<1>8. /\ pc' \in [Threads -> {"idle", "dispatch", "handler", "return", "crashed"}]
      /\ info' \in [Addrs -> [token : Nat, request : Requests \cup {"none"}]]
  <2>1. info' \in [Addrs -> [token : Nat, request : Requests \cup {"none"}]]
    <3>1. Free \in [token : Nat, request : Requests \cup {"none"}]
      BY DEF Free
    <3>2. info' = info \/ info' = [info EXCEPT ![pRI[t]] = Free]
      BY ZenonT(60) DEF RIL_onRequestComplete
    <3> QED
      BY <3>1, <3>2, ZenonT(60) DEF ReadInv, TypeOK
  <2> QED
    BY <1>1, <2>1 DEF ReadInv, TypeOK
<1>9. CASE Pending(pRI[t])
  <2>1. Fresh(t)
    BY <1>1, <1>9, ZenonT(60) DEF Inv, PhaseInv
  <2>2. answers[t] = <<>> /\ info[pRI[t]].request = request(t)
    BY <1>1, <1>9, <2>1, ZenonT(60) DEF Fresh, ReadInv, CallInv
  <2>3. responseFunction(t, info[pRI[t]], Head(todo[t]))
    BY ZenonT(60), <1>9 DEF RIL_onRequestComplete
  <2>4. /\ answers' \in [Threads -> Seq([vendor : CallErrors, by : Nat,
                                        error : CallErrors \cup {"INVALID_RESPONSE"}])]
        /\ mRadioResponse' \in Versions \cup {"NULL"}
        /\ stray' \in BOOLEAN /\ unheard' \in [Threads -> BOOLEAN]
        /\ SuccessIsReadable'
    <3>1. request(t) \notin {"WRITE_SMS_TO_SIM", "SET_CARRIER_RESTRICTIONS"} =>
            (Head(todo[t]).error = "SUCCESS" => Head(todo[t]).payload \in ReadBy(request(t)))
      BY <1>2, GoodTail, SMTT(60) DEF Readable
    <3> QED
      BY <1>1, <1>6, <2>2, <2>3, <3>1, AnswerRead, ZenonT(60)
  <2>5. TypeOK'
    BY <1>1, <1>7, <1>8, <2>4, ZenonT(60) DEF ReadInv, TypeOK
  <2>6. ~Pending(pRI[t])'
    <3>1. PICK k \in 1..Len(s_pendingRequests) :
            /\ s_pendingRequests[k] = pRI[t]
            /\ s_pendingRequests' = Unlink(s_pendingRequests, k)
      BY ZenonT(60), <1>9 DEF RIL_onRequestComplete, checkAndDequeueRequestInfoIfAck
    <3>2. Distinct(s_pendingRequests) /\ s_pendingRequests \in Seq(Addrs)
      BY ZenonT(60) DEF Inv, ListInv, TypeInv
    <3> QED
      BY <1>1, <3>1, <3>2, UnlinkOne DEF Pending
  <2>7. CallInv'
    BY <1>2, <1>3, <1>4, <2>6, <1>1, ZenonT(60) DEF CallInv
  <2> QED
    BY <2>4, <2>5, <2>7, ZenonT(60) DEF ReadInv
<1>10. CASE ~Pending(pRI[t])
  <2>1. /\ s_pendingRequests' = s_pendingRequests /\ info' = info /\ answers' = answers
        /\ unheard' = unheard /\ stray' = stray /\ mRadioResponse' = mRadioResponse
    BY ZenonT(60), <1>10 DEF RIL_onRequestComplete, clientVars
  <2>2. TypeOK'
    BY <1>1, <1>7, <1>8, <2>1, ZenonT(60) DEF ReadInv, TypeOK
  <2>3. ~Pending(pRI[t])'
    BY <1>1, <1>10, <2>1, ZenonT(60) DEF Pending
  <2>4. CallInv'
    BY <1>1, <1>2, <1>3, <1>4, <2>3, ZenonT(60) DEF CallInv
  <2>5. SuccessIsReadable'
    BY <1>3, <2>1, ZenonT(60) DEF ReadInv, SuccessIsReadable
  <2> QED
    BY <2>2, <2>4, <2>5 DEF ReadInv
<1> QED
  BY <1>9, <1>10

(* The next call starts without answers.                                   *)
LEMMA ReturnReads ==
  ASSUME Inv, Inv', ReadInv, NEW t \in Threads, methodReturns(t)
  PROVE  ReadInv'
<1>1. /\ pc' = [pc EXCEPT ![t] = "idle"]
      /\ call' = [call EXCEPT ![t] = NoCall]
      /\ serial' = [serial EXCEPT ![t] = 0]
      /\ pRI' = [pRI EXCEPT ![t] = NoAddr]
      /\ answers' = [answers EXCEPT ![t] = <<>>]
      /\ unheard' = [unheard EXCEPT ![t] = FALSE]
      /\ s_pendingRequests' = s_pendingRequests /\ info' = info
      /\ todo' = todo /\ stray' = stray /\ refused' = refused
      /\ mRadioResponse' = mRadioResponse /\ alive' = alive /\ nextSerial' = nextSerial
  BY ZenonT(60) DEF methodReturns
<1>2. answers' \in [Threads -> Seq([vendor : CallErrors, by : Nat,
                                    error : CallErrors \cup {"INVALID_RESPONSE"}])]
  <2> DEFINE A == [vendor : CallErrors, by : Nat, error : CallErrors \cup {"INVALID_RESPONSE"}]
  <2>1. answers \in [Threads -> Seq(A)]
    BY ZenonT(60) DEF ReadInv, TypeOK
  <2> HIDE DEF A
  <2>2. answers' \in [Threads -> Seq(A)]
    BY <1>1, <2>1, SMTT(60)
  <2> QED
    BY <2>2, ZenonT(60) DEF A
<1>3. TypeOK'
  BY <1>1, <1>2, ZenonT(60) DEF ReadInv, TypeOK
<1>4. \A u \in Threads : pc'[u] = "idle" /\ answers'[u] = <<>>
  BY <1>1, OneThread, ZenonT(60) DEF ReadInv, TypeOK
<1>5. CallInv' /\ SuccessIsReadable'
  BY <1>4 DEF CallInv, SuccessIsReadable
<1> QED
  BY <1>3, <1>5 DEF ReadInv

(* Steps of the client change only what the callbacks are.                 *)
LEMMA ClientReads ==
  ASSUME ReadInv, UNCHANGED <<s_pendingRequests, info, pc, call, serial, pRI, todo,
                              answers, unheard, stray, refused, nextSerial>>,
         mRadioResponse' \in Versions \cup {"NULL"}, alive' \in BOOLEAN
  PROVE  ReadInv'
BY ZenonT(60) DEF ReadInv, TypeOK, CallInv, SuccessIsReadable, request, Pending

(* Every step keeps the types, the call and the answers.                   *)
LEMMA ReadStep == Inv /\ Inv' /\ ReadInv /\ [Next]_vars => ReadInv'
<1> SUFFICES ASSUME Inv, Inv', ReadInv, [Next]_vars PROVE ReadInv'
  OBVIOUS
<1>0. mRadioResponse \in Versions \cup {"NULL"} /\ alive \in BOOLEAN
  BY DEF ReadInv, TypeOK
<1>1. ASSUME NEW t \in Threads, NEW row \in RadioMethods, NEW a \in Addrs,
             addRequestToList(t, row, a)
      PROVE  ReadInv'
  BY <1>1, AddReads
<1>2. ASSUME NEW t \in Threads, NEW row \in RadioMethods, allocationFails(t, row)
      PROVE  ReadInv'
  BY <1>2, AllocationFailsReads
<1>3. ASSUME NEW t \in Threads, sendErrorResponse(t) PROVE ReadInv'
  BY <1>3, RefuseReads
<1>4. ASSUME NEW t \in Threads, CALL_ONREQUEST(t) PROVE ReadInv'
  BY <1>4, ForwardReads
<1>5. ASSUME NEW t \in Threads, RIL_onRequestComplete(t) PROVE ReadInv'
  BY <1>5, CompleteReads
<1>6. ASSUME NEW t \in Threads, methodReturns(t) PROVE ReadInv'
  BY <1>6, ReturnReads
<1>7. ASSUME NEW t \in Threads, NEW version \in Versions,
             setResponseFunctions(t, version)
      PROVE  ReadInv'
  <2>1. mRadioResponse' \in Versions \cup {"NULL"} /\ alive' \in BOOLEAN
    BY <1>7 DEF setResponseFunctions
  <2> QED
    BY ZenonT(60), <1>7, <2>1, ClientReads DEF setResponseFunctions, threadVars
<1>8. ASSUME clientDies PROVE ReadInv'
  BY ZenonT(60), <1>0, <1>8, ClientReads DEF clientDies, threadVars, clientVars
<1>9. ASSUME checkReturnStatus PROVE ReadInv'
  BY ZenonT(60), <1>0, <1>9, ClientReads DEF checkReturnStatus, threadVars
<1>10. ASSUME UNCHANGED vars PROVE ReadInv'
  BY ZenonT(60), <1>0, <1>10, ClientReads DEF vars, threadVars, clientVars
<1> QED BY ZenonT(60), <1>1, <1>2, <1>3, <1>4, <1>5, <1>6, <1>7, <1>8, <1>9,
       <1>10 DEF Next, Step

(* Init establishes them.                                                  *)
LEMMA ReadInit == Init => ReadInv
<1> SUFFICES ASSUME Init PROVE ReadInv
  OBVIOUS
<1>1. Free \in [token : Nat, request : Requests \cup {"none"}]
  BY DEF Free
<1>2. 1 \in 1..(MaxCalls + 1)
  BY RequestsAssumption
<1>3. TypeOK
  <2> DEFINE A == [vendor : CallErrors, by : Nat, error : CallErrors \cup {"INVALID_RESPONSE"}]
  <2>1. <<>> \in Seq(A) /\ <<>> \in Seq(Completion) /\ <<>> \in Seq(Addrs)
    <3> HIDE DEF A
    <3> QED
      OBVIOUS
  <2>2. answers \in [Threads -> Seq(A)] /\ todo \in [Threads -> Seq(Completion)]
    <3> HIDE DEF A
    <3> QED
      BY <2>1, ZenonT(60) DEF Init
  <2> QED
    BY <1>1, <1>2, <2>1, <2>2, ZenonT(60) DEF Init, TypeOK
<1>4. CallInv /\ SuccessIsReadable
  BY DEF Init, CallInv, SuccessIsReadable
<1> QED
  BY <1>3, <1>4 DEF ReadInv

(* Every variable keeps its type: in particular the answers have errors of *)
(* the methods and handlers, and the list holds addresses only.            *)
THEOREM TypeCorrect == Spec => []TypeOK
<1>1. ReadInv => TypeOK
  BY DEF ReadInv
<1> QED BY InitInv, NextInv, ReadInit, ReadStep, <1>1, PTL DEF Spec

(* A success of the vendor RIL is one for the client: each handler         *)
(* completes with a payload that the response function of its request      *)
(* reads, but for two requests, and the completion reaches that function.  *)
THEOREM SuccessIsRead == Spec => []SuccessIsReadable
<1>1. ReadInv => SuccessIsReadable
  BY DEF ReadInv
<1> QED BY InitInv, NextInv, ReadInit, ReadStep, <1>1, PTL DEF Spec
==============================================================================
