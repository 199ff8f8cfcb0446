--------------------------- MODULE NetworkProofs ---------------------------
(* Proofs about the DHCP client, the Wi-Fi HAL and the GNSS HAL, which read  *)
(* what arrives on a socket or a pipe, for every value of the constants of   *)
(* their modules.                                                            *)
EXTENDS DhcpClient, WifiHal, Gnss, TLAPS

-----------------------------------------------------------------------------
(***************************************************************************)
(* A bound client relies on its address only while the lease runs, and the *)
(* client implements Lease, for all addresses, servers, grants and         *)
(* timeouts that satisfy the assumptions of DhcpClient.                    *)
(*                                                                         *)
(* An ACK that carries the current transaction id answers the last         *)
(* request, so it is no older than the poll that reads it, and a poll is   *)
(* no longer than MaxDelay.  Hence more than T1 of the lease is left when  *)
(* the ACK is read.  From then on T1 and the lease run alike, and a bound  *)
(* client never polls past T1.                                             *)
(***************************************************************************)

(* Only Bound waits for longer than the longest timeout.                   *)
Bounded == mState # "Bound" => mNextTimeout <= kMaxTimeout

(* An answer to the last request that grants a lease.                      *)
Fresh(m) == m.type = "ACK" /\ m.xid = xid /\ m.grant.lease > 0

Answers ==
  mState \in Asking =>
    /\ dhcpPc = "wait" /\ mNextTimeout # kNoTimeout =>
         \A m \in net : Fresh(m) => lease[m.addr] >= m.grant.lease
    /\ dhcpPc = "poll" =>
         /\ pollLeft <= MaxDelay
         /\ \A m \in net : Fresh(m) =>
              lease[m.addr] + MaxDelay >= m.grant.lease + pollLeft

Settled ==
  mState = "Bound" =>
    /\ ifUp /\ ifAddr \in Addrs /\ (mOptions \/ route = ifAddr)
    /\ lease[ifAddr] > mT1
    /\ dhcpPc = "wait" => mNextTimeout <= mT1 /\ ~mFuzzNextTimeout
    /\ dhcpPc = "poll" => pollLeft <= mT1

(* A state that asks for an address has one to ask for.                    *)
Requested == mState \in Asking \cup {"Bound"} => mRequestAddress \in Addrs

IInv == TypeOK /\ Bounded /\ Requested /\ Answers /\ Settled

-----------------------------------------------------------------------------
(* The estimate of T1 is a time, shorter than the lease by MaxDelay.       *)
LEMMA T1Type ==
  ASSUME NEW g \in Grants
  PROVE  /\ T1Of(g) \in Nat /\ T2Of(g) \in Nat /\ g.lease \in Nat
         /\ g.lease > 0 => T1Of(g) + MaxDelay < g.lease
<1>1. g.lease \in Nat /\ g.t1 \in Nat /\ g.t2 \in Nat
  BY GrantAssumption
<1>2. g.lease \div 2 \in Nat
  BY <1>1
<1>3. (g.lease * 7) % SecondsWord \in Nat
  BY <1>1, TimeAssumption
<1>4. ((g.lease * 7) % SecondsWord) \div 8 \in Nat
  BY <1>3
<1>5. T1Of(g) \in Nat /\ T2Of(g) \in Nat
  BY <1>1, <1>2, <1>4 DEF T1Of, T2Of
<1>6. g.lease > 0 => T1Of(g) + MaxDelay < g.lease
  BY GrantAssumption
<1>. QED  BY <1>1, <1>5, <1>6

LEMMA DelayType == MaxDelay \in Nat /\ kMaxTimeout <= MaxDelay
BY TimeAssumption DEF MaxDelay

LEMMA InitInv == Init => IInv
<1>. SUFFICES ASSUME Init PROVE IInv
  OBVIOUS
<1>1. TypeOK
  BY NoneAssumption, TimeAssumption DEF Init, TypeOK, States
<1>2. Bounded /\ Requested /\ Answers /\ Settled
  BY TimeAssumption DEF Init, Bounded, Requested, Answers, Settled, Asking
<1>. QED  BY <1>1, <1>2 DEF IInv

-----------------------------------------------------------------------------
(* Sending: the new id is one that no message carries but the one sent.    *)
LEMMA SendInv ==
  ASSUME TypeOK, NEW type \in {"DISCOVER", "REQUEST"}, NEW a, NEW s,
         type = "REQUEST" => a \in Addrs, sendMessage(type, a, s)
  PROVE  /\ xid' \in 0..(TransactionIds - 1)
         /\ \A m \in net' :
              /\ m.type \in {"DISCOVER", "REQUEST", "OFFER", "ACK", "NAK"}
              /\ m.xid \in 0..(TransactionIds - 1)
              /\ m.type \in {"REQUEST", "OFFER", "ACK"} => m.addr \in Addrs
              /\ m.type = "OFFER" => m.server \in Servers
              /\ m.type = "ACK" => m.grant \in Grants
         /\ \A m \in net' : m.xid = xid' => m.type # "ACK"
<1>. DEFINE id == (xid + 1) % TransactionIds
            new == Message(type, id, a, s, None)
<1>1. xid' = id /\ net' \subseteq {m \in net : m.xid # id} \cup {new}
  BY DEF sendMessage
<1>2. id \in 0..(TransactionIds - 1)
  BY TimeAssumption DEF TypeOK
<1>3. new.type = type /\ new.xid = id /\ new.addr = a
  BY DEF Message
<1>. HIDE DEF id, new
<1>4. \A m \in net' : (m \in net /\ m.xid # id) \/ m = new
  BY <1>1
<1>. QED  BY <1>1, <1>2, <1>3, <1>4 DEF TypeOK

LEMMA IncreaseType ==
  ASSUME mNextTimeout \in Nat, increaseTimeout
  PROVE  mNextTimeout' \in Nat \ {0} /\ mNextTimeout' <= kMaxTimeout
BY TimeAssumption DEF increaseTimeout, Smaller, kNoTimeout

(* What run leaves alone.                                                  *)
LEMMA RunFrame ==
  ASSUME run
  PROVE  /\ dhcpPc = "run" /\ dhcpPc' = "wait"
         /\ UNCHANGED <<mServerAddress, mRequestAddress, mT1, mT2, pollLeft,
                        ifAddr, ifUp, route, mOptions, lease>>
BY DEF run, iface

(* The type of what does not depend on the step.                           *)
Still ==
  /\ UNCHANGED <<mServerAddress, mRequestAddress, mT1, mT2, pollLeft,
                 ifAddr, ifUp, route, mOptions, lease>>
  /\ dhcpPc' = "wait"

LEMMA RunTypes ==
  ASSUME TypeOK, Still, mState' \in States, mNextTimeout' \in Nat,
         mFuzzNextTimeout' \in BOOLEAN, UNCHANGED <<xid, net>>
  PROVE  TypeOK'
BY DEF TypeOK, Still

LEMMA SendTypes ==
  ASSUME TypeOK, Still, UNCHANGED <<mState, mFuzzNextTimeout>>,
         mNextTimeout' \in Nat,
         xid' \in 0..(TransactionIds - 1),
         \A m \in net' :
              /\ m.type \in {"DISCOVER", "REQUEST", "OFFER", "ACK", "NAK"}
              /\ m.xid \in 0..(TransactionIds - 1)
              /\ m.type \in {"REQUEST", "OFFER", "ACK"} => m.addr \in Addrs
              /\ m.type = "OFFER" => m.server \in Servers
              /\ m.type = "ACK" => m.grant \in Grants
  PROVE  TypeOK'
BY DEF TypeOK, Still

LEMMA StateInv ==
  ASSUME IInv, Still, NEW s \in States \ {"Bound", "Requesting"},
         s \in Asking => mState \in Asking \cup {"Bound"},
         setNextState(s), UNCHANGED <<xid, net>>
  PROVE  IInv'
<1>1. mState' = s /\ mNextTimeout' = 0 /\ mFuzzNextTimeout' = TRUE
  BY DEF setNextState, kNoTimeout
<1>2. TypeOK'
  BY <1>1, RunTypes DEF IInv
<1>3. Bounded' /\ Requested' /\ Answers' /\ Settled'
  BY <1>1, TimeAssumption DEF IInv, Still, Bounded, Requested, Answers, Settled, kNoTimeout
<1>. QED  BY <1>2, <1>3 DEF IInv

LEMMA AskInv ==
  ASSUME IInv, Still, UNCHANGED <<mState, mFuzzNextTimeout>>, mState # "Bound",
         NEW type \in {"DISCOVER", "REQUEST"}, NEW a, NEW s,
         type = "REQUEST" => a \in Addrs,
         sendMessage(type, a, s), increaseTimeout
  PROVE  IInv'
<1>1. mNextTimeout' \in Nat /\ mNextTimeout' <= kMaxTimeout
  BY IncreaseType DEF IInv, TypeOK
<1>2. TypeOK
  BY DEF IInv
<1>3. TypeOK'
  BY <1>1, <1>2, SendInv, SendTypes
<1>4. \A m \in net' : m.xid = xid' => m.type # "ACK"
  BY <1>2, SendInv
<1>5. Answers'
  BY <1>4 DEF Answers, Fresh, Still
<1>6. Bounded' /\ Requested' /\ Settled'
  BY <1>1 DEF IInv, Still, Bounded, Requested, Settled
<1>. QED  BY <1>3, <1>5, <1>6 DEF IInv

LEMMA RunInv ==
  ASSUME IInv, run
  PROVE  IInv'
<1>1. Still
  BY RunFrame DEF Still
<1>2. CASE runInit
  <2>1. setNextState("Selecting") /\ UNCHANGED <<xid, net>>
    BY <1>2 DEF runInit
  <2>. QED  BY <1>1, <2>1, StateInv DEF States, Asking
<1>3. CASE runSelecting
  BY <1>1, <1>3, AskInv DEF runSelecting, sendDhcpDiscover
<1>4. ASSUME NEW s \in {"Requesting", "Rebinding"}, NEW d, askOrStartOver(s, d)
      PROVE  IInv'
  <2>1. mState = s
    BY <1>4 DEF askOrStartOver
  <2>2. CASE setNextState("Init") /\ UNCHANGED <<xid, net>>
    BY <1>1, <2>2, StateInv DEF States, Asking
  <2>3. CASE /\ sendDhcpRequest(d) /\ increaseTimeout
             /\ UNCHANGED <<mState, mFuzzNextTimeout>>
    <3>1. mRequestAddress \in Addrs /\ mState # "Bound"
      BY <2>1 DEF IInv, Requested, Asking
    <3>. QED  BY <1>1, <2>3, <3>1, AskInv DEF sendDhcpRequest
  <2>. QED  BY <1>4, <2>2, <2>3 DEF askOrStartOver
<1>5. CASE runBound
  <2>1. mState = "Bound" /\ UNCHANGED <<xid, net>>
    BY <1>5 DEF runBound
  <2>2. CASE setNextState("Renewing")
    BY <1>1, <2>1, <2>2, StateInv DEF States, Asking
  <2>3. CASE /\ mNextTimeout' = mT1 % MillisWord /\ mFuzzNextTimeout' = FALSE
             /\ UNCHANGED mState
    <3>1. mT1 % MillisWord \in Nat /\ mT1 % MillisWord <= mT1
      BY TimeAssumption DEF IInv, TypeOK, MaxDelay
    <3>2. TypeOK'
      BY <1>1, <2>1, <2>3, <3>1, RunTypes, ZenonT(60) DEF IInv, TypeOK
    <3>3. Bounded' /\ Requested' /\ Answers' /\ Settled'
      BY <1>1, <2>1, <2>3, <3>1
      DEF IInv, Still, Bounded, Requested, Answers, Settled, Asking
    <3>. QED  BY <3>2, <3>3 DEF IInv
  <2>. QED  BY <1>5, <2>2, <2>3, ZenonT(60) DEF runBound
<1>6. CASE runRenewing
  <2>1. mState = "Renewing"
    BY <1>6 DEF runRenewing
  <2>2. CASE setNextState("Rebinding") /\ UNCHANGED <<xid, net>>
    BY <1>1, <2>1, <2>2, StateInv DEF States, Asking
  <2>3. CASE /\ sendDhcpRequest(mServerAddress) /\ increaseTimeout
             /\ UNCHANGED <<mState, mFuzzNextTimeout>>
    <3>1. mRequestAddress \in Addrs
      BY <2>1 DEF IInv, Requested, Asking
    <3>. QED  BY <1>1, <2>1, <2>3, <3>1, AskInv DEF sendDhcpRequest
  <2>. QED  BY <1>6, <2>2, <2>3 DEF runRenewing
<1>. QED  BY <1>2, <1>3, <1>4, <1>5, <1>6 DEF run, runRequesting, runRebinding

-----------------------------------------------------------------------------
LEMMA WaitInv ==
  ASSUME IInv, waitAndReceive
  PROVE  IInv'
<1>1. /\ dhcpPc = "wait"
      /\ UNCHANGED <<mState, mNextTimeout, mFuzzNextTimeout, mServerAddress,
                     mRequestAddress, mT1, mT2, xid, ifAddr, ifUp, route,
                     mOptions, net, lease>>
  BY ZenonT(60) DEF waitAndReceive, iface
<1>2. CASE dhcpPc' = "run" /\ UNCHANGED pollLeft
  BY <1>1, <1>2
  DEF IInv, TypeOK, Bounded, Requested, Answers, Settled, Fresh
<1>3. CASE /\ mNextTimeout # kNoTimeout /\ dhcpPc' = "poll"
           /\ pollLeft' \in calculateTimeoutMillis
  <2>1. /\ pollLeft' \in Nat /\ pollLeft' <= mNextTimeout + kTimeoutSpan
        /\ ~mFuzzNextTimeout => pollLeft' = mNextTimeout
    BY <1>3, TimeAssumption, SMTT(60) DEF calculateTimeoutMillis, IInv, TypeOK
  <2>2. TypeOK'
    BY <1>1, <1>3, <2>1, ZenonT(60) DEF IInv, TypeOK
  <2>3. Bounded' /\ Requested' /\ Settled'
    BY <1>1, <1>3, <2>1 DEF IInv, TypeOK, Bounded, Requested, Settled
  <2>4. Answers'
    <3>. SUFFICES ASSUME mState \in Asking
                  PROVE  /\ pollLeft' <= MaxDelay
                         /\ \A m \in net : Fresh(m) =>
                              lease[m.addr] + MaxDelay >= m.grant.lease + pollLeft'
      BY <1>1, <1>3, ZenonT(60) DEF Answers, Fresh
    <3>1. pollLeft' <= MaxDelay
      BY <2>1, TimeAssumption DEF IInv, TypeOK, Bounded, Asking, MaxDelay
    <3>2. ASSUME NEW m \in net, Fresh(m)
          PROVE  lease[m.addr] + MaxDelay >= m.grant.lease + pollLeft'
      <4>1. lease[m.addr] >= m.grant.lease
        BY <1>1, <1>3, <3>2, ZenonT(60) DEF IInv, Answers
      <4>2. lease[m.addr] \in Nat /\ m.grant \in Grants
        BY <3>2, ZenonT(60) DEF IInv, TypeOK, Fresh
      <4>. QED  BY <2>1, <3>1, <4>1, <4>2, T1Type, DelayType
    <3>. QED  BY <3>1, <3>2
  <2>. QED  BY <2>2, <2>3, <2>4, ZenonT(60) DEF IInv
<1>. QED  BY <1>2, <1>3 DEF waitAndReceive

LEMMA TimeoutInv ==
  ASSUME IInv, timeout
  PROVE  IInv'
<1>1. /\ dhcpPc' = "run"
      /\ UNCHANGED <<mState, mNextTimeout, mFuzzNextTimeout, mServerAddress,
                     mRequestAddress, mT1, mT2, xid, pollLeft, ifAddr, ifUp,
                     route, mOptions, net, lease>>
  BY ZenonT(60) DEF timeout, iface
<1>. QED  BY <1>1 DEF IInv, TypeOK, Bounded, Requested, Answers, Settled

LEMMA OfferInv ==
  ASSUME IInv, receiveOffer
  PROVE  IInv'
<1>1. PICK m \in net :
        /\ m.type = "OFFER"
        /\ mServerAddress' = m.server /\ mRequestAddress' = m.addr
        /\ mState' = "Requesting" /\ mNextTimeout' = 0 /\ mFuzzNextTimeout' = TRUE
        /\ dhcpPc' = "run" /\ pollLeft' = 0
        /\ UNCHANGED <<mT1, mT2, xid, ifAddr, ifUp, route, mOptions, net, lease>>
  BY DEF receiveOffer, receiveDhcpMessage, setNextState, leavePoll, iface, kNoTimeout
<1>2. m.addr \in Addrs /\ m.server \in Servers
  BY <1>1, ZenonT(60) DEF IInv, TypeOK
<1>3. TypeOK'
  BY <1>1, <1>2 DEF IInv, TypeOK, States
<1>4. 0 <= kMaxTimeout
  BY TimeAssumption
<1>5. Bounded' /\ Requested' /\ Answers' /\ Settled'
  BY <1>1, <1>2, <1>4, ZenonT(60) DEF Bounded, Requested, Answers, Settled
<1>. QED  BY <1>3, <1>5, ZenonT(60) DEF IInv

(* The delay of an answer takes less than the margin of T1 off its lease.  *)
LEMMA MarginLeft ==
  \A a, p, d, g, t \in Nat : a + d >= g + p /\ t + d < g => a > t
OBVIOUS

(* What an ACK that is accepted has left of its lease.                     *)
LEMMA AckLease ==
  ASSUME IInv, dhcpPc = "poll", mState \in Asking,
         NEW m \in net, Fresh(m)
  PROVE  lease[m.addr] > T1Of(m.grant)
<1>1. lease[m.addr] + MaxDelay >= m.grant.lease + pollLeft
  BY ZenonT(60) DEF IInv, Answers
<1>2. m.grant \in Grants /\ lease[m.addr] \in Nat /\ pollLeft \in Nat
  BY DEF IInv, TypeOK, Fresh
<1>3. m.grant.lease > 0
  BY DEF Fresh
<1>. QED  BY <1>1, <1>2, <1>3, T1Type, DelayType, MarginLeft, ZenonT(60)

LEMMA AckInv ==
  ASSUME IInv, receiveAck
  PROVE  IInv'
<1>1. PICK m \in net : \E got \in configureSteps :
        /\ receiveDhcpMessage("ACK", m) /\ mState \in Asking
        /\ configureDhcp(m, got)
        /\ IF got = "all"
           THEN setNextState("Bound") /\ leavePoll
           ELSE UNCHANGED <<mState, mNextTimeout, mFuzzNextTimeout, dhcpPc, pollLeft>>
        /\ UNCHANGED <<mServerAddress, mRequestAddress, xid, mOptions, net, lease>>
  BY ZenonT(60) DEF receiveAck
<1>2. PICK got \in configureSteps :
        /\ receiveDhcpMessage("ACK", m) /\ mState \in Asking
        /\ configureDhcp(m, got)
        /\ IF got = "all"
           THEN setNextState("Bound") /\ leavePoll
           ELSE UNCHANGED <<mState, mNextTimeout, mFuzzNextTimeout, dhcpPc, pollLeft>>
        /\ UNCHANGED <<mServerAddress, mRequestAddress, xid, mOptions, net, lease>>
  BY <1>1, ZenonT(60)
<1>3. /\ dhcpPc = "poll" /\ m.type = "ACK" /\ m.xid = xid
      /\ m.addr \in Addrs /\ m.grant \in Grants
  BY <1>2 DEF receiveDhcpMessage, IInv, TypeOK
<1>4. T1Of(m.grant) \in Nat /\ T2Of(m.grant) \in Nat /\ m.grant.lease \in Nat
  BY <1>3, T1Type, ZenonT(60)
<1>5. /\ mT1' \in Nat /\ mT2' \in Nat /\ ifUp' \in BOOLEAN
      /\ ifAddr' \in Addrs \cup {None} /\ route' \in Addrs \cup {None}
  BY <1>2, <1>3, <1>4 DEF configureDhcp, IInv, TypeOK
<1>6. CASE got = "all"
  <2>1. /\ mState' = "Bound" /\ mNextTimeout' = 0 /\ mFuzzNextTimeout' = TRUE
        /\ dhcpPc' = "run" /\ pollLeft' = 0
        /\ mT1' = T1Of(m.grant) /\ ifUp' /\ ifAddr' = m.addr
        /\ m.grant.lease # 0
        /\ mOptions \/ route' = m.addr
    BY <1>2, <1>6, ZenonT(60) DEF setNextState, leavePoll, kNoTimeout, configureDhcp
  <2>2. lease[m.addr] > T1Of(m.grant)
    BY <1>2, <1>3, <1>4, <2>1, AckLease, SMTT(60) DEF Fresh
  <2>3. TypeOK'
    BY <1>2, <1>5, <2>1 DEF IInv, TypeOK, States
  <2>4. Bounded' /\ Requested' /\ Answers' /\ Settled'
    BY <1>2, <1>3, <2>1, <2>2, ZenonT(60)
    DEF IInv, Bounded, Requested, Answers, Settled, Asking
  <2>. QED  BY <2>3, <2>4 DEF IInv
<1>7. CASE got # "all"
  <2>1. UNCHANGED <<mState, mNextTimeout, mFuzzNextTimeout, dhcpPc, pollLeft>>
    BY <1>2, <1>7, ZenonT(60)
  <2>2. TypeOK'
    BY <1>2, <1>5, <2>1, ZenonT(60) DEF IInv, TypeOK
  <2>3. mState # "Bound"
    BY <1>2 DEF Asking
  <2>4. Bounded' /\ Requested' /\ Answers' /\ Settled'
    BY <1>2, <2>1, <2>3, ZenonT(60)
    DEF IInv, Bounded, Requested, Answers, Settled, Fresh
  <2>. QED  BY <2>2, <2>4 DEF IInv
<1>. QED  BY <1>6, <1>7

LEMMA NakInv ==
  ASSUME IInv, receiveNak
  PROVE  IInv'
<1>1. /\ mState' = "Init" /\ mNextTimeout' = 0 /\ mFuzzNextTimeout' = TRUE
      /\ dhcpPc' = "run" /\ pollLeft' = 0
      /\ ifAddr' \in {ifAddr, None} /\ ifUp' \in {ifUp, FALSE}
      /\ route' \in {route, None}
      /\ UNCHANGED <<mServerAddress, mRequestAddress, mT1, mT2, xid, mOptions,
                     net, lease>>
  BY ZenonT(60) DEF receiveNak, haltNetwork, setNextState, leavePoll, kNoTimeout
<1>2. TypeOK'
  BY <1>1, ZenonT(60) DEF IInv, TypeOK, States
<1>3. 0 <= kMaxTimeout
  BY TimeAssumption
<1>4. Bounded' /\ Requested' /\ Answers' /\ Settled'
  BY <1>1, <1>3, ZenonT(60) DEF Bounded, Requested, Answers, Settled, Asking
<1>. QED  BY <1>2, <1>4, ZenonT(60) DEF IInv

-----------------------------------------------------------------------------
LEMMA OffersInv ==
  ASSUME IInv, serverOffers
  PROVE  IInv'
<1>1. PICK m \in net, a \in Addrs, s \in Servers :
        /\ m.type = "DISCOVER"
        /\ net' = net \cup {Message("OFFER", m.xid, a, s, None)}
  BY DEF serverOffers
<1>2. UNCHANGED <<mState, mNextTimeout, mFuzzNextTimeout, mServerAddress,
                  mRequestAddress, mT1, mT2, xid, dhcpPc, pollLeft,
                  ifAddr, ifUp, route, mOptions, lease>>
  BY DEF serverOffers, client, iface
<1>. DEFINE new == Message("OFFER", m.xid, a, s, None)
<1>3. new.type = "OFFER" /\ new.xid = m.xid /\ new.addr = a /\ new.server = s
  BY DEF Message
<1>4. net' = net \cup {new}
  BY <1>1, ZenonT(60)
<1>. HIDE DEF new
<1>5. TypeOK'
  BY <1>2, <1>3, <1>4, ZenonT(60) DEF IInv, TypeOK
<1>6. Bounded' /\ Requested' /\ Settled'
  BY <1>2 DEF IInv, Bounded, Requested, Settled
<1>7. Answers'
  BY <1>2, <1>3, <1>4, ZenonT(60) DEF IInv, Answers, Fresh
<1>. QED  BY <1>5, <1>6, <1>7 DEF IInv

LEMMA AnswersInv ==
  ASSUME IInv, serverAnswers
  PROVE  IInv'
<1>1. PICK q \in net, s \in Servers :
        /\ q.type = "REQUEST"
        /\ \/ \E g \in Grants :
                /\ net' = net \cup {Message("ACK", q.xid, q.addr, s, g)}
                /\ lease' = [lease EXCEPT ![q.addr] =
                               IF g.lease > @ THEN g.lease ELSE @]
           \/ /\ net' = net \cup {Message("NAK", q.xid, None, s, None)}
              /\ UNCHANGED lease
  BY ZenonT(60) DEF serverAnswers
<1>2. UNCHANGED <<mState, mNextTimeout, mFuzzNextTimeout, mServerAddress,
                  mRequestAddress, mT1, mT2, xid, dhcpPc, pollLeft,
                  ifAddr, ifUp, route, mOptions>>
  BY ZenonT(60) DEF serverAnswers, client, iface
<1>3. q.addr \in Addrs /\ q.xid \in 0..(TransactionIds - 1)
  BY <1>1 DEF IInv, TypeOK
<1>4. CASE /\ net' = net \cup {Message("NAK", q.xid, None, s, None)}
           /\ UNCHANGED lease
  <2>. DEFINE new == Message("NAK", q.xid, None, s, None)
  <2>1. new.type = "NAK" /\ new.xid = q.xid
    BY DEF Message
  <2>2. net' = net \cup {new} /\ UNCHANGED lease
    BY <1>4, ZenonT(60)
  <2>. HIDE DEF new
  <2>3. TypeOK'
    BY <1>2, <1>3, <2>1, <2>2, ZenonT(60) DEF IInv, TypeOK
  <2>4. Bounded' /\ Requested' /\ Settled'
    BY <1>2, <2>2, ZenonT(60) DEF IInv, Bounded, Requested, Settled
  <2>5. Answers'
    BY <1>2, <2>1, <2>2, ZenonT(60) DEF IInv, Answers, Fresh
  <2>. QED  BY <2>3, <2>4, <2>5 DEF IInv
<1>5. ASSUME NEW g \in Grants,
             net' = net \cup {Message("ACK", q.xid, q.addr, s, g)},
             lease' = [lease EXCEPT ![q.addr] = IF g.lease > @ THEN g.lease ELSE @]
      PROVE  IInv'
  <2>. DEFINE new == Message("ACK", q.xid, q.addr, s, g)
  <2>1. new.type = "ACK" /\ new.xid = q.xid /\ new.addr = q.addr /\ new.grant = g
    BY DEF Message
  <2>2. net' = net \cup {new}
    BY <1>5
  <2>. HIDE DEF new
  <2>3. g.lease \in Nat
    BY T1Type, ZenonT(60)
  <2>4. /\ lease \in [Addrs -> Nat] /\ lease' \in [Addrs -> Nat]
        /\ \A a \in Addrs : lease'[a] >= lease[a]
        /\ lease'[q.addr] >= g.lease
    BY <1>3, <1>5, <2>3, SMTT(60) DEF IInv, TypeOK
  <2>5. TypeOK'
    BY <1>2, <1>3, <2>1, <2>2, <2>4, ZenonT(60) DEF IInv, TypeOK
  <2>6. Bounded' /\ Requested'
    BY <1>2, ZenonT(60) DEF IInv, Bounded, Requested
  <2>7. Settled'
    BY <1>2, <2>4, SMTT(60) DEF IInv, TypeOK, Settled
  <2>8. ASSUME NEW m \in net', Fresh(m)'
        PROVE  m = new \/ (m \in net /\ Fresh(m) /\ m.addr \in Addrs /\ m.grant.lease \in Nat)
    BY <1>2, <2>2, <2>8, T1Type, ZenonT(60) DEF IInv, TypeOK, Fresh
  <2>9. ASSUME mState \in Asking, dhcpPc = "wait", mNextTimeout # kNoTimeout,
               NEW m \in net', Fresh(m)'
        PROVE  lease'[m.addr] >= m.grant.lease
    <3>1. CASE m = new
      BY <2>1, <2>4, <3>1
    <3>2. CASE m \in net /\ Fresh(m) /\ m.addr \in Addrs /\ m.grant.lease \in Nat
      <4>1. lease[m.addr] >= m.grant.lease
        BY <2>9, <3>2, ZenonT(60) DEF IInv, Answers
      <4>. QED  BY <2>4, <3>2, <4>1, SMTT(60)
    <3>. QED  BY <2>8, <2>9, <3>1, <3>2, ZenonT(60)
  <2>10. ASSUME mState \in Asking, dhcpPc = "poll"
         PROVE  pollLeft <= MaxDelay /\ pollLeft \in Nat
    BY <2>10, ZenonT(60) DEF IInv, TypeOK, Answers
  <2>11. ASSUME mState \in Asking, dhcpPc = "poll", NEW m \in net', Fresh(m)'
         PROVE  lease'[m.addr] + MaxDelay >= m.grant.lease + pollLeft
    <3>1. CASE m = new
      BY <2>1, <2>3, <2>4, <2>10, <2>11, <3>1, <1>3, DelayType
    <3>2. CASE m \in net /\ Fresh(m) /\ m.addr \in Addrs /\ m.grant.lease \in Nat
      <4>1. lease[m.addr] + MaxDelay >= m.grant.lease + pollLeft
        BY <2>11, <3>2, ZenonT(60) DEF IInv, Answers
      <4>. QED  BY <2>4, <2>10, <2>11, <3>2, <4>1, DelayType
    <3>. QED  BY <2>8, <2>11, <3>1, <3>2, ZenonT(60)
  <2>12. Answers'
    BY <1>2, <2>9, <2>10, <2>11 DEF Answers
  <2>. QED  BY <2>5, <2>6, <2>7, <2>12 DEF IInv
<1>. QED  BY <1>1, <1>4, <1>5, ZenonT(60)

LEMMA TickInv ==
  ASSUME IInv, tick
  PROVE  IInv'
<1>1. /\ pollLeft' = Less(pollLeft) /\ mT1' = Less(mT1) /\ mT2' = Less(mT2)
      /\ lease' = [a \in Addrs |-> Less(lease[a])]
      /\ UNCHANGED <<mState, mNextTimeout, mFuzzNextTimeout, mServerAddress,
                     mRequestAddress, xid, dhcpPc, ifAddr, ifUp, route,
                     mOptions, net>>
  BY DEF tick, iface
<1>2. (dhcpPc = "poll" /\ pollLeft > 0) \/ spinning
  BY DEF tick
<1>3. \A x \in Nat : Less(x) \in Nat /\ (x > 0 => Less(x) = x - 1) /\ (x = 0 => Less(x) = 0)
  BY DEF Less
<1>4. /\ pollLeft \in Nat /\ mT1 \in Nat /\ mT2 \in Nat /\ lease \in [Addrs -> Nat]
  BY DEF IInv, TypeOK
<1>5. lease' \in [Addrs -> Nat] /\ \A a \in Addrs : lease'[a] = Less(lease[a])
  BY <1>1, <1>3, <1>4, ZenonT(60)
<1>6. TypeOK'
  BY <1>1, <1>3, <1>4, <1>5 DEF IInv, TypeOK
<1>7. Bounded' /\ Requested'
  BY <1>1, ZenonT(60) DEF IInv, Bounded, Requested
<1>8. Settled'
  <2>. SUFFICES ASSUME mState = "Bound" PROVE Settled'
    BY <1>1, ZenonT(60) DEF Settled
  <2>1. /\ ifUp /\ ifAddr \in Addrs /\ (mOptions \/ route = ifAddr)
        /\ lease[ifAddr] > mT1
        /\ dhcpPc = "wait" => mNextTimeout <= mT1 /\ ~mFuzzNextTimeout
        /\ dhcpPc = "poll" => pollLeft <= mT1
    BY DEF IInv, Settled
  <2>2. mT1 > 0
    BY <1>2, <1>4, <2>1 DEF spinning
  <2>3. lease'[ifAddr] = lease[ifAddr] - 1 /\ mT1' = mT1 - 1
    BY <1>1, <1>3, <1>4, <1>5, <2>1, <2>2
  <2>4. dhcpPc = "wait" => mNextTimeout = 0
    BY <1>2 DEF spinning, kNoTimeout
  <2>5. dhcpPc = "poll" => pollLeft' <= mT1'
    BY <1>1, <1>3, <1>4, <2>1, <2>2
  <2>. QED  BY <1>1, <1>4, <2>1, <2>2, <2>3, <2>4, <2>5, SMTT(60) DEF Settled
<1>9. Answers'
  <2>. SUFFICES ASSUME mState \in Asking PROVE Answers'
    BY <1>1 DEF Answers
  <2>1. dhcpPc = "poll" /\ pollLeft > 0
    BY <1>2, ZenonT(60) DEF spinning, Asking
  <2>2. pollLeft' = pollLeft - 1 /\ pollLeft' <= MaxDelay
    BY <1>1, <1>3, <1>4, <2>1, DelayType DEF IInv, Answers
  <2>3. ASSUME NEW m \in net, Fresh(m)
        PROVE  lease'[m.addr] + MaxDelay >= m.grant.lease + pollLeft'
    <3>1. lease[m.addr] + MaxDelay >= m.grant.lease + pollLeft
      BY <2>1, <2>3, ZenonT(60) DEF IInv, Answers
    <3>2. m.addr \in Addrs /\ m.grant \in Grants
      BY <2>3, ZenonT(60) DEF IInv, TypeOK, Fresh
    <3>3. m.grant.lease \in Nat /\ lease[m.addr] \in Nat
      BY <1>4, <3>2, T1Type, ZenonT(60)
    <3>4. lease'[m.addr] >= lease[m.addr] - 1 /\ lease'[m.addr] \in Nat
      BY <1>3, <1>5, <3>2, <3>3
    <3>. QED  BY <1>4, <2>2, <3>1, <3>3, <3>4, DelayType
  <2>. QED  BY <1>1, <2>1, <2>2, <2>3, ZenonT(60) DEF Answers, Fresh
<1>. QED  BY <1>6, <1>7, <1>8, <1>9 DEF IInv

LEMMA NextInv == IInv /\ [Next]_dhcpVars => IInv'
<1>1. ASSUME IInv, UNCHANGED dhcpVars PROVE IInv'
  <2>1. UNCHANGED <<mState, mNextTimeout, mFuzzNextTimeout, mServerAddress, mRequestAddress, mT1,
                    mT2, xid, dhcpPc, pollLeft, ifAddr, ifUp, route, mOptions, net, lease>>
    BY <1>1, ZenonT(60) DEF dhcpVars, client, iface
  <2>2. TypeOK'
    BY <1>1, <2>1, ZenonT(60) DEF IInv, TypeOK
  <2>3. Bounded' /\ Requested' /\ Answers' /\ Settled'
    BY <1>1, <2>1, ZenonT(60) DEF IInv, Bounded, Requested, Answers, Settled, Fresh
  <2>. QED  BY <2>2, <2>3, ZenonT(60) DEF IInv
<1>. QED  BY <1>1, RunInv, WaitInv, TimeoutInv, OfferInv, AckInv, NakInv,
             OffersInv, AnswersInv, TickInv, ZenonT(60) DEF Next

(* Every state is one in which the timers, the answers in the air and the  *)
(* leases are related as described above.                                  *)
THEOREM SpecInv == Spec => []IInv
BY InitInv, NextInv, PTL DEF Spec

(* The client's timers, addresses and messages keep their types.           *)
THEOREM DhcpTypes == Spec => []TypeOK
<1>1. IInv => TypeOK
  BY ZenonT(60) DEF IInv
<1> QED
  BY <1>1, SpecInv, PTL

(* A client in the state Bound has its interface up, with an address whose *)
(* lease still runs and the route of that lease (configureDhcp, run).      *)
THEOREM StaysWithinLease == Spec => []BoundWithinLease
<1>1. IInv => BoundWithinLease
  BY DEF IInv, TypeOK, Settled, BoundWithinLease
<1>. QED  BY <1>1, SpecInv, PTL

-----------------------------------------------------------------------------
(* Refinement.                                                             *)
LEMMA LeaseInit == Init => Impl!Init
BY ZenonT(60) DEF Init, Impl!Init

LEMMA LeaseStep ==
  ASSUME IInv, [Next]_dhcpVars
  PROVE  [Impl!Next]_(Impl!leaseVars)
<1>. USE DEF Impl!leaseVars
<1>1. CASE run
  <2>1. UNCHANGED <<lease, ifAddr>>
    BY <1>1, RunFrame, ZenonT(60)
  <2>2. mState' = "Bound" => mState = "Bound"
    BY <1>1 DEF run, runInit, runSelecting, runRequesting, runBound, runRenewing,
                runRebinding, askOrStartOver, setNextState
  <2>. QED  BY <2>1, <2>2 DEF Impl!Next, Impl!Unsettle
<1>2. CASE waitAndReceive
  BY <1>2 DEF waitAndReceive, iface
<1>3. CASE timeout
  BY <1>3 DEF timeout, iface
<1>4. CASE receiveOffer
  <2>1. UNCHANGED <<lease, ifAddr>> /\ mState = "Selecting" /\ mState' = "Requesting"
    BY <1>4 DEF receiveOffer, setNextState, iface
  <2>. QED  BY <2>1
<1>5. CASE receiveAck
  <2>1. PICK m \in net : \E got \in configureSteps :
          /\ receiveDhcpMessage("ACK", m) /\ mState \in Asking
          /\ configureDhcp(m, got)
          /\ IF got = "all"
             THEN setNextState("Bound") /\ leavePoll
             ELSE UNCHANGED <<mState, mNextTimeout, mFuzzNextTimeout, dhcpPc, pollLeft>>
          /\ UNCHANGED lease
    BY <1>5 DEF receiveAck
  <2>2. PICK got \in configureSteps :
          /\ receiveDhcpMessage("ACK", m) /\ mState \in Asking
          /\ configureDhcp(m, got)
          /\ IF got = "all"
             THEN setNextState("Bound") /\ leavePoll
             ELSE UNCHANGED <<mState, mNextTimeout, mFuzzNextTimeout, dhcpPc, pollLeft>>
          /\ UNCHANGED lease
    BY <2>1, SMTT(60)
  <2>3. CASE got \in {"address", "all"}
    <3>1. /\ dhcpPc = "poll" /\ m.type = "ACK" /\ m.xid = xid
          /\ m.addr \in Addrs /\ m.grant \in Grants
      BY <2>2, ZenonT(60) DEF receiveDhcpMessage, IInv, TypeOK
    <3>2. m.grant.lease > 0 /\ ifAddr' = m.addr
      BY <2>2, <2>3, <3>1, T1Type, SMTT(60) DEF configureDhcp
    <3>3. lease[m.addr] > T1Of(m.grant)
      BY <2>2, <3>1, <3>2, AckLease, ZenonT(60) DEF Fresh
    <3>4. lease[m.addr] > 0
      BY <3>1, <3>3, T1Type, SMTT(60) DEF IInv, TypeOK
    <3>5. UNCHANGED lease /\ (mState' = "Bound") \in BOOLEAN
      BY <2>2, ZenonT(60)
    <3>6. Impl!Take
      BY <3>1, <3>2, <3>4, <3>5, ZenonT(60) DEF Impl!Take
    <3>. QED  BY <3>6, ZenonT(60) DEF Impl!Next
  <2>4. CASE got \notin {"address", "all"}
    BY <2>2, <2>4 DEF configureDhcp
  <2>. QED  BY <2>3, <2>4
<1>6. CASE receiveNak
  <2>1. /\ ifAddr' \in {ifAddr, None} /\ mState' = "Init" /\ UNCHANGED lease
    BY <1>6, ZenonT(60) DEF receiveNak, haltNetwork, setNextState
  <2>. QED  BY <2>1 DEF Impl!Next, Impl!Unsettle
<1>7. CASE serverOffers
  BY <1>7 DEF serverOffers, client, iface
<1>8. CASE serverAnswers
  <2>1. UNCHANGED <<ifAddr, mState>>
    BY <1>8, ZenonT(60) DEF serverAnswers, client, iface
  <2>2. CASE UNCHANGED lease
    BY <2>1, <2>2
  <2>3. CASE lease' # lease
    <3>1. PICK q \in net, g \in Grants :
            /\ q.type = "REQUEST"
            /\ lease' = [lease EXCEPT ![q.addr] = IF g.lease > @ THEN g.lease ELSE @]
      BY <1>8, <2>3, ZenonT(60) DEF serverAnswers
    <3>2. q.addr \in Addrs /\ lease \in [Addrs -> Nat] /\ g.lease \in Nat
      BY <3>1, T1Type DEF IInv, TypeOK
    <3>. DEFINE longer == IF g.lease > lease[q.addr] THEN g.lease ELSE lease[q.addr]
    <3>3. lease' = [lease EXCEPT ![q.addr] = longer]
      BY <3>1
    <3>4. longer >= lease[q.addr]
      BY <3>2
    <3>5. lease'[q.addr] = longer
      BY <3>2, <3>3
    <3>. HIDE DEF longer
    <3>. QED  BY <2>1, <3>2, <3>3, <3>4, <3>5, ZenonT(60) DEF Impl!Next, Impl!Grant
  <2>. QED  BY <2>2, <2>3, ZenonT(60)
<1>9. CASE tick
  <2>1. /\ UNCHANGED <<ifAddr, mState>>
        /\ lease' = [a \in Addrs |-> IF lease[a] > 0 THEN lease[a] - 1 ELSE 0]
    BY <1>9 DEF tick, iface, Less
  <2>2. ASSUME mState = "Bound" PROVE lease[ifAddr] > 1
    <3>1. (dhcpPc = "poll" /\ pollLeft > 0) \/ spinning
      BY <1>9 DEF tick
    <3>2. /\ ifAddr \in Addrs /\ lease[ifAddr] > mT1
          /\ dhcpPc = "poll" => pollLeft <= mT1
      BY <2>2, ZenonT(60) DEF IInv, Settled
    <3>3. pollLeft \in Nat /\ mT1 \in Nat /\ lease[ifAddr] \in Nat
      BY <3>2 DEF IInv, TypeOK
    <3>4. mT1 > 0
      BY <3>1, <3>2, <3>3 DEF spinning
    <3>. QED  BY <3>2, <3>3, <3>4
  <2>. QED  BY <2>1, <2>2, ZenonT(60) DEF Impl!Next, Impl!Elapse
<1>10. CASE UNCHANGED dhcpVars
  BY <1>10 DEF dhcpVars, client, iface
<1>. QED  BY <1>1, <1>2, <1>3, <1>4, <1>5, <1>6, <1>7, <1>8, <1>9, <1>10 DEF Next

(* The client implements Lease: every address it takes is leased to it and *)
(* no lease ends while it is Bound (receiveAck, run, waitAndReceive).      *)
THEOREM Refinement == Spec => LeaseSpec
<1>1. IInv /\ [Next]_dhcpVars => [Impl!Next]_(Impl!leaseVars)
  BY LeaseStep
<1>. QED  BY <1>1, LeaseInit, SpecInv, PTL DEF Spec, LeaseSpec, Impl!Spec

-----------------------------------------------------------------------------
(* The Wi-Fi HAL                                                             *)

\* Where HalState is while the event loop and wifi_cleanup are at work.  The
\* loop runs on the Info object from eventLoop to resetInfo, and leaves poll()
\* for onStop only by the byte that wifi_cleanup writes last: until then the
\* object is not destroyed.
StateOfLoop ==
  /\ halState \in {"Initialized", "Running"} => mInfo /\ ~controlPipe
  /\ halState = "Stopping" => mInfo \/ loop = "stopped"
  /\ halState \in {"Constructed", "Initialized", "Stopped"} => loop = "none"
  /\ loop \in {"poll", "reply"} => mInfo
  /\ loop \in {"onStop", "stopped"} => controlPipe /\ halState = "Stopping"
  /\ loop = "onStop" => mInfo
  /\ loop = "stopped" => ~mInfo
  /\ halClient \in {"stop", "write"} => halState = "Stopping" /\ ~controlPipe

WInv == WifiHalTypeOK /\ InfoOutlivesUse /\ StateOfLoop

LEMMA InitWInv == WifiHalInit => WInv
<1> SUFFICES ASSUME WifiHalInit PROVE WInv
  OBVIOUS
<1>1. WifiHalTypeOK
  <2>1. loops \in 0..LoopsMax
    BY WifiHalBounds DEF WifiHalInit
  <2>2. mNextSequenceNumber \in 1..(SequenceMax + 1)
    BY WifiHalBounds DEF WifiHalInit
  <2>3. replying \in 0..SequenceMax
    BY WifiHalBounds DEF WifiHalInit, NoReply
  <2>4. mHandlers \subseteq 1..SequenceMax /\ kernel \subseteq 1..SequenceMax
    BY DEF WifiHalInit
  <2> QED
  BY <2>1, <2>2, <2>3, <2>4, ZenonT(60) DEF WifiHalInit, WifiHalTypeOK
<1>2. InfoOutlivesUse /\ StateOfLoop
  BY DEF WifiHalInit, InfoOutlivesUse, StateOfLoop
<1> QED
  BY <1>1, <1>2 DEF WInv

LEMMA StepWInv == WInv /\ [WifiHalNext]_wifiHalVars => WInv'
<1> SUFFICES ASSUME WInv, [WifiHalNext]_wifiHalVars PROVE WInv'
  OBVIOUS
<1> USE WifiHalBounds DEF WInv, WifiHalTypeOK, InfoOutlivesUse, StateOfLoop, hal, socketVars,
                         loopPlace, NoReply
<1>1. CASE wifi_initialize
  <2>1. loops' \in 0..LoopsMax
    BY <1>1 DEF wifi_initialize
  <2>2. mNextSequenceNumber' \in 1..(SequenceMax + 1)
    BY <1>1, SMTT(60) DEF wifi_initialize, freshNetlink
  <2> QED
    BY <1>1, <2>1, <2>2, ZenonT(60) DEF wifi_initialize, freshNetlink
<1>2. CASE getLinkStats
  <2>1. mNextSequenceNumber' \in 1..(SequenceMax + 1)
    BY <1>2 DEF getLinkStats
  <2>2. mHandlers' \subseteq 1..SequenceMax /\ kernel' \subseteq 1..SequenceMax
    <3>1. mNextSequenceNumber \in 1..SequenceMax
      BY <1>2, SMTT(60) DEF getLinkStats
    <3> QED
      BY <1>2, <3>1, ZenonT(60) DEF getLinkStats
  <2>3. UNCHANGED <<halState, mInfo, mStopHandler, controlPipe, halClient, stopped, loops,
                   loop, replying, broken>>
    BY <1>2 DEF getLinkStats
  <2> QED
    BY <2>1, <2>2, <2>3, ZenonT(60)
<1>3. CASE wifi_cleanup
  BY <1>3, ZenonT(60) DEF wifi_cleanup
<1>4. CASE setStopHandler
  BY <1>4, ZenonT(60) DEF setStopHandler
<1>5. CASE writeControl
  BY <1>5, ZenonT(60) DEF writeControl
<1>6. CASE cleanedUp
  BY <1>6, ZenonT(60) DEF cleanedUp
<1>7. CASE eventLoop
  BY <1>7, SMTT(60) DEF eventLoop
<1>8. CASE onLinkStatsReply
  BY <1>8 DEF onLinkStatsReply
<1>9. CASE readControlMessage
  BY <1>9, ZenonT(60) DEF readControlMessage
<1>10. CASE pollFails
  BY <1>10, ZenonT(60) DEF pollFails
<1>11. CASE restart
  <2>1. loops' \in 0..LoopsMax /\ replying' \in 0..SequenceMax
    BY <1>11 DEF restart
  <2>2. mNextSequenceNumber' \in 1..(SequenceMax + 1)
    BY <1>11 DEF restart, freshNetlink
  <2> QED
    BY <1>11, <2>1, <2>2, ZenonT(60) DEF restart, freshNetlink
<1>12. CASE resetInfo
  BY <1>12, ZenonT(60) DEF resetInfo
<1>13. CASE setStopped
  BY <1>13, ZenonT(60) DEF setStopped
<1>14. ASSUME NEW n \in kernel, readNetlinkMessage(n) PROVE WInv'
  <2>1. n \in 0..SequenceMax
    BY SMTT(60)
  <2>2. kernel' \subseteq kernel /\ mHandlers' \subseteq mHandlers
    BY <1>14, ZenonT(60) DEF readNetlinkMessage
  <2> QED
    BY <1>14, <2>1, <2>2, ZenonT(60) DEF readNetlinkMessage
<1>15. CASE UNCHANGED wifiHalVars
  BY <1>15, ZenonT(60) DEF wifiHalVars
<1> QED
  BY <1>1, <1>2, <1>3, <1>4, <1>5, <1>6, <1>7, <1>8, <1>9, <1>10, <1>11, <1>12, <1>13,
     <1>14, <1>15, ZenonT(60) DEF WifiHalNext

\* The Info object is there while the event loop polls or replies and while
\* wifi_cleanup stops it, and is gone when HalState::init may make another,
\* although onStop resets it without mStateMutex.
THEOREM InfoStays == WifiHalSpec => []InfoOutlivesUse
<1>1. WInv => InfoOutlivesUse
  BY DEF WInv
<1> QED
  BY <1>1, InitWInv, StepWInv, PTL DEF WifiHalSpec

\* The state, the handlers and the threads of the Wi-Fi HAL keep their types.
THEOREM WifiHalTypes == WifiHalSpec => []WifiHalTypeOK
<1>1. WInv => WifiHalTypeOK
  BY DEF WInv
<1> QED
  BY <1>1, InitWInv, StepWInv, PTL DEF WifiHalSpec
-----------------------------------------------------------------------------
(* The GNSS                                                                  *)

\* What the host writes after a byte.
Follows(b, c) ==
  /\ b.newline => c.position = 1
  /\ ~b.newline => c = Byte(b.sentence, b.position + 1, b.length)

\* The next byte that the worker reads.
NextRead == IF devFd = <<>> THEN host ELSE devFd[1]

\* The bytes on their way are consecutive, and in a session they go on where
\* the buffer ends: what a session skips was read before its reset.
Stream ==
  /\ \A i \in 1..Len(devFd) :
       Follows(devFd[i], IF i = Len(devFd) THEN host ELSE devFd[i + 1])
  /\ running /\ m_buffer # <<>> =>
       ~m_buffer[Len(m_buffer)].newline /\ Follows(m_buffer[Len(m_buffer)], NextRead)

\* Only QUIT is sent beyond the bound, and nothing after it.
QuitIsLast == cleaning # "join" => Len(threadsFd) <= CommandsMax

GInv == GnssTypeOK /\ SentencesWhole /\ Stream /\ QuitIsLast

LEMMA BytesAre ==
  ASSUME NEW b \in Bytes
  PROVE  /\ b.sentence \in {0, 1} /\ b.length \in Lengths
         /\ b.position \in 1..b.length /\ b.newline = (b.position = b.length)
<1>0. PICK n \in Lengths : b \in {Byte(q, p, n) : q \in {0, 1}, p \in 1..n}
  BY DEF Bytes
<1>1. PICK q \in {0, 1}, p \in 1..n : b = Byte(q, p, n)
  BY <1>0
<1>2. /\ Byte(q, p, n).sentence = q /\ Byte(q, p, n).position = p
      /\ Byte(q, p, n).newline = (p = n) /\ Byte(q, p, n).length = n
  BY ZenonT(60) DEF Byte
<1> QED
  BY <1>1, <1>2, ZenonT(60)

\* The host writes bytes, and the first one of a sentence is at position 1.
LEMMA HostBytes ==
  /\ \A s \in {0, 1} : \A c \in FirstBytes(s) : c \in Bytes /\ c.position = 1
  /\ \A b \in Bytes : ~b.newline => Byte(b.sentence, b.position + 1, b.length) \in Bytes
<1>1. ASSUME NEW s \in {0, 1}, NEW c \in FirstBytes(s) PROVE c \in Bytes /\ c.position = 1
  <2>1. PICK n \in Lengths : c = Byte(s, 1, n)
    BY DEF FirstBytes
  <2>2. 1 \in 1..n
    BY GnssBounds
  <2>3. Byte(s, 1, n) \in Bytes
    <3>1. Byte(s, 1, n) \in {Byte(q, p, n) : q \in {0, 1}, p \in 1..n}
      BY <2>2
    <3> QED
      BY <3>1 DEF Bytes
  <2>4. Byte(s, 1, n).position = 1
    BY DEF Byte
  <2> QED
    BY <2>1, <2>3, <2>4, ZenonT(60)
<1>2. ASSUME NEW b \in Bytes, ~b.newline
      PROVE  Byte(b.sentence, b.position + 1, b.length) \in Bytes
  <2>1. b.length \in Nat /\ b.position \in 1..b.length /\ b.position # b.length
    BY <1>2, BytesAre, GnssBounds, ZenonT(60)
  <2>2. b.position + 1 \in 1..b.length
    BY <2>1
  <2> QED
    BY <2>2, BytesAre DEF Bytes
<1> QED
  BY <1>1, <1>2, ZenonT(60)

\* The types hold after a step that leaves buffers and queues in their bounds.
LEMMA GnssTypesAfter ==
  ASSUME worker' \in {"none", "starting", "polling"}, running' \in BOOLEAN, host' \in Bytes,
         m_buffer' \in Seq(Bytes), Len(m_buffer') < BufferMax,
         devFd' \in Seq(Bytes), Len(devFd') <= DeviceMax,
         threadsFd' \in Seq({"START", "STOP", "QUIT"}), Len(threadsFd') <= CommandsMax + 1,
         cb20' \in BOOLEAN, setting' \in BOOLEAN, cleaning' \in {"none", "join", "sink"}
  PROVE  GnssTypeOK'
  BY DEF GnssTypeOK

\* Empty queues are within the bounds.
LEMMA EmptyQueues ==
  /\ <<>> \in Seq(Bytes) /\ <<>> \in Seq({"START", "STOP", "QUIT"}) /\ Len(<<>>) = 0
  /\ 0 < BufferMax /\ 0 <= DeviceMax /\ 0 <= CommandsMax + 1
  /\ 0 <= CommandsMax /\ DOMAIN <<>> = {} /\ 1..Len(<<>>) = {}
  BY GnssBounds

\* A byte more in a queue.
LEMMA OneMore ==
  ASSUME NEW s \in Seq(Bytes), NEW c \in Bytes
  PROVE  /\ Append(s, c) \in Seq(Bytes) /\ Len(s) \in Nat /\ DOMAIN s = 1..Len(s)
         /\ Len(Append(s, c)) = Len(s) + 1 /\ Len(Append(s, c)) \in Nat
         /\ DOMAIN Append(s, c) = 1..(Len(s) + 1)
         /\ Append(s, c)[Len(s) + 1] = c /\ Append(s, c)[Len(Append(s, c))] = c
         /\ \A i \in 1..Len(s) : Append(s, c)[i] = s[i]
         /\ \A i \in 1..(Len(s) + 1) : i = Len(s) + 1 \/ i \in 1..Len(s)
         /\ s # <<>> => Append(s, c)[1] = s[1]
         /\ s = <<>> => Len(s) = 0 /\ Append(s, c)[1] = c
OBVIOUS

\* The place before the last one, and lengths within a bound.
LEMMA Neighbour ==
  ASSUME NEW n \in Nat
  PROVE  /\ \A i \in 1..n : i # n => i + 1 \in 1..n
         /\ \A m \in Nat : (n < m => n + 1 <= m) /\ (n <= m => n - 1 <= m)
OBVIOUS

\* A length is within its bound or beyond it.
LEMMA WithinOrBeyond == \A m, n \in Nat : m < n \/ m >= n
OBVIOUS

LEMMA InitGInv == GnssInit => GInv
<1> SUFFICES ASSUME GnssInit PROVE GInv
  OBVIOUS
<1>1. host \in Bytes
  BY HostBytes DEF GnssInit
<1>2. GnssTypeOK
  <2>1. /\ m_buffer \in Seq(Bytes) /\ Len(m_buffer) < BufferMax
        /\ devFd \in Seq(Bytes) /\ Len(devFd) <= DeviceMax
        /\ threadsFd \in Seq({"START", "STOP", "QUIT"}) /\ Len(threadsFd) <= CommandsMax + 1
    BY EmptyQueues, ZenonT(60) DEF GnssInit
  <2> QED
    BY <1>1, <2>1, ZenonT(60) DEF GnssInit, GnssTypeOK
<1>3. SentencesWhole /\ Stream /\ QuitIsLast
  BY GnssBounds DEF GnssInit, SentencesWhole, Stream, QuitIsLast
<1> QED
  BY <1>2, <1>3 DEF GInv

\* The calls, and commands that leave the session as it is, touch neither the
\* bytes on their way nor the buffer.
LEMMA CallsKeepGInv ==
  ASSUME GInv, UNCHANGED <<running, m_buffer, devFd, host>>,
         worker' \in {"none", "starting", "polling"},
         threadsFd' \in Seq({"START", "STOP", "QUIT"}), Len(threadsFd') <= CommandsMax + 1,
         cb20' \in BOOLEAN, setting' \in BOOLEAN, cleaning' \in {"none", "join", "sink"},
         QuitIsLast'
  PROVE  GInv'
<1>1. GnssTypeOK'
  BY ZenonT(60) DEF GInv, GnssTypeOK
<1>2. SentencesWhole' /\ Stream'
  BY DEF GInv, SentencesWhole, Stream, NextRead
<1> QED
  BY <1>1, <1>2, ZenonT(60) DEF GInv

LEMMA StepGInv == GInv /\ [GnssNext]_gnssVars => GInv'
<1> SUFFICES ASSUME GInv, [GnssNext]_gnssVars PROVE GInv'
  OBVIOUS
<1>0. /\ GnssTypeOK /\ SentencesWhole /\ Stream /\ QuitIsLast
      /\ Len(threadsFd) \in Nat /\ CommandsMax \in Nat
  BY GnssBounds DEF GInv, GnssTypeOK
<1>1. CASE open
  BY <1>0, <1>1, CallsKeepGInv DEF open, GnssTypeOK, QuitIsLast, hasMutex
<1>2. CASE setCallback20
  BY <1>0, <1>2, CallsKeepGInv, ZenonT(60) DEF setCallback20, GnssTypeOK, QuitIsLast
<1>3. CASE cleanup
  <2>1. Len(threadsFd) <= CommandsMax
    BY <1>0, <1>3 DEF cleanup, QuitIsLast
  <2>2. /\ threadsFd' \in Seq({"START", "STOP", "QUIT"}) /\ Len(threadsFd') <= CommandsMax + 1
        /\ cleaning' \in {"join", "sink"} /\ (cleaning' # "join" => threadsFd' = threadsFd)
    <3>1. threadsFd \in Seq({"START", "STOP", "QUIT"})
      BY <1>0 DEF GnssTypeOK
    <3>2. CASE worker = "none"
      BY <1>0, <1>3, <2>1, <3>1, <3>2 DEF cleanup
    <3>3. CASE worker # "none"
      BY <1>0, <1>3, <2>1, <3>1, <3>3 DEF cleanup
    <3> QED
      BY <3>2, <3>3
  <2>3. QuitIsLast'
    BY <2>1, <2>2 DEF QuitIsLast
  <2> QED
    BY <1>0, <1>3, <2>2, <2>3, CallsKeepGInv DEF cleanup, GnssTypeOK
<1>4. CASE sinkCleanup
  BY <1>0, <1>4, CallsKeepGInv, ZenonT(60) DEF sinkCleanup, GnssTypeOK, QuitIsLast
<1>5. ASSUME NEW cmd \in {"START", "STOP"}, sendWorkerThreadCommand(cmd) PROVE GInv'
  <2>1. threadsFd' \in Seq({"START", "STOP", "QUIT"}) /\ Len(threadsFd') <= CommandsMax
    BY <1>0, <1>5 DEF sendWorkerThreadCommand, GnssTypeOK
  <2>2. Len(threadsFd') <= CommandsMax + 1
    BY <1>0, <2>1
  <2> QED
    BY <1>0, <1>5, <2>1, <2>2, CallsKeepGInv, ZenonT(60) DEF sendWorkerThreadCommand, GnssTypeOK, QuitIsLast
<1>6. CASE engineOn
  BY <1>0, <1>6, CallsKeepGInv DEF engineOn, GnssTypeOK, QuitIsLast
<1>7. CASE startStop
  <2>1. /\ threadsFd' \in Seq({"START", "STOP", "QUIT"}) /\ Len(threadsFd') = Len(threadsFd) - 1
        /\ cleaning' = cleaning
    BY <1>0, <1>7 DEF startStop, GnssTypeOK
  <2>2. /\ running' \in BOOLEAN
        /\ (m_buffer' = m_buffer /\ (running' => running)) \/ m_buffer' = <<>>
    BY <1>0, <1>7, ZenonT(60) DEF startStop, reset, GnssTypeOK
  <2>3. GnssTypeOK'
    <3>1. m_buffer' \in Seq(Bytes) /\ Len(m_buffer') < BufferMax
      BY <1>0, <2>2, EmptyQueues, ZenonT(60) DEF GnssTypeOK
    <3>2. Len(threadsFd') <= CommandsMax + 1
      BY <1>0, <2>1, SMTT(60) DEF GnssTypeOK
    <3> QED
      BY <1>0, <1>7, <2>1, <2>2, <3>1, <3>2, GnssTypesAfter DEF startStop, GnssTypeOK
  <2>4. SentencesWhole' /\ Stream' /\ QuitIsLast'
    <3>1. SentencesWhole'
      BY <1>0, <2>2, EmptyQueues, ZenonT(60) DEF SentencesWhole
    <3>2. Stream'
      BY <1>0, <1>7, <2>2, ZenonT(60) DEF startStop, Stream, NextRead
    <3>3. QuitIsLast'
      BY <1>0, <1>7, <2>1 DEF startStop, QuitIsLast, GnssTypeOK
    <3> QED
      BY <3>1, <3>2, <3>3, ZenonT(60)
  <2> QED
    BY <2>3, <2>4 DEF GInv
<1>8. CASE quit \/ corrupted
  <2>1. /\ worker' = "none" /\ running' = FALSE /\ m_buffer' = <<>>
        /\ threadsFd' = <<>> /\ devFd' = <<>> /\ host' \in FirstBytes(0)
        /\ cb20' \in BOOLEAN /\ setting' \in BOOLEAN /\ cleaning' \in {"none", "sink"}
    BY <1>0, <1>8, ZenonT(60) DEF quit, corrupted, GnssTypeOK
  <2>2. host' \in Bytes
    BY <2>1, HostBytes
  <2>3. GnssTypeOK'
    BY <2>1, <2>2, EmptyQueues, GnssTypesAfter, ZenonT(60)
  <2>4. SentencesWhole' /\ Stream' /\ QuitIsLast'
    BY <2>1, EmptyQueues, ZenonT(60) DEF SentencesWhole, Stream, QuitIsLast
  <2> QED
    BY <2>3, <2>4, ZenonT(60) DEF GInv
<1>9. CASE readDevice
  <2> DEFINE c == devFd[1]
  <2>1. /\ devFd \in Seq(Bytes) /\ devFd # <<>> /\ Head(devFd) = c /\ c \in Bytes
        /\ devFd' = Tail(devFd) /\ NextRead = c
        /\ UNCHANGED <<worker, running, threadsFd, host, cb20, setting, cleaning>>
    BY <1>0, <1>9 DEF readDevice, GnssTypeOK, NextRead
  <2>2. devFd' \in Seq(Bytes) /\ Len(devFd') = Len(devFd) - 1
        /\ \A i \in 1..Len(devFd') : devFd'[i] = devFd[i + 1]
    BY <2>1
  <2>3. /\ Follows(c, NextRead')
        /\ \A i \in 1..Len(devFd') :
             Follows(devFd'[i], IF i = Len(devFd') THEN host' ELSE devFd'[i + 1])
    <3>1. Len(devFd) \in Nat /\ Len(devFd) >= 1 /\ Len(devFd') \in Nat
      BY <2>1, <2>2
    <3>2. \A i \in 1..Len(devFd) :
            Follows(devFd[i], IF i = Len(devFd) THEN host ELSE devFd[i + 1])
      BY <1>0 DEF Stream
    <3>3. NextRead' = IF 1 = Len(devFd) THEN host ELSE devFd[2]
      <4>1. CASE Len(devFd) = 1
        <5>1. devFd' = <<>>
          BY <2>1, <2>2, <4>1
        <5> QED
          BY <2>1, <4>1, <5>1 DEF NextRead
      <4>2. CASE Len(devFd) # 1
        <5>1. devFd' # <<>> /\ devFd'[1] = devFd[2]
          <6>1. Len(devFd') >= 1 /\ 1 \in 1..Len(devFd')
            BY <2>2, <3>1, <4>2
          <6> QED
            BY <2>2, <6>1
        <5> QED
          BY <4>2, <5>1 DEF NextRead
      <4> QED
        BY <4>1, <4>2
    <3>4. Follows(c, NextRead')
      BY <3>1, <3>2, <3>3, SMTT(60)
    <3>5. ASSUME NEW i \in 1..Len(devFd')
          PROVE  Follows(devFd'[i], IF i = Len(devFd') THEN host' ELSE devFd'[i + 1])
      <4>1. i + 1 \in 1..Len(devFd) /\ devFd'[i] = devFd[i + 1]
        BY <2>2, <3>1, SMTT(60)
      <4>2. (IF i = Len(devFd') THEN host' ELSE devFd'[i + 1])
              = (IF i + 1 = Len(devFd) THEN host ELSE devFd[i + 2])
        <5>1. CASE i = Len(devFd')
          BY <2>1, <2>2, <3>1, <5>1, SMTT(60)
        <5>2. CASE i # Len(devFd')
          <6>1. i + 1 \in 1..Len(devFd') /\ i + 1 # Len(devFd) /\ (i + 1) + 1 = i + 2
            BY <2>2, <3>1, <5>2, SMTT(60)
          <6> QED
            BY <2>2, <5>2, <6>1, ZenonT(60)
        <5> QED
          BY <5>1, <5>2, ZenonT(60)
      <4>3. Follows(devFd[i + 1], IF i + 1 = Len(devFd) THEN host ELSE devFd[(i + 1) + 1])
        BY <3>2, <4>1, ZenonT(60)
      <4>4. (i + 1) + 1 = i + 2
        OBVIOUS
      <4> QED
        BY <4>1, <4>2, <4>3, <4>4, ZenonT(60)
    <3> QED
      BY <3>4, <3>5
  <2>8. Len(devFd') <= DeviceMax
    <3>1. Len(devFd) <= DeviceMax /\ Len(devFd) \in Nat
      BY <1>0, <2>1, OneMore, ZenonT(60) DEF GnssTypeOK
    <3> QED
      BY <2>2, <3>1, GnssBounds, Neighbour, ZenonT(60)
  <2>4. CASE ~running
    <3>1. m_buffer' = m_buffer
      BY <1>9, <2>4, ZenonT(60) DEF readDevice
    <3>2. GnssTypeOK'
      BY <1>0, <2>1, <2>2, <2>8, <3>1, GnssTypesAfter DEF GnssTypeOK
    <3> QED
      BY <1>0, <2>1, <2>3, <2>4, <3>1, <3>2 DEF GInv, SentencesWhole, Stream, QuitIsLast
  <2>5. CASE running /\ m_buffer' = <<>>
    <3>1. GnssTypeOK'
      BY <1>0, <2>1, <2>2, <2>5, <2>8, EmptyQueues, GnssTypesAfter, ZenonT(60) DEF GnssTypeOK
    <3>2. SentencesWhole'
      BY <2>5, SMTT(60) DEF SentencesWhole
    <3>3. Stream' /\ QuitIsLast'
      BY <1>0, <2>1, <2>3, <2>5, ZenonT(60) DEF Stream, QuitIsLast
    <3> QED
      BY <3>1, <3>2, <3>3, ZenonT(60) DEF GInv
  <2>6. CASE running /\ m_buffer' # <<>>
    <3>1. consume(c)
      BY <1>9, <2>1, <2>6, ZenonT(60) DEF readDevice
    <3>2. /\ m_buffer' = Append(m_buffer, c) /\ ~c.newline
          /\ Len(m_buffer') < BufferMax /\ (c.position = 1 \/ m_buffer # <<>>)
      <4>0. m_buffer' \in {m_buffer, Append(m_buffer, c)}
        BY <2>6, <3>1, ZenonT(60) DEF consume
      <4>1. Len(m_buffer') \in Nat /\ BufferMax \in Nat
        BY <1>0, <2>1, <4>0, GnssBounds, OneMore, ZenonT(60) DEF GnssTypeOK
      <4> QED
        BY <2>6, <3>1, <4>1, WithinOrBeyond, ZenonT(60) DEF consume
    <3>3. /\ m_buffer' \in Seq(Bytes) /\ Len(m_buffer') = Len(m_buffer) + 1
          /\ m_buffer'[Len(m_buffer')] = c
          /\ \A i \in 1..Len(m_buffer) : m_buffer'[i] = m_buffer[i]
      <4>1. m_buffer \in Seq(Bytes) /\ c \in Bytes
        BY <1>0, <2>1, ZenonT(60) DEF GnssTypeOK
      <4>2. m_buffer' = Append(m_buffer, c)
        BY <3>2, ZenonT(60)
      <4> HIDE DEF c
      <4>3. /\ Append(m_buffer, c) \in Seq(Bytes) /\ Len(Append(m_buffer, c)) = Len(m_buffer) + 1
            /\ Append(m_buffer, c)[Len(Append(m_buffer, c))] = c
            /\ \A i \in 1..Len(m_buffer) : Append(m_buffer, c)[i] = m_buffer[i]
        BY <4>1, OneMore, ZenonT(60)
      <4> QED
        BY <4>2, <4>3, ZenonT(60)
    <3>4. /\ c.position = Len(m_buffer) + 1
          /\ m_buffer # <<>> => c.sentence = m_buffer[1].sentence
      <4>1. CASE m_buffer = <<>>
        BY <3>2, <4>1
      <4>2. CASE m_buffer # <<>>
        <5> DEFINE b == m_buffer[Len(m_buffer)]
        <5>1. Len(m_buffer) \in DOMAIN m_buffer
          BY <1>0, <4>2 DEF GnssTypeOK
        <5>2. b.position = Len(m_buffer) /\ b.sentence = m_buffer[1].sentence
          BY <1>0, <5>1, ZenonT(60) DEF SentencesWhole
        <5>3. c = Byte(b.sentence, b.position + 1, b.length)
          BY <1>0, <2>1, <2>6, <4>2, ZenonT(60) DEF Stream, Follows
        <5> HIDE DEF b
        <5>4. c.position = b.position + 1 /\ c.sentence = b.sentence
          BY <5>3 DEF Byte
        <5> QED
          BY <5>2, <5>4
      <4> QED
        BY <4>1, <4>2, ZenonT(60)
    <3>5. SentencesWhole'
      <4>0. m_buffer \in Seq(Bytes)
        BY <1>0, ZenonT(60) DEF GnssTypeOK
      <4>1. /\ DOMAIN m_buffer' = 1..(Len(m_buffer) + 1) /\ DOMAIN m_buffer = 1..Len(m_buffer)
            /\ Len(m_buffer) \in Nat
        BY <2>1, <3>2, <4>0, OneMore, ZenonT(60)
      <4>2. ASSUME NEW i \in 1..(Len(m_buffer) + 1)
            PROVE  m_buffer'[i].position = i /\ m_buffer'[i].sentence = m_buffer'[1].sentence
        <5>1. CASE i = Len(m_buffer) + 1
          BY <2>1, <3>2, <3>4, <4>0, <5>1, OneMore, ZenonT(60)
        <5>2. CASE i \in 1..Len(m_buffer)
          BY <1>0, <3>3, <4>1, <5>2, SMTT(60) DEF SentencesWhole
        <5> QED
          BY <2>1, <4>0, <5>1, <5>2, OneMore, ZenonT(60)
      <4> QED
        BY <4>1, <4>2, ZenonT(60) DEF SentencesWhole
    <3>6. Stream' /\ QuitIsLast'
      BY <1>0, <2>1, <2>3, <3>2, <3>3, ZenonT(60) DEF Stream, QuitIsLast
    <3>7. GnssTypeOK'
      BY <1>0, <2>1, <2>2, <2>8, <3>2, <3>3, GnssTypesAfter, ZenonT(60) DEF GnssTypeOK
    <3> QED
      BY <3>5, <3>6, <3>7, ZenonT(60) DEF GInv
  <2>7. running \in BOOLEAN
    BY <1>0, ZenonT(60) DEF GnssTypeOK
  <2> QED
    BY <2>4, <2>5, <2>6, <2>7, ZenonT(60)
<1>10. CASE hostWrites
  <2>1. /\ devFd \in Seq(Bytes) /\ host \in Bytes /\ Len(devFd) < DeviceMax
        /\ devFd' = Append(devFd, host)
        /\ UNCHANGED <<worker, running, m_buffer, threadsFd, cb20, setting, cleaning>>
    BY <1>0, <1>10 DEF hostWrites, GnssTypeOK
  <2>2. host' \in Bytes /\ Follows(host, host')
    <3>1. CASE host.newline
      <4>1. 1 - host.sentence \in {0, 1} /\ host' \in FirstBytes(1 - host.sentence)
        BY <1>10, <2>1, <3>1, BytesAre, SMTT(60) DEF hostWrites
      <4> QED
        BY <3>1, <4>1, HostBytes, ZenonT(60) DEF Follows
    <3>2. CASE ~host.newline
      <4>1. host' = Byte(host.sentence, host.position + 1, host.length)
        BY <1>10, <3>2, ZenonT(60) DEF hostWrites
      <4> QED
        BY <2>1, <3>2, <4>1, HostBytes, ZenonT(60) DEF Follows
    <3> QED
      BY <3>1, <3>2, ZenonT(60)
  <2>3. /\ devFd' \in Seq(Bytes) /\ Len(devFd') = Len(devFd) + 1 /\ Len(devFd) \in Nat
        /\ devFd'[Len(devFd) + 1] = host
        /\ \A i \in 1..Len(devFd) : devFd'[i] = devFd[i]
    BY <2>1
  <2>4. NextRead' = NextRead
    BY <2>1, <2>3, SMTT(60) DEF NextRead
  <2>5. ASSUME NEW i \in 1..Len(devFd')
        PROVE  Follows(devFd'[i], IF i = Len(devFd') THEN host' ELSE devFd'[i + 1])
    <3>1. CASE i = Len(devFd) + 1
      BY <2>2, <2>3, <3>1, ZenonT(60)
    <3>2. CASE i \in 1..Len(devFd)
      <4>1. devFd'[i + 1] = IF i = Len(devFd) THEN host ELSE devFd[i + 1]
        <5>1. CASE i = Len(devFd)
          BY <2>3, <5>1, ZenonT(60)
        <5>2. CASE i # Len(devFd)
          <6>1. i + 1 \in 1..Len(devFd)
            BY <2>3, <3>2, <5>2, Neighbour, ZenonT(60)
          <6> QED
            BY <2>3, <5>2, <6>1, ZenonT(60)
        <5> QED
          BY <5>1, <5>2, ZenonT(60)
      <4> QED
        BY <1>0, <2>3, <3>2, <4>1 DEF Stream
    <3> QED
      BY <2>3, <3>1, <3>2
  <2>6. GnssTypeOK'
    <3>1. Len(devFd') <= DeviceMax
      BY <2>1, <2>3, GnssBounds, Neighbour, ZenonT(60)
    <3> QED
      BY <1>0, <2>1, <2>2, <2>3, <3>1, GnssTypesAfter, ZenonT(60) DEF GnssTypeOK
  <2>7. SentencesWhole' /\ Stream' /\ QuitIsLast'
    BY <1>0, <2>1, <2>4, <2>5, ZenonT(60) DEF SentencesWhole, Stream, QuitIsLast
  <2> QED
    BY <2>6, <2>7 DEF GInv
<1>11. CASE UNCHANGED gnssVars
  BY <1>0, <1>11, CallsKeepGInv, ZenonT(60) DEF gnssVars, GnssTypeOK, QuitIsLast
<1> QED
  BY <1>1, <1>2, <1>3, <1>4, <1>5, <1>6, <1>7, <1>8, <1>9, <1>10, <1>11, ZenonT(60) DEF GnssNext

\* What the listener hands to parse are whole sentences, of one session and
\* for sentences and buffers of any length (consume, reset).
THEOREM SentencesAreWhole == GnssSpec => []SentencesWhole
<1>1. GInv => SentencesWhole
  BY DEF GInv
<1> QED
  BY <1>1, InitGInv, StepGInv, PTL DEF GnssSpec

\* The queues and the buffer of the GNSS keep their bounds and types.
THEOREM GnssTypes == GnssSpec => []GnssTypeOK
<1>1. GInv => GnssTypeOK
  BY DEF GInv
<1> QED
  BY <1>1, InitGInv, StepGInv, PTL DEF GnssSpec

=============================================================================
