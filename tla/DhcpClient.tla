----------------------------- MODULE DhcpClient -----------------------------
(* The DHCP client (dhcp/client): the state machine of DhcpClient::run,    *)
(* polling with its timeouts, the configuration of the interface, and      *)
(* servers behind a network that loses, delays, reorders and duplicates.   *)
(* Durations are in units of the -1..+1 second variation, and timers and   *)
(* leases are the time left of them.                                       *)
EXTENDS Integers

CONSTANTS
  Addrs, Servers, None,
  Grants,             \* [lease, t1, t2] of an ACK, 0 for an absent option
  NoGateway,          \* the values of ClientOption::NoGateway to start with
  kInitialTimeout, kMaxTimeout, kTimeoutSpan,
  TransactionIds,     \* size of the id space: 2^32
  SecondsWord,        \* modulus of a uint32_t of seconds
  MillisWord          \* modulus of a uint32_t of milliseconds, in time units

kNoTimeout == 0

(* estimated timers of an ACK, computed in 32 bits                         *)
T1Of(g) == IF g.t1 > 0 THEN g.t1 ELSE g.lease \div 2
T2Of(g) == IF g.t2 > 0 THEN g.t2 ELSE ((g.lease * 7) % SecondsWord) \div 8

(* The longest time from a request to the end of the wait for its answer.  *)
MaxDelay == kMaxTimeout + kTimeoutSpan

ASSUME NoneAssumption ==
  None \notin Addrs /\ None \notin Servers /\ NoGateway \subseteq BOOLEAN
ASSUME TimeAssumption ==
  /\ kInitialTimeout \in Nat \ {0} /\ kTimeoutSpan \in Nat
  /\ kMaxTimeout \in Nat /\ kMaxTimeout >= kInitialTimeout
  /\ TransactionIds \in Nat /\ TransactionIds > 1
  /\ SecondsWord \in Nat \ {0} /\ MillisWord \in Nat /\ MillisWord > MaxDelay
(* A lease outlives its T1 by more than the longest wait for an answer:    *)
(* 65 s, against leases of 600 s with a T1 of 300 s.                       *)
ASSUME GrantAssumption ==
  /\ Grants \subseteq [lease : Nat, t1 : Nat, t2 : Nat]
  /\ \A g \in Grants : g.lease > 0 => T1Of(g) + MaxDelay < g.lease

States == {"Init", "Selecting", "Requesting", "Bound", "Renewing", "Rebinding"}
(* the states that have sent a request and wait for an answer              *)
Asking == {"Requesting", "Renewing", "Rebinding"}
Broadcast == None

VARIABLES
  mState, mNextTimeout, mFuzzNextTimeout, mOptions,
  mServerAddress, mRequestAddress,
  mT1, mT2,           \* time left until the timers expire
  xid,                \* transaction id of mLastMsg
  dhcpPc,             \* "run", "wait" (before the poll) or "poll"
  pollLeft,           \* time left of the poll
  ifAddr, ifUp,       \* the interface
  route,              \* the address with whose gateway the route was set
  net,                \* messages that were sent and may (still, again) arrive
  lease               \* time left of each lease, at the servers

client == <<mState, mNextTimeout, mFuzzNextTimeout, mServerAddress,
            mRequestAddress, mT1, mT2, xid, dhcpPc, pollLeft>>
iface == <<ifAddr, ifUp, route>>
dhcpVars == <<client, iface, mOptions, net, lease>>

Message(type, id, a, s, g) ==
  [type |-> type, xid |-> id, addr |-> a, server |-> s, grant |-> g]

Init ==
  /\ mState = "Init" /\ mNextTimeout = kInitialTimeout
  /\ mFuzzNextTimeout = TRUE /\ mOptions \in NoGateway
  /\ mServerAddress = None /\ mRequestAddress = None
  /\ mT1 = 0 /\ mT2 = 0 /\ xid = 0
  /\ dhcpPc = "run" /\ pollLeft = 0
  /\ ifAddr = None /\ ifUp = TRUE /\ route = None
  /\ net = {} /\ lease = [a \in Addrs |-> 0]

setNextState(s) ==
  /\ mState' = s
  /\ mNextTimeout' = kNoTimeout
  /\ mFuzzNextTimeout' = TRUE

Smaller(a, b) == IF a < b THEN a ELSE b

increaseTimeout ==
  mNextTimeout' = IF mNextTimeout = kNoTimeout THEN kInitialTimeout
                  ELSE IF mNextTimeout < kMaxTimeout
                       THEN Smaller(mNextTimeout * 2, kMaxTimeout)
                       ELSE kMaxTimeout

(* Every message takes the next id.  Nothing is sent on an interface that  *)
(* is down.  No message lives until its id comes round again.              *)
sendMessage(type, a, s) ==
  LET id == (xid + 1) % TransactionIds
      old == {m \in net : m.xid # id}
  IN  /\ xid' = id
      /\ net' = IF ifUp THEN old \cup {Message(type, id, a, s, None)} ELSE old

sendDhcpDiscover == sendMessage("DISCOVER", None, None)
sendDhcpRequest(destination) ==
  sendMessage("REQUEST", mRequestAddress, destination)

(* One case of the switch in run().                                        *)
runInit ==
  /\ mState = "Init"
  /\ setNextState("Selecting")
  /\ UNCHANGED <<xid, net>>

runSelecting ==
  /\ mState = "Selecting"
  /\ sendDhcpDiscover
  /\ increaseTimeout
  /\ UNCHANGED <<mState, mFuzzNextTimeout>>

(* Faulty: one more attempt is always left.                                *)
askForEver(s, destination) ==
  /\ mState = s
  /\ \/ /\ mNextTimeout > kMaxTimeout
        /\ setNextState("Init")
        /\ UNCHANGED <<xid, net>>
     \/ /\ mNextTimeout <= kMaxTimeout
        /\ sendDhcpRequest(destination)
        /\ increaseTimeout
        /\ UNCHANGED <<mState, mFuzzNextTimeout>>

(* The request is repeated until the timeout has grown to its maximum.     *)
askOrStartOver(s, destination) ==
  /\ mState = s
  /\ \/ /\ mNextTimeout >= kMaxTimeout
        /\ setNextState("Init")
        /\ UNCHANGED <<xid, net>>
     \/ /\ mNextTimeout < kMaxTimeout
        /\ sendDhcpRequest(destination)
        /\ increaseTimeout
        /\ UNCHANGED <<mState, mFuzzNextTimeout>>

runRequesting == askOrStartOver("Requesting", mServerAddress)
runRebinding == askOrStartOver("Rebinding", Broadcast)

(* remainingMillis() is cut to the 32 bits of mNextTimeout.                *)
runBound ==
  /\ mState = "Bound"
  /\ \/ /\ mT1 = 0
        /\ setNextState("Renewing")
     \/ /\ mT1 > 0
        /\ mNextTimeout' = mT1 % MillisWord
        /\ mFuzzNextTimeout' = FALSE
        /\ UNCHANGED mState
  /\ UNCHANGED <<xid, net>>

runRenewing ==
  /\ mState = "Renewing"
  /\ \/ /\ mT2 = 0
        /\ setNextState("Rebinding")
        /\ UNCHANGED <<xid, net>>
     \/ /\ mT2 > 0
        /\ sendDhcpRequest(mServerAddress)
        /\ increaseTimeout
        /\ UNCHANGED <<mState, mFuzzNextTimeout>>

run ==
  /\ dhcpPc = "run"
  /\ \/ runInit \/ runSelecting \/ runRequesting
     \/ runBound \/ runRenewing \/ runRebinding
  /\ dhcpPc' = "wait"
  /\ UNCHANGED <<mServerAddress, mRequestAddress, mT1, mT2, pollLeft, iface,
                 mOptions, lease>>

calculateTimeoutMillis ==
  IF mFuzzNextTimeout
  THEN {IF adjustment < 0 /\ -adjustment > mNextTimeout
        THEN 0 ELSE mNextTimeout + adjustment :
          adjustment \in (-kTimeoutSpan)..kTimeoutSpan}
  ELSE {mNextTimeout}

waitAndReceive ==
  /\ dhcpPc = "wait"
  /\ \/ /\ mNextTimeout = kNoTimeout
        /\ dhcpPc' = "run"
        /\ UNCHANGED pollLeft
     \/ /\ mNextTimeout # kNoTimeout
        /\ dhcpPc' = "poll"
        /\ pollLeft' \in calculateTimeoutMillis
  /\ UNCHANGED <<mState, mNextTimeout, mFuzzNextTimeout, mServerAddress,
                 mRequestAddress, mT1, mT2, xid, iface, mOptions, net, lease>>

timeout ==
  /\ dhcpPc = "poll"
  /\ pollLeft = 0
  /\ dhcpPc' = "run"
  /\ UNCHANGED <<mState, mNextTimeout, mFuzzNextTimeout, mServerAddress,
                 mRequestAddress, mT1, mT2, xid, pollLeft, iface, mOptions,
                 net, lease>>

leavePoll == dhcpPc' = "run" /\ pollLeft' = 0

(* Faulty: the transaction id of a reply is not compared.                  *)
anyDhcpMessage(type, m) ==
  /\ dhcpPc = "poll"
  /\ m \in net
  /\ m.type = type

(* A reply that is read while polling.  One with another id, or one that   *)
(* is of no interest in the state, changes nothing: the poll goes on.      *)
receiveDhcpMessage(type, m) ==
  /\ dhcpPc = "poll"
  /\ m \in net
  /\ m.type = type
  /\ m.xid = xid

receiveOffer ==
  \E m \in net :
    /\ receiveDhcpMessage("OFFER", m)
    /\ mState = "Selecting"
    /\ mServerAddress' = m.server
    /\ mRequestAddress' = m.addr
    /\ setNextState("Requesting")
    /\ leavePoll
    /\ UNCHANGED <<mT1, mT2, xid, iface, mOptions, net, lease>>

configureSteps == {"ignored", "timers", "up", "address", "all"}

(* Faulty: the lease is renewed only when it runs out.                     *)
renewAtEnd(m, got) ==
  /\ got = "ignored" <=> m.grant.lease = 0
  /\ got = "address" => ~mOptions
  /\ mT1' = IF got = "ignored" THEN mT1 ELSE m.grant.lease
  /\ mT2' = IF got = "ignored" THEN mT2 ELSE T2Of(m.grant)
  /\ ifUp' = (ifUp \/ got \in {"up", "address", "all"})
  /\ ifAddr' = IF got \in {"address", "all"} THEN m.addr ELSE ifAddr
  /\ route' = IF got = "all" /\ ~mOptions THEN m.addr ELSE route

(* configureDhcp: the timers are set first, and then each step on the      *)
(* interface may fail.  `got` says how far it came.  Properties and MTU are *)
(* set in between; their failures are logged and change nothing else.      *)
configureDhcp(m, got) ==
  /\ got = "ignored" <=> m.grant.lease = 0
  /\ got = "address" => ~mOptions
  /\ mT1' = IF got = "ignored" THEN mT1 ELSE T1Of(m.grant)
  /\ mT2' = IF got = "ignored" THEN mT2 ELSE T2Of(m.grant)
  /\ ifUp' = (ifUp \/ got \in {"up", "address", "all"})
  /\ ifAddr' = IF got \in {"address", "all"} THEN m.addr ELSE ifAddr
  /\ route' = IF got = "all" /\ ~mOptions THEN m.addr ELSE route

receiveAck ==
  \E m \in net : \E got \in configureSteps :
    /\ receiveDhcpMessage("ACK", m)
    /\ mState \in Asking
    /\ configureDhcp(m, got)
    /\ IF got = "all"
       THEN setNextState("Bound") /\ leavePoll
       ELSE UNCHANGED <<mState, mNextTimeout, mFuzzNextTimeout, dhcpPc, pollLeft>>
    /\ UNCHANGED <<mServerAddress, mRequestAddress, xid, mOptions, net, lease>>

(* haltNetwork takes the address away and the interface down; each of the  *)
(* two may fail.  An interface that goes down loses its routes.            *)
haltNetwork ==
  /\ ifAddr' \in {ifAddr, None}
  /\ ifUp' \in {ifUp, FALSE}
  /\ route' = IF ifUp' THEN route ELSE None

receiveNak ==
  \E m \in net :
    /\ receiveDhcpMessage("NAK", m)
    /\ mState \in Asking
    /\ haltNetwork
    /\ setNextState("Init")
    /\ leavePoll
    /\ UNCHANGED <<mServerAddress, mRequestAddress, mT1, mT2, xid, mOptions,
                   net, lease>>

(* The servers: external.  A server answers a message that is meant for it *)
(* once; a copy of the message gets a copy of the answer.  A lease that    *)
(* was granted is not shortened.                                           *)
answered(m, s) ==
  \E r \in net : r.xid = m.xid /\ r.server = s
                  /\ r.type \in {"OFFER", "ACK", "NAK"}

serverOffers ==
  \E m \in net, a \in Addrs, s \in Servers :
    /\ m.type = "DISCOVER" /\ ~answered(m, s)
    /\ net' = net \cup {Message("OFFER", m.xid, a, s, None)}
    /\ UNCHANGED <<client, iface, mOptions, lease>>

serverAnswers ==
  \E m \in net, s \in Servers :
    /\ m.type = "REQUEST" /\ m.server \in {s, Broadcast} /\ ~answered(m, s)
    /\ \/ \E g \in Grants :
            /\ net' = net \cup {Message("ACK", m.xid, m.addr, s, g)}
            /\ lease' = [lease EXCEPT ![m.addr] =
                           IF g.lease > @ THEN g.lease ELSE @]
       \/ /\ net' = net \cup {Message("NAK", m.xid, None, s, None)}
          /\ UNCHANGED lease
    /\ UNCHANGED <<client, iface, mOptions>>

(* Time passes while the client polls; what it does between two polls      *)
(* takes none, except that a remaining time of a multiple of MillisWord    *)
(* makes it loop until the clock moves.                                    *)
Less(t) == IF t > 0 THEN t - 1 ELSE 0
spinning == dhcpPc # "poll" /\ mState = "Bound" /\ ~mFuzzNextTimeout
              /\ mNextTimeout = kNoTimeout /\ mT1 > 0
tick ==
  /\ \/ dhcpPc = "poll" /\ pollLeft > 0
     \/ spinning
  /\ pollLeft' = Less(pollLeft)
  /\ mT1' = Less(mT1)
  /\ mT2' = Less(mT2)
  /\ lease' = [a \in Addrs |-> Less(lease[a])]
  /\ UNCHANGED <<mState, mNextTimeout, mFuzzNextTimeout, mServerAddress,
                 mRequestAddress, xid, dhcpPc, iface, mOptions, net>>

Next ==
  \/ run \/ waitAndReceive \/ timeout
  \/ receiveOffer \/ receiveAck \/ receiveNak
  \/ serverOffers \/ serverAnswers
  \/ tick

(* The client runs and time passes; nothing is asked of the network.       *)
Fairness == WF_dhcpVars(run) /\ WF_dhcpVars(waitAndReceive)
              /\ WF_dhcpVars(timeout) /\ WF_dhcpVars(tick)

Spec == Init /\ [][Next]_dhcpVars
FairSpec == Spec /\ Fairness

-----------------------------------------------------------------------------
(* The variables have their types, and an answer carries what its kind     *)
(* carries (Message::offer, Message::ack).                                 *)
TypeOK ==
  /\ mState \in States /\ mNextTimeout \in Nat
  /\ mFuzzNextTimeout \in BOOLEAN /\ mOptions \in BOOLEAN
  /\ mServerAddress \in Servers \cup {None}
  /\ mRequestAddress \in Addrs \cup {None}
  /\ mT1 \in Nat /\ mT2 \in Nat /\ pollLeft \in Nat
  /\ xid \in 0..(TransactionIds - 1)
  /\ dhcpPc \in {"run", "wait", "poll"}
  /\ ifAddr \in Addrs \cup {None} /\ ifUp \in BOOLEAN
  /\ route \in Addrs \cup {None}
  /\ lease \in [Addrs -> Nat]
  /\ \A m \in net :
       /\ m.type \in {"DISCOVER", "REQUEST", "OFFER", "ACK", "NAK"}
       /\ m.xid \in 0..(TransactionIds - 1)
       /\ m.type \in {"REQUEST", "OFFER", "ACK"} => m.addr \in Addrs
       /\ m.type = "OFFER" => m.server \in Servers
       /\ m.type = "ACK" => m.grant \in Grants

(* In the state Bound the interface is up with an address whose lease has  *)
(* not run out, and unless no gateway is wanted the route goes through the *)
(* gateway of that lease: T1 is counted from the arrival of the ACK        *)
(* (configureDhcp), the lease from when the server granted it, and the ACK *)
(* may be as late as the poll is long.                                     *)
BoundWithinLease ==
  mState = "Bound" =>
    /\ ifUp
    /\ ifAddr \in Addrs /\ lease[ifAddr] > 0
    /\ mOptions \/ route = ifAddr

(* The client implements Lease: an address is put on the interface only    *)
(* while its lease runs (receiveAck, configureDhcp), and the lease of a    *)
(* client that stays Bound does not end.                                   *)
Impl == INSTANCE Lease WITH inUse <- ifAddr, settled <- mState = "Bound"
LeaseSpec == Impl!Spec

(* No answer, and no sequence of answers, keeps the client in Requesting,  *)
(* Rebinding or Bound: retries are used up or T1 expires (run).            *)
MovesOn ==
  \A s \in {"Requesting", "Rebinding", "Bound"} : []<>(mState # s)
=============================================================================
