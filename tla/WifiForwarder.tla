--------------------------- MODULE WifiForwarder ---------------------------
(* The Wi-Fi forwarder (network/wifi_forwarder): frames of the simulated   *)
(* radios of this kernel and of other emulators are passed on to the radio *)
(* they are for, sent again when the kernel refuses them, and reported to  *)
(* the radio that transmitted them.  One thread, the poller.               *)
(*                                                                         *)
(* Times are relative: a deadline is the time left (negative when it has   *)
(* passed), the time of a cache entry is its age when the cache was last   *)
(* told the time.  A frame stands for its FrameId; Info is what is in it.  *)
EXTENDS Integers, FiniteSets, Sequences, Functions

CONSTANTS
  Frames,         \* a cookie and a transmitter each
  Info,           \* frames -> [from, transmitter, source, destination,
                  \*            attempts, window]
  Multicast,      \* the group address
  WindowMax,      \* mContentionWindowMax
  Second, Expiration, Lifetime

ASSUME ForwarderBounds == \A f \in Frames : Info[f].from \in {"Local", "Remote"}

VARIABLES
  mPipeFd,        \* the remote connection is open
  mRadios,        \* known radios -> "Local" or "Remote"
  mAliases,       \* source addresses -> radio
  mPendingFrames, \* frames -> [age, dest, attempts, window]
  mSequenceNumberCookies, \* sequence numbers -> [id, age]
  mRetryQueue,    \* records [left, id]
  mInitDeadline, mDeadline,
  sinceUpdate, sinceExpiration,  \* age of the mLastCache... times
  netlink,        \* sent to the kernel, not answered yet: [seq, id, dest]
  remote,         \* frames sent to the other emulators, not acknowledged yet
  unsent,         \* frames that no radio has transmitted yet
  reports,        \* unicast frames -> what their transmitter was told
  accepted        \* unicast frames that were taken

local == <<mPendingFrames, mSequenceNumberCookies, mRetryQueue, netlink>>
clocks == <<mInitDeadline, mDeadline, sinceUpdate, sinceExpiration>>
wifiVars == <<mPipeFd, mRadios, mAliases, local, clocks, remote, unsent, reports,
              accepted>>

Unicast == {f \in Frames : Info[f].destination # Multicast}

Put(f, k, v) == [x \in DOMAIN f \cup {k} |-> IF x = k THEN v ELSE f[x]]
Overlay(f, g) ==
  [x \in DOMAIN f \cup DOMAIN g |-> IF x \in DOMAIN g THEN g[x] ELSE f[x]]
Without(f, K) == [x \in DOMAIN f \ K |-> f[x]]
Nothing == [x \in {} |-> x]

started ==
  /\ mPipeFd' = FALSE /\ mRadios' = Nothing /\ mAliases' = Nothing
  /\ mPendingFrames' = Nothing /\ mSequenceNumberCookies' = Nothing
  /\ mRetryQueue' = {} /\ netlink' = <<>> /\ remote' = {}
  /\ mInitDeadline' = 0 /\ mDeadline' = Second
  /\ sinceUpdate' = 0 /\ sinceExpiration' = 0

ForwarderInit ==
  /\ mPipeFd = FALSE /\ mRadios = Nothing /\ mAliases = Nothing
  /\ mPendingFrames = Nothing /\ mSequenceNumberCookies = Nothing
  /\ mRetryQueue = {} /\ netlink = <<>> /\ remote = {}
  /\ mInitDeadline = 0 /\ mDeadline = Second
  /\ sinceUpdate = 0 /\ sinceExpiration = 0
  /\ unsent = Frames /\ reports = [f \in Unicast |-> <<>>] /\ accepted = {}

(* WifiForwarder::init, first from main and then from onTimeout every      *)
(* minute until the pipe opens.                                            *)
init ==
  /\ ~mPipeFd /\ mInitDeadline = 0
  /\ \/ /\ mInitDeadline' = Second
        /\ UNCHANGED <<mPipeFd, mDeadline, sinceUpdate, sinceExpiration>>
     \/ /\ mPipeFd' = TRUE
        /\ mDeadline' = Second
        /\ sinceUpdate' = 0 /\ sinceExpiration' = 0
        /\ UNCHANGED mInitDeadline
  /\ UNCHANGED <<mRadios, mAliases, local, remote, unsent, reports, accepted>>

(* The pipe is closed (onClose), or the kernel side cannot be initialized: *)
(* the poller returns, the process ends and its service is started again.  *)
exitAndRestart ==
  /\ mPipeFd \/ mInitDeadline = 0
  /\ started
  /\ UNCHANGED <<unsent, reports, accepted>>

-----------------------------------------------------------------------------
(* Sequence numbers for the next k messages: the least that are not in use. *)
getSeqNums(cookies, k) ==
  LET used == DOMAIN cookies \cup {netlink[i].seq : i \in DOMAIN netlink}
  IN  {s \in Injection(1..k, (1..(Cardinality(used) + k)) \ used) :
         \A i \in 1..k : 1..(s[i] - 1) \subseteq used \cup {s[j] : j \in 1..(i - 1)}}

incrementAttempts(id, attempts, times) ==
  IF attempts + times <= Info[id].attempts THEN attempts + times ELSE Info[id].attempts
hasRemainingAttempts(id, entry) == entry.attempts < Info[id].attempts

(* Calls of transferFrame, one for each message that can be built, which    *)
(* leave the frames with these entries.  NetlinkSocket::send returns true   *)
(* even when sending fails: such a message is one that the kernel does not  *)
(* answer.                                                                  *)
transferFrames(pending, cookies, entries, messages) ==
  \E seqs \in getSeqNums(cookies, Len(messages)) :
    /\ mPendingFrames' = Overlay(pending, entries)
    /\ mSequenceNumberCookies' =
         Overlay(cookies, [n \in Range(seqs) |->
                   [id |-> messages[CHOOSE i \in 1..Len(messages) : seqs[i] = n].id,
                    age |-> 0]])
    /\ netlink' = netlink \o [i \in 1..Len(messages) |->
                    [seq |-> seqs[i], id |-> messages[i].id, dest |-> messages[i].dest]]

(* cloneFrame for some radios.  A copy is dropped when its message cannot   *)
(* be built (initGeneric, addAttribute).                                    *)
cloneFrame(f, radios) ==
  \E built \in SUBSET radios : \E order \in Bijection(1..Cardinality(built), built) :
    transferFrames(
      mPendingFrames, mSequenceNumberCookies,
      [id \in (IF built = {} THEN {} ELSE {f}) |->
         [age |-> 0, dest |-> order[Cardinality(built)], window |-> Info[f].window,
          attempts |-> incrementAttempts(f, 0, 1)]],
      [i \in 1..Cardinality(built) |-> [id |-> f, dest |-> order[i]]])

(* WifiForwarder::onAck: the report goes to the side that the transmitter  *)
(* is on; LocalConnection::ackFrame also forgets the frame, while          *)
(* RemoteConnection::ackFrame only writes to the pipe.                     *)
onAckForgets(f) == mRadios[Info[f].transmitter] = "Local"
report(f, success) ==
  reports' = [g \in Unicast |-> IF g = f THEN Append(reports[g], success) ELSE reports[g]]
taken(f) == accepted' = accepted \cup ({f} \cap Unicast)

-----------------------------------------------------------------------------
(* forwardFrame for a frame that arrives from either side.  The radios are *)
(* visited in no particular order.                                         *)
isFor(f, radio) ==
  \/ Info[f].destination = Multicast
  \/ Info[f].destination = radio
  \/ Info[f].destination \in DOMAIN mAliases' /\ mAliases'[Info[f].destination] = radio

forwardTo(f) ==
  {r \in DOMAIN mRadios' \ {Info[f].transmitter} :
     isFor(f, r) /\ ~(Info[f].from = "Remote" /\ mRadios'[r] = "Remote")}

forwardFrame(f) ==
  /\ mPipeFd
  /\ f \in unsent
  /\ unsent' = unsent \ {f}
  /\ mRadios' = Put(mRadios, Info[f].transmitter, Info[f].from)
  /\ mAliases' = Put(mAliases, Info[f].source, Info[f].transmitter)
  /\ LET multicast == Info[f].destination = Multicast
         locals == {r \in forwardTo(f) : mRadios'[r] = "Local"}
         sendOnRemote == multicast \/ \E r \in forwardTo(f) : mRadios'[r] = "Remote"
     IN  /\ IF multicast \/ locals = {}
            THEN /\ cloneFrame(f, locals)
                 /\ remote' = IF sendOnRemote /\ Info[f].from # "Remote"
                              THEN remote \cup {f} ELSE remote
            ELSE /\ \E r \in locals : cloneFrame(f, {r})
                 /\ UNCHANGED remote
  /\ UNCHANGED <<mPipeFd, mRetryQueue, clocks, reports, accepted>>

receiveFrame == \E f \in Frames : forwardFrame(f)

-----------------------------------------------------------------------------
(* The kernel answers what it was sent, in order: NLMSG_ERROR with 0 or    *)
(* with an error.                                                          *)
answer == Head(netlink)
answerRead == netlink' = Tail(netlink)
cookieOf(seq) == mSequenceNumberCookies[seq].id

lostAnswer ==
  /\ netlink # <<>> /\ answerRead
  /\ UNCHANGED <<mPipeFd, mRadios, mAliases, mPendingFrames, mSequenceNumberCookies,
                 mRetryQueue, clocks, remote, unsent, reports, accepted>>

(* The entry of the sequence number is erased before the last erase reads  *)
(* the id through it: what is read there may be the id or any other value. *)
onAck ==
  /\ netlink # <<>> /\ answerRead
  /\ taken(answer.id)
  /\ mSequenceNumberCookies' = Without(mSequenceNumberCookies, {answer.seq})
  /\ IF /\ answer.seq \in DOMAIN mSequenceNumberCookies
        /\ cookieOf(answer.seq) \in DOMAIN mPendingFrames
     THEN LET id == cookieOf(answer.seq)
          IN  /\ report(id, TRUE)
              /\ \E erased \in {{id}, IF onAckForgets(id) THEN {id} ELSE {}} :
                   mPendingFrames' = Without(mPendingFrames, erased)
     ELSE UNCHANGED <<mPendingFrames, reports>>
  /\ UNCHANGED <<mPipeFd, mRadios, mAliases, mRetryQueue, clocks, remote, unsent>>

retryLater(id) ==
  LET entry == mPendingFrames[id]
      wider == 2 * entry.window + 1
  IN  /\ mRetryQueue' = mRetryQueue \cup {[left |-> entry.window, id |-> id]}
      /\ mPendingFrames' = [mPendingFrames EXCEPT ![id].window =
                              IF wider < WindowMax THEN wider ELSE WindowMax]

(* Faulty: the transmitter hears of every failure.                         *)
reportFailure(id) ==
  IF hasRemainingAttempts(id, mPendingFrames[id])
  THEN retryLater(id) /\ report(id, FALSE)
  ELSE /\ report(id, FALSE)
       /\ mPendingFrames' = Without(mPendingFrames, {id})
       /\ UNCHANGED mRetryQueue

failedFrame(id) ==
  IF hasRemainingAttempts(id, mPendingFrames[id])
  THEN retryLater(id) /\ UNCHANGED reports
  ELSE /\ report(id, FALSE)
       /\ mPendingFrames' = Without(mPendingFrames, {id})
       /\ UNCHANGED mRetryQueue

onError ==
  /\ netlink # <<>> /\ answerRead
  /\ mSequenceNumberCookies' = Without(mSequenceNumberCookies, {answer.seq})
  /\ IF /\ answer.seq \in DOMAIN mSequenceNumberCookies
        /\ cookieOf(answer.seq) \in DOMAIN mPendingFrames
     THEN failedFrame(cookieOf(answer.seq))
     ELSE UNCHANGED <<mPendingFrames, mRetryQueue, reports>>
  /\ UNCHANGED <<mPipeFd, mRadios, mAliases, clocks, remote, unsent, accepted>>

(* RemoteConnection::receive of an acknowledgement.                        *)
remoteAck ==
  /\ mPipeFd
  /\ \E f \in remote, success \in BOOLEAN :
       /\ remote' = remote \ {f}
       /\ report(f, success)
       /\ IF success THEN taken(f) ELSE UNCHANGED accepted
       /\ mPendingFrames' = IF onAckForgets(f)
                            THEN Without(mPendingFrames, {f}) ELSE mPendingFrames
  /\ UNCHANGED <<mPipeFd, mRadios, mAliases, mSequenceNumberCookies, mRetryQueue,
                 netlink, clocks, unsent>>

-----------------------------------------------------------------------------
(* mRetryQueue is a std::priority_queue: its top is the latest deadline.   *)
latest == CHOOSE r \in mRetryQueue : \A q \in mRetryQueue : q.left <= r.left
retriesDue == mRetryQueue # {} /\ latest.left <= 0
getTimeout == mPipeFd /\ (retriesDue \/ mDeadline <= 0)

(* Cache::setCurrentTime and expireEntries for both caches.                *)
older(cache, by) == [k \in DOMAIN cache |-> [cache[k] EXCEPT !.age = @ + by]]
expireEntries(cache) == Without(cache, {k \in DOMAIN cache : cache[k].age > Lifetime})

(* Faulty: the caches are not told the time.                               *)
cachesAlone(cache) == cache

cachesAfter(cache) ==
  LET told == IF sinceUpdate > Second THEN older(cache, sinceUpdate) ELSE cache
  IN  IF sinceExpiration > Expiration THEN expireEntries(told) ELSE told

(* The retries, the latest first.  A frame that is no longer pending is not *)
(* sent again; one whose message cannot be built is forgotten, and nobody   *)
(* is told; a multicast frame may have several retries.                     *)
retryFrames(pending, cookies) ==
  LET due == {r \in mRetryQueue : r.id \in DOMAIN pending}
  IN  \E built \in SUBSET due :
        LET dropped == {r.id : r \in due \ built}
            times(id) == Cardinality({r \in built : r.id = id})
        IN  /\ \A r \in built, q \in due : q.id = r.id /\ q.left > r.left => q \in built
            /\ \E order \in Bijection(1..Cardinality(built), built) :
                 /\ \A i, j \in 1..Cardinality(built) :
                      i < j => order[i].left >= order[j].left
                 /\ transferFrames(
                      Without(pending, dropped), cookies,
                      [id \in {r.id : r \in built} \ dropped |->
                         [pending[id] EXCEPT
                            !.age = 0, !.attempts = incrementAttempts(id, @, times(id))]],
                      [i \in 1..Cardinality(built) |->
                         [id |-> order[i].id, dest |-> pending[order[i].id].dest]])

(* WifiForwarder::onTimeout with LocalConnection::onTimeout.  Once the     *)
(* latest retry is due all are.  Aliases live for hours: some of them are  *)
(* old enough when the caches are cleaned up.                              *)
onTimeout ==
  /\ getTimeout
  /\ UNCHANGED <<mPipeFd, mRadios, mInitDeadline, remote, unsent, reports, accepted>>
  /\ sinceUpdate' = IF sinceUpdate > Second THEN 0 ELSE sinceUpdate
  /\ sinceExpiration' = IF sinceExpiration > Expiration THEN 0 ELSE sinceExpiration
  /\ LET pending == cachesAfter(mPendingFrames)
         cookies == cachesAfter(mSequenceNumberCookies)
     IN  IF retriesDue
         THEN retryFrames(pending, cookies) /\ mRetryQueue' = {}
         ELSE /\ mPendingFrames' = pending /\ mSequenceNumberCookies' = cookies
              /\ UNCHANGED <<netlink, mRetryQueue>>
  /\ IF mDeadline <= 0
     THEN /\ mDeadline' = mDeadline + Second
          /\ \E old \in SUBSET DOMAIN mAliases : mAliases' = Without(mAliases, old)
     ELSE UNCHANGED <<mDeadline, mAliases>>

(* Time passes in ppoll, which returns at the timeout.                     *)
pollTick ==
  /\ IF mPipeFd THEN ~getTimeout ELSE mInitDeadline > 0
  /\ mInitDeadline' = IF mPipeFd THEN mInitDeadline ELSE mInitDeadline - 1
  /\ IF mPipeFd
     THEN /\ mDeadline' = mDeadline - 1
          /\ sinceUpdate' = sinceUpdate + 1
          /\ sinceExpiration' = sinceExpiration + 1
     ELSE UNCHANGED <<mDeadline, sinceUpdate, sinceExpiration>>
  /\ mRetryQueue' = {[r EXCEPT !.left = @ - 1] : r \in mRetryQueue}
  /\ UNCHANGED <<mPipeFd, mRadios, mAliases, mPendingFrames, mSequenceNumberCookies,
                 netlink, remote, unsent, reports, accepted>>

ForwarderNext ==
  \/ init \/ exitAndRestart \/ receiveFrame
  \/ lostAnswer \/ onAck \/ onError \/ remoteAck
  \/ onTimeout \/ pollTick

(* The poller runs and time passes; the kernel and the remote may be mute. *)
ForwarderFairness == WF_wifiVars(onTimeout) /\ WF_wifiVars(pollTick)

ForwarderSpec == ForwarderInit /\ [][ForwarderNext]_wifiVars

-----------------------------------------------------------------------------
(* The variables have their types.                                         *)
ForwarderTypeOK ==
  /\ mPipeFd \in BOOLEAN
  /\ \A r \in DOMAIN mRadios : mRadios[r] \in {"Local", "Remote"}
  /\ DOMAIN mPendingFrames \subseteq Frames
  /\ \A n \in DOMAIN mSequenceNumberCookies : mSequenceNumberCookies[n].id \in Frames
  /\ remote \subseteq Frames /\ unsent \subseteq Frames
  /\ \A f \in Unicast : \A i \in DOMAIN reports[f] : reports[f][i] \in BOOLEAN

(* However the kernel's answers, retries and the restart of the service    *)
(* interleave, the transmitter of a unicast frame is told its outcome at   *)
(* most once, and told of success only if the frame was taken (onAck,      *)
(* onError, WifiForwarder::onAck).                                         *)
UnicastReportedOnce ==
  \A f \in Unicast :
    /\ Len(reports[f]) <= 1
    /\ reports[f] = <<TRUE>> => f \in accepted

(* No unicast frame stays in mPendingFrames for ever, whether the kernel  *)
(* answers or not (onTimeout: "We just want to make sure these caches      *)
(* don't fill up over a long period of time").                            *)
PendingFramesEnd ==
  \A f \in Unicast : []<>(f \notin DOMAIN mPendingFrames)
=============================================================================
