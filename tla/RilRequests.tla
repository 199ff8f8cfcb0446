----------------------------- MODULE RilRequests -----------------------------
(***************************************************************************)
(* A call of the framework through libril and back: the binder thread adds *)
(* a RequestInfo to s_pendingRequests, copies the arguments, runs onRequest*)
(* of the vendor RIL, which completes the request before it returns, and   *)
(* RIL_onRequestComplete looks the RequestInfo up, takes it off the list,  *)
(* calls the response function and frees it.  The RequestInfo's address is *)
(* the vendor's token, and the heap may give a freed address out again.    *)
(*                                                                         *)
(* The callbacks are reduced to the version of the registered client and   *)
(* whether its process is alive (module RadioService has the lock and the  *)
(* counter behind that).  reference-ril never calls RIL_onRequestAck.      *)
(***************************************************************************)
EXTENDS Integers, RilHandlers

CONSTANTS
  Addrs,      \* addresses the heap has for a RequestInfo
  Versions,   \* IRadio versions of a client, of {"1_0", "1_1", "1_4"}
  MaxCalls    \* bound: calls

ASSUME RequestsAssumption ==
  /\ Versions \subseteq {"1_0", "1_1", "1_4"}
  /\ MaxCalls \in Nat

(* configureRpcThreadpool(1, true): registerService's thread is the pool.  *)
Threads == {"binder"}

VARIABLES
  s_pendingRequests,  \* sequence of addresses, the newest first
  info,               \* RequestInfo at each address, Free if not allocated
  pc,                 \* where each thread is in a call
  call,               \* the row of RadioMethods it serves
  serial,             \* that call's serial number, 0 between two calls
  pRI,                \* that call's RequestInfo
  todo,               \* completions the handler has still to make
  answers,            \* answers the client got with that call's serial
  unheard,            \* an answer to that call could not be delivered
  stray,              \* an answer had the serial of no call in service
  refused,            \* addresses of requests refused before onRequest
  mRadioResponse,     \* version of the registered client, or "NULL"
  alive,              \* its process is alive
  nextSerial

threadVars == <<call, serial, pRI>>
clientVars == <<answers, unheard, stray, mRadioResponse>>
vars == <<s_pendingRequests, info, pc, threadVars, todo, clientVars, refused,
          alive, nextSerial>>

Free == [token |-> 0, request |-> "none"]
NoCall == <<"none", "none", {}>>
NoAddr == "NULL"

(* The requests of the methods, and the errors of a method or a handler.   *)
Requests == {row[2] : row \in RadioMethods}
CallErrors == Errors \cup UNION {row[3] : row \in RadioMethods}

(* Types of the variables.                                                 *)
TypeOK ==
  /\ s_pendingRequests \in Seq(Addrs)
  /\ info \in [Addrs -> [token : Nat, request : Requests \cup {"none"}]]
  /\ pc \in [Threads -> {"idle", "dispatch", "handler", "return", "crashed"}]
  /\ call \in [Threads -> RadioMethods \cup {NoCall}]
  /\ serial \in [Threads -> Nat]
  /\ pRI \in [Threads -> Addrs \cup {NoAddr}]
  /\ todo \in [Threads -> Seq(Completion)]
  /\ answers \in [Threads -> Seq([vendor : CallErrors, by : Nat,
                                  error : CallErrors \cup {"INVALID_RESPONSE"}])]
  /\ unheard \in [Threads -> BOOLEAN]
  /\ stray \in BOOLEAN
  /\ refused \subseteq Addrs
  /\ mRadioResponse \in Versions \cup {"NULL"}
  /\ alive \in BOOLEAN
  /\ nextSerial \in 1..(MaxCalls + 1)

Init ==
  /\ s_pendingRequests = <<>>
  /\ info = [a \in Addrs |-> Free]
  /\ pc = [t \in Threads |-> "idle"]
  /\ call = [t \in Threads |-> NoCall]
  /\ serial = [t \in Threads |-> 0]
  /\ pRI = [t \in Threads |-> NoAddr]
  /\ todo = [t \in Threads |-> <<>>]
  /\ answers = [t \in Threads |-> <<>>]
  /\ unheard = [t \in Threads |-> FALSE]
  /\ stray = FALSE
  /\ refused = {}
  /\ mRadioResponse = "NULL"
  /\ alive = FALSE
  /\ nextSerial = 1

request(t) == call[t][2]

In(list, a) == \E i \in 1..Len(list) : list[i] = a
Pending(a) == In(s_pendingRequests, a)

Distinct(list) == \A i, j \in 1..Len(list) : list[i] = list[j] => i = j

(* The list without its k-th element.                                      *)
Unlink(list, k) ==
  [j \in 1..(Len(list) - 1) |-> IF j < k THEN list[j] ELSE list[j + 1]]

(* A response function on thread t, for the serial and the request of a    *)
(* RequestInfo: a payload it cannot read turns success into an error; the  *)
(* callbacks it needs may be NULL, or the call of them may fail, upon      *)
(* which checkReturnStatus resets them.                                    *)
responseFunction(t, ri, c) ==
  LET f == ResponseFunction[ri.request]
      called == /\ mRadioResponse # "NULL"
                /\ f \in OnlyV1_1 => mRadioResponse # "1_0"
      heard == called /\ alive
      answer == [vendor |-> c.error,
                 error |-> IF c.error = "SUCCESS" /\ c.payload \notin Reads[f]
                           THEN "INVALID_RESPONSE" ELSE c.error,
                 by |-> serial[t]]
  IN  /\ answers' = [u \in Threads |->
                       IF heard /\ serial[u] = ri.token
                       THEN Append(answers[u], answer) ELSE answers[u]]
      /\ unheard' = [u \in Threads |->
                       unheard[u] \/ (~heard /\ serial[u] = ri.token)]
      /\ stray' = (stray \/ \A u \in Threads : serial[u] # ri.token)
      /\ mRadioResponse' = IF called /\ ~alive THEN "NULL" ELSE mRadioResponse

(* A method of RadioImpl starts: its request, with the RequestInfo linked  *)
(* in front of the others.                                                 *)
addRequestToList(t, row, a) ==
  /\ pc[t] = "idle" /\ nextSerial <= MaxCalls
  /\ info[a] = Free
  /\ info' = [info EXCEPT ![a] = [token |-> nextSerial, request |-> row[2]]]
  /\ s_pendingRequests' = <<a>> \o s_pendingRequests
  /\ pc' = [pc EXCEPT ![t] = "dispatch"]
  /\ call' = [call EXCEPT ![t] = row]
  /\ serial' = [serial EXCEPT ![t] = nextSerial]
  /\ pRI' = [pRI EXCEPT ![t] = a]
  /\ nextSerial' = nextSerial + 1
  /\ UNCHANGED <<todo, clientVars, refused, alive>>

(* Mutant: NULL is linked into the list.                                   *)
allocationUnchecked(t, row) ==
  /\ pc[t] = "idle" /\ nextSerial <= MaxCalls
  /\ s_pendingRequests' = <<NoAddr>> \o s_pendingRequests
  /\ pc' = [pc EXCEPT ![t] = "crashed"]
  /\ call' = [call EXCEPT ![t] = row]
  /\ nextSerial' = nextSerial + 1
  /\ UNCHANGED <<info, serial, pRI, todo, clientVars, refused, alive>>

(* Without memory for a RequestInfo a method returns, and the client hears *)
(* nothing; the two that refuse outright use the NULL they got.            *)
allocationFails(t, row) ==
  /\ pc[t] = "idle" /\ nextSerial <= MaxCalls
  /\ pc' = [pc EXCEPT ![t] = IF row[2] \in RefusedOutright
                             THEN "crashed" ELSE "return"]
  /\ call' = [call EXCEPT ![t] = row]
  /\ serial' = [serial EXCEPT ![t] = nextSerial]
  /\ unheard' = [unheard EXCEPT ![t] = TRUE]
  /\ nextSerial' = nextSerial + 1
  /\ UNCHANGED <<s_pendingRequests, info, pRI, todo, answers, stray, refused,
                 mRadioResponse, alive>>

(* Mutant: the RequestInfo is freed where it is on the list.               *)
sendErrorResponseFrees(t) ==
  /\ pc[t] = "dispatch"
  /\ \E e \in call[t][3] :
       responseFunction(t, info[pRI[t]], [error |-> e, payload |-> "null"])
  /\ info' = [info EXCEPT ![pRI[t]] = Free]
  /\ pc' = [pc EXCEPT ![t] = "return"]
  /\ UNCHANGED <<s_pendingRequests, threadVars, todo, refused, alive,
                 nextSerial>>

(* An argument cannot be copied, or is refused: the method answers the     *)
(* call itself, and leaves the RequestInfo where it is.                    *)
sendErrorResponse(t) ==
  /\ pc[t] = "dispatch"
  /\ \E e \in call[t][3] :
       responseFunction(t, info[pRI[t]], [error |-> e, payload |-> "null"])
  /\ refused' = refused \cup {pRI[t]}
  /\ pc' = [pc EXCEPT ![t] = "return"]
  /\ UNCHANGED <<s_pendingRequests, info, threadVars, todo, alive, nextSerial>>

(* The vendor RIL takes the request, in whatever state the radio is; its   *)
(* handler is on one of its paths.                                         *)
CALL_ONREQUEST(t) ==
  /\ pc[t] = "dispatch"
  /\ request(t) \notin RefusedOutright
  /\ \E sState \in RadioStates : \E path \in onRequest(request(t), sState) :
       /\ todo' = [todo EXCEPT ![t] = path]
       /\ pc' = [pc EXCEPT ![t] = IF path = <<>> THEN "return" ELSE "handler"]
  /\ UNCHANGED <<s_pendingRequests, info, threadVars, clientVars, refused,
                 alive, nextSerial>>

(* Mutant: the oldest request of the list is answered and dequeued.        *)
completesOldest(t) ==
  LET oldest == s_pendingRequests[Len(s_pendingRequests)]
  IN  /\ pc[t] = "handler" /\ s_pendingRequests # <<>>
      /\ todo' = [todo EXCEPT ![t] = <<>>]
      /\ pc' = [pc EXCEPT ![t] = "return"]
      /\ responseFunction(t, info[oldest], Head(todo[t]))
      /\ s_pendingRequests' = Unlink(s_pendingRequests, Len(s_pendingRequests))
      /\ info' = [info EXCEPT ![oldest] = Free]
      /\ UNCHANGED <<threadVars, refused, alive, nextSerial>>

(* The list up to pRI is walked, and pRI taken off it.                     *)
checkAndDequeueRequestInfoIfAck(ri) ==
  \E k \in 1..Len(s_pendingRequests) :
    /\ s_pendingRequests[k] = ri
    /\ \A j \in 1..(k - 1) : s_pendingRequests[j] # ri
    /\ s_pendingRequests' = Unlink(s_pendingRequests, k)

(* The handler's next completion.  A token that is not on the list is      *)
(* "invalid RIL_Token", and nothing happens.                               *)
RIL_onRequestComplete(t) ==
  /\ pc[t] = "handler"
  /\ todo' = [todo EXCEPT ![t] = Tail(todo[t])]
  /\ pc' = [pc EXCEPT ![t] = IF Len(todo[t]) = 1 THEN "return" ELSE "handler"]
  /\ IF Pending(pRI[t])
     THEN /\ responseFunction(t, info[pRI[t]], Head(todo[t]))
          /\ checkAndDequeueRequestInfoIfAck(pRI[t])
          /\ info' = [info EXCEPT ![pRI[t]] = Free]
     ELSE UNCHANGED <<clientVars, s_pendingRequests, info>>
  /\ UNCHANGED <<threadVars, refused, alive, nextSerial>>

(* The method returns, and the thread can take another call.               *)
methodReturns(t) ==
  /\ pc[t] = "return"
  /\ pc' = [pc EXCEPT ![t] = "idle"]
  /\ call' = [call EXCEPT ![t] = NoCall]
  /\ serial' = [serial EXCEPT ![t] = 0]
  /\ pRI' = [pRI EXCEPT ![t] = NoAddr]
  /\ answers' = [answers EXCEPT ![t] = <<>>]
  /\ unheard' = [unheard EXCEPT ![t] = FALSE]
  /\ UNCHANGED <<s_pendingRequests, info, todo, stray, refused, mRadioResponse,
                 alive, nextSerial>>

(* A client registers its callbacks, on a thread of the same pool.         *)
setResponseFunctions(t, version) ==
  /\ pc[t] = "idle"
  /\ mRadioResponse' = version
  /\ alive' = TRUE
  /\ UNCHANGED <<s_pendingRequests, info, pc, threadVars, todo, answers,
                 unheard, stray, refused, nextSerial>>

(* The client's process ends, at any time.                                 *)
clientDies ==
  /\ alive
  /\ alive' = FALSE
  /\ UNCHANGED <<s_pendingRequests, info, pc, threadVars, todo, clientVars,
                 refused, nextSerial>>

(* An indication of another thread finds it dead and resets the callbacks. *)
checkReturnStatus ==
  /\ mRadioResponse # "NULL" /\ ~alive
  /\ mRadioResponse' = "NULL"
  /\ UNCHANGED <<s_pendingRequests, info, pc, threadVars, todo, answers,
                 unheard, stray, refused, alive, nextSerial>>

Step(t) ==
  \/ \E row \in RadioMethods, a \in Addrs : addRequestToList(t, row, a)
  \/ \E row \in RadioMethods : allocationFails(t, row)
  \/ sendErrorResponse(t)
  \/ CALL_ONREQUEST(t)
  \/ RIL_onRequestComplete(t)
  \/ methodReturns(t)
  \/ \E version \in Versions : setResponseFunctions(t, version)

Next ==
  \/ \E t \in Threads : Step(t)
  \/ clientDies
  \/ checkReturnStatus

Spec == Init /\ [][Next]_vars
-----------------------------------------------------------------------------
(* A call gets one answer by the time its method returns, however often    *)
(* the handler completed it and whether it was refused or served, unless   *)
(* there was no memory for it or no client to hear the answer              *)
(* (RIL_onRequestComplete and sendErrorResponse, with requestSMSAcknowledge*)
(* and requestSignalStrength completing twice).                            *)
AnsweredExactlyOnce ==
  \A t \in Threads :
    /\ Len(answers[t]) <= 1
    /\ pc[t] = "return" => Len(answers[t]) = IF unheard[t] THEN 0 ELSE 1

(* An answer comes from the handler of the very call whose serial it has:  *)
(* a token completed a second time, after its address was freed, never     *)
(* answers another call that was given the address.                        *)
AnswerIsOwn ==
  /\ ~stray
  /\ \A t \in Threads : \A i \in 1..Len(answers[t]) : answers[t][i].by = serial[t]

(* s_pendingRequests holds the request in service, until its completion,   *)
(* and the ones refused before the vendor RIL saw them, each once; nothing *)
(* else is allocated, and nothing on the list is freed.                    *)
PendingServedOrRefused ==
  /\ Distinct(s_pendingRequests)
  /\ \A a \in Addrs : Pending(a) <=> info[a] # Free
  /\ \A a \in Addrs :
       Pending(a) => \/ a \in refused
                     \/ \E t \in Threads : pRI[t] = a /\ pc[t] # "return"

(* Success of the vendor RIL reaches the client as success: what a handler *)
(* completes with is what the response function of its request reads, in   *)
(* all requests but the two whose handlers leave out the int that          *)
(* writeSmsToSimResponse and setAllowedCarriersResponse insist on.         *)
SuccessIsReadable ==
  \A t \in Threads : \A i \in 1..Len(answers[t]) :
    /\ answers[t][i].vendor = "SUCCESS"
    /\ request(t) \notin {"WRITE_SMS_TO_SIM", "SET_CARRIER_RESTRICTIONS"}
    => answers[t][i].error = "SUCCESS"

(* ... and the int is what ril.h promises of these two as well: "response" *)
(* is the record index of the stored message, and the number of allowed    *)
(* carriers.                                                               *)
SuccessStaysSuccess ==
  \A t \in Threads : \A i \in 1..Len(answers[t]) :
    answers[t][i].vendor = "SUCCESS" => answers[t][i].error = "SUCCESS"
==============================================================================
