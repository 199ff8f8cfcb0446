----------------------------- MODULE AtChannel -----------------------------
(***************************************************************************)
(* The AT command channel of the reference RIL (radio/ril/atchannel.c):    *)
(* writer threads that send a command and wait for its response, the one   *)
(* reader thread that sorts the modem's lines into responses and           *)
(* unsolicited lines, and the main loop of reference-ril.c that opens the  *)
(* channel again after it closed.  The modem is the environment.           *)
(*                                                                         *)
(* A line carries the serial number of the command it answers (0 when it   *)
(* is unsolicited) and its position in the answer.  The code never sees    *)
(* either; they are there to state which line belongs where.               *)
(***************************************************************************)
EXTENDS Integers, Sequences

CONSTANTS
  Writers,         \* threads that call at_send_command* (binder threads, event loop)
  Ops,             \* entry points the writers use, a subset of EntryPoints
  Emulator,        \* what isInEmulator() may answer, a subset of {0, 1}
  UnsolPrefixes,   \* what the modem's unsolicited lines begin with: something that
                   \* no answer has, the prefix of one, or a final response's text
  HANDSHAKE_RETRY_COUNT,
  MaxCalls,        \* bound: calls of the entry points
  MaxInter,        \* bound: intermediate lines of one multi-line answer
  MaxUnsol,        \* bound: unsolicited lines
  MaxTimeouts,     \* bound: expired handshake waits
  MaxHangups,      \* bound: hang-ups of the modem
  MaxOpens,        \* bound: connections, the first one included
  NULL             \* the null pointer, and the owner of a free mutex

(* Besides the functions of atchannel.h: the use of the single-line one    *)
(* for +CREG and +CGREG, whose lines the modem also sends unasked.         *)
EntryPoints ==
  {"plain", "singleline", "registration", "numeric", "multiline", "sms", "handshake"}

(* ATCommandType and response prefix that each at_send_command* passes on. *)
TypeOf(o) ==
  CASE o \in {"plain", "handshake"}                   -> "NO_RESULT"
    [] o = "numeric"                                  -> "NUMERIC"
    [] o \in {"singleline", "registration", "sms"}    -> "SINGLELINE"
    [] o = "multiline"                                -> "MULTILINE"

PrefixOf(o) ==
  CASE o \in {"singleline", "sms", "multiline"} -> "resp"
    [] o = "registration"                       -> "CREG"
    [] OTHER                                    -> NULL

Types == {"NO_RESULT", "NUMERIC", "SINGLELINE", "MULTILINE"}

Line == [kind   : {"ok", "error", "text", "prompt", "sms"},
         prefix : {"none", "digit", "resp", "unsol", "CREG", "NO_CARRIER"},
         id     : Nat,
         n      : Nat]

Command == [id : Nat, op : EntryPoints]

Response == [id : Nat, final : Line \cup {NULL}, inter : Seq(Line)]

ASSUME AtAssumption ==
  /\ Ops \subseteq EntryPoints
  /\ Emulator \subseteq {0, 1} /\ Emulator # {}
  /\ UnsolPrefixes \subseteq {"unsol", "CREG", "NO_CARRIER"}
  /\ HANDSHAKE_RETRY_COUNT \in Nat \ {0}
  /\ MaxCalls \in Nat /\ MaxInter \in Nat /\ MaxUnsol \in Nat
  /\ MaxTimeouts \in Nat /\ MaxHangups \in Nat /\ MaxOpens \in Nat \ {0}
  /\ NULL \notin Writers /\ NULL \notin Nat /\ NULL \notin EntryPoints
  /\ NULL \notin Line /\ NULL \notin Response

NoResult == [err |-> NULL]

VARIABLES
  (* atchannel.c *)
  s_fd,              \* -1, or the number of the connection
  s_readerClosed,
  s_type, s_responsePrefix,
  s_smsPDU,          \* NULL, or the command whose PDU waits for the prompt
  sp_response,       \* NULL, or the response being collected
  isInEmulator,    \* isInEmulator(): whether s_writeMutex is taken at all
  commandMutex, writeMutex,
  signaled,          \* writers that a pthread_cond_signal has picked
  (* threads *)
  pc, op, cid, tries, result,
  rpc, rline,        \* reader thread and the line it is holding
  mpc, s_closed,     \* main loop of reference-ril.c
  (* modem and wire *)
  link, toModem, emitted, prompt, lines,
  (* history and bounds *)
  strays,            \* commands one of whose lines went to the unsolicited handler
  preempted,         \* an unsolicited line was taken for a command's final line
  serial,            \* commands written so far
  calls, unsols, timeouts, opens

chanVars   == <<s_fd, s_readerClosed, s_type, s_responsePrefix, s_smsPDU, sp_response>>
lockVars   == <<isInEmulator, commandMutex, writeMutex, signaled>>
writerVars == <<pc, op, cid, tries, result>>
readerVars == <<rpc, rline>>
mainVars   == <<mpc, s_closed, opens>>
modemVars  == <<link, toModem, emitted, prompt, lines, unsols>>

vars == <<chanVars, lockVars, writerVars, readerVars, mainVars, modemVars,
          strays, serial, calls, timeouts, preempted>>

Init ==
  /\ s_fd = 1 /\ s_readerClosed = 0
  /\ s_type = "NO_RESULT" /\ s_responsePrefix = NULL
  /\ s_smsPDU = NULL /\ sp_response = NULL
  /\ isInEmulator \in Emulator
  /\ commandMutex = NULL /\ writeMutex = NULL /\ signaled = {}
  /\ pc = [w \in Writers |-> "idle"]
  /\ op = [w \in Writers |-> NULL]
  /\ cid = [w \in Writers |-> 0]
  /\ tries = [w \in Writers |-> 0]
  /\ result = [w \in Writers |-> NoResult]
  /\ rpc = "read" /\ rline = NULL
  /\ mpc = "waitForClose" /\ s_closed = 0
  /\ link = "up" /\ toModem = <<>> /\ emitted = 0 /\ prompt = "none" /\ lines = <<>>
  /\ strays = {} /\ serial = 0 /\ calls = 0 /\ unsols = 0 /\ timeouts = 0 /\ opens = 1
  /\ preempted = 0

-----------------------------------------------------------------------------
(* Shared pieces.                                                          *)

(* Faulty: the signal is forgotten.                                        *)
SignalForgotten == UNCHANGED signaled

(* pthread_cond_signal(&s_commandcond): at most one waiting thread becomes *)
(* runnable; without one the signal is lost.                               *)
SignalCommandCond ==
  LET W == {w \in Writers : pc[w] = "waiting"} \ signaled
  IN  IF W = {} THEN UNCHANGED signaled
      ELSE \E w \in W : signaled' = signaled \cup {w}

(* sp_response = NULL, s_responsePrefix = NULL, s_smsPDU = NULL.           *)
clearPendingCommand ==
  /\ sp_response' = NULL
  /\ s_responsePrefix' = NULL
  /\ s_smsPDU' = NULL

(* The intermediate lines are collected by pushing at the head ...         *)
addIntermediate(l) == sp_response' = [sp_response EXCEPT !.inter = <<l>> \o @]

(* Faulty: the lines stay in reverse order.                                *)
NotReversed(s) == s

(* ... and flipped back before the response is handed out.                 *)
reverseIntermediates(s) == [i \in 1..Len(s) |-> s[Len(s) + 1 - i]]

(* The three wrappers that require an intermediate line of a successful    *)
(* command.                                                                *)
NeedsIntermediate(o) == o \in {"singleline", "registration", "numeric", "sms"}

WrapperErr(o, resp, err) ==
  IF err = "OK" /\ NeedsIntermediate(o) /\ resp.final.kind = "ok" /\ resp.inter = <<>>
  THEN "INVALID_RESPONSE" ELSE err

(* at_send_command_full_nolock and at_send_command_full return to their    *)
(* caller: both mutexes are released.                                      *)
ReturnFrom(w, r) ==
  /\ pc' = [pc EXCEPT ![w] = "idle"]
  /\ result' = [result EXCEPT ![w] = r]
  /\ commandMutex' = NULL
  /\ writeMutex' = IF isInEmulator = 1 THEN NULL ELSE writeMutex
  /\ UNCHANGED tries

(* The loop of at_handshake: any error sends ATE0Q0V1 again, both mutexes  *)
(* still held, until the attempts are used up.                             *)
FailWith(w, err) ==
  IF op[w] = "handshake" /\ tries[w] + 1 < HANDSHAKE_RETRY_COUNT
  THEN /\ pc' = [pc EXCEPT ![w] = "retry"]
       /\ tries' = [tries EXCEPT ![w] = @ + 1]
       /\ commandMutex' = w
       /\ UNCHANGED <<result, writeMutex>>
  ELSE ReturnFrom(w, [err |-> err, id |-> cid[w], op |-> op[w]])

-----------------------------------------------------------------------------
(* Writer threads: at_send_command_full and at_handshake.  None of them is *)
(* the reader thread, which both refuse (AT_ERROR_INVALID_THREAD): what    *)
(* onUnsolicited has to ask the modem it leaves to the event loop.         *)

Call(w, o) ==
  /\ pc[w] = "idle" /\ calls < MaxCalls
  /\ calls' = calls + 1
  /\ pc' = [pc EXCEPT ![w] = IF isInEmulator = 1 THEN "lockWrite" ELSE "lockCommand"]
  /\ op' = [op EXCEPT ![w] = o]
  /\ tries' = [tries EXCEPT ![w] = 0]
  /\ result' = [result EXCEPT ![w] = NoResult]
  /\ UNCHANGED <<chanVars, lockVars, cid, readerVars, mainVars, modemVars, strays, serial,
                 timeouts, preempted>>

(* Faulty: s_writeMutex is not waited for.                                 *)
WriteMutexIgnored == TRUE

(* pthread_mutex_lock(&s_writeMutex) returns once nobody owns it.          *)
WriteMutexFree == writeMutex = NULL

LockWrite(w) ==
  /\ pc[w] = "lockWrite" /\ WriteMutexFree
  /\ writeMutex' = w
  /\ pc' = [pc EXCEPT ![w] = "lockCommand"]
  /\ UNCHANGED <<isInEmulator, chanVars, commandMutex, signaled, op, cid, tries, result,
                 readerVars, mainVars, modemVars, strays, serial, calls, timeouts, preempted>>

(* A thread about to run at_send_command_full_nolock holds s_commandmutex: *)
(* it takes it now, or kept it from the previous attempt of at_handshake.  *)
EntersNolock(w) ==
  \/ pc[w] = "lockCommand" /\ commandMutex = NULL
  \/ pc[w] = "retry" /\ commandMutex = w

SendWhilePending(w) ==
  /\ EntersNolock(w) /\ sp_response # NULL
  /\ clearPendingCommand
  /\ FailWith(w, "COMMAND_PENDING")
  /\ UNCHANGED <<isInEmulator, s_fd, s_readerClosed, s_type, signaled, op, cid, readerVars,
                 mainVars, modemVars, strays, serial, calls, timeouts, preempted>>

(* writeline fails at once on a closed channel; on one whose other end is  *)
(* gone the write may fail (AT_ERROR_GENERIC) or disappear unanswered.     *)
SendFails(w) ==
  /\ EntersNolock(w) /\ sp_response = NULL
  /\ \/ (s_fd < 0 \/ s_readerClosed > 0) /\ FailWith(w, "CHANNEL_CLOSED")
     \/ s_fd >= 0 /\ s_readerClosed = 0 /\ link = "down" /\ FailWith(w, "GENERIC")
  /\ clearPendingCommand
  /\ UNCHANGED <<isInEmulator, s_fd, s_readerClosed, s_type, signaled, op, cid, readerVars,
                 mainVars, modemVars, strays, serial, calls, timeouts, preempted>>

(* The command is on the wire and the thread blocks in pthread_cond_wait,  *)
(* which releases s_commandmutex and leaves s_writeMutex held.             *)
SendAndWait(w) ==
  /\ EntersNolock(w) /\ sp_response = NULL
  /\ s_fd >= 0 /\ s_readerClosed = 0
  /\ serial' = serial + 1
  /\ cid' = [cid EXCEPT ![w] = serial + 1]
  /\ toModem' = IF link = "up" THEN Append(toModem, [id |-> serial + 1, op |-> op[w]]) ELSE toModem
  /\ s_type' = TypeOf(op[w])
  /\ s_responsePrefix' = PrefixOf(op[w])
  /\ s_smsPDU' = IF op[w] = "sms" THEN serial + 1 ELSE NULL
  /\ sp_response' = [id |-> serial + 1, final |-> NULL, inter |-> <<>>]
  /\ commandMutex' = NULL
  /\ pc' = [pc EXCEPT ![w] = "waiting"]
  /\ UNCHANGED <<isInEmulator, s_fd, s_readerClosed, writeMutex, signaled, op, tries, result,
                 readerVars, mainVars, link, emitted, prompt, lines, unsols, strays, calls,
                 timeouts, preempted>>

(* A signalled thread gets s_commandmutex back and tests its loop          *)
(* condition, which dereferences sp_response.  On a null pointer the       *)
(* process dies: here the thread keeps the mutex for ever, which stops the *)
(* channel.                                                                *)
Wakes(w) == pc[w] = "waiting" /\ w \in signaled /\ commandMutex = NULL

ResumeOnNull(w) ==
  /\ Wakes(w) /\ sp_response = NULL
  /\ pc' = [pc EXCEPT ![w] = "crashed"]
  /\ commandMutex' = w
  /\ UNCHANGED <<isInEmulator, chanVars, writeMutex, signaled, op, cid, tries, result, readerVars,
                 mainVars, modemVars, strays, serial, calls, timeouts, preempted>>

ResumeAndWait(w) ==
  /\ Wakes(w) /\ sp_response # NULL
  /\ sp_response.final = NULL /\ s_readerClosed = 0
  /\ signaled' = signaled \ {w}
  /\ UNCHANGED <<isInEmulator, chanVars, commandMutex, writeMutex, writerVars, readerVars,
                 mainVars, modemVars, strays, serial, calls, timeouts, preempted>>

(* The response is complete or the channel closed: it is handed to the     *)
(* caller, and a closed channel is an error whatever was collected.        *)
ResumeAndReturn(w) ==
  /\ Wakes(w) /\ sp_response # NULL
  /\ sp_response.final # NULL \/ s_readerClosed > 0
  /\ signaled' = signaled \ {w}
  /\ clearPendingCommand
  /\ IF s_readerClosed > 0
     THEN FailWith(w, "CHANNEL_CLOSED")
     ELSE IF op[w] = "handshake"
     THEN /\ pc' = [pc EXCEPT ![w] = "sleepMsec"]
          /\ commandMutex' = w
          /\ UNCHANGED <<tries, result, writeMutex>>
     ELSE ReturnFrom(w, [err   |-> WrapperErr(op[w], sp_response, "OK"),
                         id    |-> cid[w], op |-> op[w],
                         final |-> sp_response.final,
                         inter |-> reverseIntermediates(sp_response.inter)])
  /\ UNCHANGED <<isInEmulator, s_fd, s_readerClosed, s_type, op, cid, readerVars, mainVars,
                 modemVars, strays, serial, calls, timeouts, preempted>>

(* pthread_cond_timedwait returned ETIMEDOUT: whatever has arrived since,  *)
(* the attempt failed.  Only at_handshake passes a timeout.                *)
WaitTimesOut(w) ==
  /\ pc[w] = "waiting" /\ op[w] = "handshake" /\ commandMutex = NULL
  /\ timeouts < MaxTimeouts
  /\ timeouts' = timeouts + 1
  /\ signaled' = signaled \ {w}
  /\ clearPendingCommand
  /\ FailWith(w, "TIMEOUT")
  /\ UNCHANGED <<isInEmulator, s_fd, s_readerClosed, s_type, op, cid, readerVars, mainVars,
                 modemVars, strays, serial, calls, preempted>>

(* POSIX lets pthread_cond_wait return without a signal.                   *)
SpuriousWakeup(w) ==
  /\ pc[w] = "waiting" /\ w \notin signaled
  /\ signaled' = signaled \cup {w}
  /\ UNCHANGED <<isInEmulator, chanVars, commandMutex, writeMutex, writerVars, readerVars,
                 mainVars, modemVars, strays, serial, calls, timeouts, preempted>>

(* at_handshake sleeps with both mutexes held, then returns.               *)
HandshakeDone(w) ==
  /\ pc[w] = "sleepMsec"
  /\ ReturnFrom(w, [err |-> "OK", id |-> cid[w], op |-> op[w]])
  /\ UNCHANGED <<isInEmulator, chanVars, signaled, op, cid, readerVars, mainVars, modemVars,
                 strays, serial, calls, timeouts, preempted>>

-----------------------------------------------------------------------------
(* Reader thread: readerLoop, processLine, onReaderClosed, at_close.       *)

(* A line that announces an SMS makes the loop read a second line, its     *)
(* PDU, before it does anything; every other line goes to processLine.     *)
ReadLine ==
  /\ rpc = "read" /\ lines # <<>>
  /\ rline' = Head(lines)
  /\ lines' = Tail(lines)
  /\ rpc' = IF Head(lines).kind = "sms" THEN "readPdu" ELSE "processLine"
  /\ UNCHANGED <<chanVars, lockVars, writerVars, mainVars, link, toModem, emitted, prompt,
                 unsols, strays, serial, calls, timeouts, preempted>>

(* The response of l's command has a line that came unasked in its place.  *)
Replaced(l) ==
  /\ sp_response # NULL /\ sp_response.id = l.id
  /\ \E i \in 1..Len(sp_response.inter) : sp_response.inter[i].id = 0

(* Called on the reader thread for what no command is waiting for.         *)
handleUnsolicited(l) ==
  strays' = IF l.id = 0 \/ Replaced(l) THEN strays ELSE strays \cup {l.id}

ReadPdu ==
  /\ rpc = "readPdu" /\ lines # <<>>
  /\ handleUnsolicited(Head(lines))
  /\ lines' = Tail(lines)
  /\ rline' = NULL
  /\ rpc' = "read"
  /\ UNCHANGED <<chanVars, lockVars, writerVars, mainVars, link, toModem, emitted, prompt,
                 unsols, serial, calls, timeouts, preempted>>

isFinalResponse(l) == l.kind \in {"ok", "error"}

(* Faulty: only the first line of a multi-line answer is taken.            *)
FirstLineOnly(l) ==
  CASE s_type = "NO_RESULT" -> FALSE
    [] s_type = "NUMERIC"   -> sp_response.inter = <<>> /\ l.prefix = "digit"
    [] OTHER                -> sp_response.inter = <<>> /\ l.prefix = s_responsePrefix

(* The switch over s_type: whether a line that is neither final nor the    *)
(* SMS prompt belongs to the response being collected.                     *)
IsIntermediate(l) ==
  CASE s_type = "NO_RESULT"  -> FALSE
    [] s_type = "NUMERIC"    -> sp_response.inter = <<>> /\ l.prefix = "digit"
    [] s_type = "SINGLELINE" -> sp_response.inter = <<>> /\ l.prefix = s_responsePrefix
    [] s_type = "MULTILINE"  -> l.prefix = s_responsePrefix

ProcessUnsolicited ==
  /\ sp_response = NULL
  /\ handleUnsolicited(rline)
  /\ UNCHANGED <<chanVars, signaled, prompt, preempted>>

(* Faulty: the reader gives the response up with its final line.           *)
FinalResponseDrops ==
  /\ sp_response # NULL /\ isFinalResponse(rline)
  /\ clearPendingCommand
  /\ SignalCommandCond
  /\ UNCHANGED <<s_fd, s_readerClosed, s_type, strays, prompt, preempted>>

(* The final line completes the response and wakes its waiter.  "WARNING:  *)
(* NO CARRIER and others are sometimes unsolicited".                       *)
handleFinalResponse ==
  /\ sp_response # NULL /\ isFinalResponse(rline)
  /\ sp_response' = [sp_response EXCEPT !.final = rline]
  /\ preempted' = IF rline.id = 0 THEN 1 ELSE preempted
  /\ SignalCommandCond
  /\ UNCHANGED <<s_fd, s_readerClosed, s_type, s_responsePrefix, s_smsPDU, strays, prompt>>

(* writeCtrlZ answers the "> " prompt with the PDU, once.                  *)
AnswerPrompt ==
  /\ sp_response # NULL /\ ~isFinalResponse(rline)
  /\ s_smsPDU # NULL /\ rline.kind = "prompt"
  /\ prompt' = IF link = "up" /\ s_fd >= 0 /\ prompt = "sent" THEN "answered" ELSE prompt
  /\ s_smsPDU' = NULL
  /\ UNCHANGED <<s_fd, s_readerClosed, s_type, s_responsePrefix, sp_response, signaled, strays,
                 preempted>>

ProcessByType ==
  /\ sp_response # NULL /\ ~isFinalResponse(rline)
  /\ ~(s_smsPDU # NULL /\ rline.kind = "prompt")
  /\ IF IsIntermediate(rline)
     THEN addIntermediate(rline) /\ UNCHANGED strays
     ELSE handleUnsolicited(rline) /\ UNCHANGED sp_response
  /\ UNCHANGED <<s_fd, s_readerClosed, s_type, s_responsePrefix, s_smsPDU, signaled, prompt,
                 preempted>>

(* One pass through s_commandmutex; the unsolicited handler runs inside.   *)
ProcessLine ==
  /\ rpc = "processLine" /\ commandMutex = NULL
  /\ \/ ProcessUnsolicited
     \/ handleFinalResponse
     \/ AnswerPrompt
     \/ ProcessByType
  /\ rline' = NULL
  /\ rpc' = "read"
  /\ UNCHANGED <<isInEmulator, commandMutex, writeMutex, writerVars, mainVars, link, toModem,
                 emitted, lines, unsols, serial, calls, timeouts>>

(* readline returned NULL: the loop ends, an SMS announcement that was     *)
(* waiting for its PDU is dropped.                                         *)
ReadEof ==
  /\ rpc \in {"read", "readPdu"} /\ lines = <<>> /\ link = "down"
  /\ rline' = NULL
  /\ rpc' = "onReaderClosed"
  /\ UNCHANGED <<chanVars, lockVars, writerVars, mainVars, modemVars, strays, serial, calls,
                 timeouts, preempted>>

(* The first half of onReaderClosed, and the second half of at_close:      *)
(* s_readerClosed is set and the waiting command told, under the mutex.    *)
MarkClosed(from, to) ==
  /\ rpc = from /\ commandMutex = NULL
  /\ s_readerClosed' = 1
  /\ SignalCommandCond
  /\ rpc' = to
  /\ UNCHANGED <<isInEmulator, s_fd, s_type, s_responsePrefix, s_smsPDU, sp_response,
                 commandMutex, writeMutex, writerVars, rline, mainVars, modemVars, strays,
                 serial, calls, timeouts, preempted>>

onReaderClosed == MarkClosed("onReaderClosed", "closeFd")

(* onATReaderClosed calls at_close, whose first half takes no lock.        *)
CloseFd ==
  /\ rpc = "closeFd"
  /\ s_fd' = -1
  /\ rpc' = "atClose"
  /\ UNCHANGED <<s_readerClosed, s_type, s_responsePrefix, s_smsPDU, sp_response, lockVars,
                 writerVars, rline, mainVars, modemVars, strays, serial, calls, timeouts,
                 preempted>>

at_close == MarkClosed("atClose", "setClosed")

(* onATReaderClosed goes on to s_closed = 1; the main loop waits for it.   *)
SetClosed ==
  /\ rpc = "setClosed"
  /\ s_closed' = 1
  /\ rpc' = "exited"
  /\ UNCHANGED <<chanVars, lockVars, writerVars, rline, mpc, opens, modemVars, strays, serial,
                 calls, timeouts, preempted>>

-----------------------------------------------------------------------------
(* Main loop: at_open on a new connection, without any mutex.              *)

OpenFd ==
  /\ mpc = "waitForClose" /\ s_closed = 1 /\ opens < MaxOpens
  /\ s_closed' = 0
  /\ opens' = opens + 1
  /\ s_fd' = opens + 1 /\ s_readerClosed' = 0
  /\ link' = "up"
  /\ mpc' = "resetState"
  /\ UNCHANGED <<s_type, s_responsePrefix, s_smsPDU, sp_response, lockVars, writerVars,
                 readerVars, toModem, emitted, prompt, lines, unsols, strays, serial, calls,
                 timeouts, preempted>>

ResetState ==
  /\ mpc = "resetState"
  /\ clearPendingCommand
  /\ mpc' = "createReader"
  /\ UNCHANGED <<s_fd, s_readerClosed, s_type, lockVars, writerVars, readerVars, s_closed,
                 opens, modemVars, strays, serial, calls, timeouts, preempted>>

CreateReader ==
  /\ mpc = "createReader"
  /\ rpc' = "read"
  /\ mpc' = "waitForClose"
  /\ UNCHANGED <<chanVars, lockVars, writerVars, rline, s_closed, opens, modemVars, strays,
                 serial, calls, timeouts, preempted>>

-----------------------------------------------------------------------------
(* The modem, which is not in this repository: it answers the commands in  *)
(* order, may speak unasked between two lines of an answer, and may hang   *)
(* up.                                                                     *)

Emit(ls) == lines' = lines \o ls

modemOther == <<chanVars, lockVars, writerVars, readerVars, mainVars, strays,
                serial, calls, timeouts, preempted>>

Current == Head(toModem)

ModemIntermediate ==
  /\ link = "up" /\ toModem # <<>>
  /\ Current.op \in {"singleline", "registration", "numeric", "multiline", "sms"}
  /\ emitted < IF Current.op = "multiline" THEN MaxInter ELSE 1
  /\ Current.op = "sms" => prompt = "answered"
  /\ Emit(<<[kind   |-> "text",
             prefix |-> IF Current.op = "numeric" THEN "digit" ELSE PrefixOf(Current.op),
             id     |-> Current.id, n |-> emitted + 1]>>)
  /\ emitted' = emitted + 1
  /\ UNCHANGED <<link, toModem, prompt, unsols, modemOther>>

ModemPrompt ==
  /\ link = "up" /\ toModem # <<>>
  /\ Current.op = "sms" /\ prompt = "none"
  /\ Emit(<<[kind |-> "prompt", prefix |-> "none", id |-> Current.id, n |-> 0]>>)
  /\ prompt' = "sent"
  /\ UNCHANGED <<link, toModem, emitted, unsols, modemOther>>

(* An error may end a command at any point; a success ends an SMS only     *)
(* after its PDU, and need not be preceded by the line the caller expects. *)
ModemFinal(k) ==
  /\ link = "up" /\ toModem # <<>>
  /\ k = "ok" /\ Current.op = "sms" => prompt = "answered"
  /\ Current.op = "sms" => prompt # "sent"
  /\ Emit(<<[kind |-> k, prefix |-> "none", id |-> Current.id, n |-> emitted]>>)
  /\ toModem' = Tail(toModem)
  /\ emitted' = 0 /\ prompt' = "none"
  /\ UNCHANGED <<link, unsols, modemOther>>

(* A remote hang-up is reported by NO CARRIER, the end of a failing        *)
(* command; a change of the registration by what AT+CREG? is answered.     *)
ModemUnsolicited(p) ==
  /\ link = "up" /\ unsols < MaxUnsol
  /\ Emit(<<[kind |-> IF p = "NO_CARRIER" THEN "error" ELSE "text", prefix |-> p,
             id   |-> 0, n |-> 0]>>)
  /\ unsols' = unsols + 1
  /\ UNCHANGED <<link, toModem, emitted, prompt, modemOther>>

(* +CMT, +CDS or +CBM, followed by the PDU on a line of its own.           *)
ModemSms ==
  /\ link = "up" /\ unsols < MaxUnsol
  /\ Emit(<<[kind |-> "sms",  prefix |-> "unsol", id |-> 0, n |-> 0],
            [kind |-> "text", prefix |-> "none",  id |-> 0, n |-> 0]>>)
  /\ unsols' = unsols + 1
  /\ UNCHANGED <<link, toModem, emitted, prompt, modemOther>>

ModemHangup ==
  /\ link = "up" /\ opens <= MaxHangups
  /\ link' = "down"
  /\ toModem' = <<>> /\ emitted' = 0 /\ prompt' = "none"
  /\ UNCHANGED <<lines, unsols, modemOther>>

-----------------------------------------------------------------------------
WriterStep(w) ==
  \/ LockWrite(w)
  \/ SendWhilePending(w) \/ SendFails(w) \/ SendAndWait(w)
  \/ ResumeOnNull(w) \/ ResumeAndWait(w) \/ ResumeAndReturn(w)
  \/ HandshakeDone(w)

ReaderStep ==
  \/ ReadLine \/ ReadPdu \/ ProcessLine \/ ReadEof
  \/ onReaderClosed \/ CloseFd \/ at_close \/ SetClosed

MainStep == OpenFd \/ ResetState \/ CreateReader

ModemAnswer == ModemIntermediate \/ ModemPrompt \/ \E k \in {"ok", "error"} : ModemFinal(k)

ModemUnasked == (\E p \in UnsolPrefixes : ModemUnsolicited(p)) \/ ModemSms \/ ModemHangup

(* All calls that the bound allows have returned, or the process died.     *)
Finished ==
  /\ \/ calls = MaxCalls /\ \A w \in Writers : pc[w] = "idle"
     \/ \E w \in Writers : pc[w] = "crashed"
  /\ UNCHANGED vars

Next ==
  \/ \E w \in Writers :
       \/ \E o \in Ops : Call(w, o)
       \/ WriterStep(w)
       \/ WaitTimesOut(w)
       \/ SpuriousWakeup(w)
  \/ ReaderStep
  \/ MainStep
  \/ ModemAnswer
  \/ ModemUnasked
  \/ Finished

Spec == Init /\ [][Next]_vars

(* Threads that can run do run, and a modem that stays connected answers.  *)
(* A modem need not hang up, speak unasked, or be late.                    *)
Fairness ==
  /\ \A w \in Writers : WF_vars(WriterStep(w))
  /\ WF_vars(ReaderStep)
  /\ WF_vars(MainStep)
  /\ WF_vars(ModemAnswer)

FairSpec == Spec /\ Fairness

-----------------------------------------------------------------------------
(* Properties.                                                             *)

Locations == {"idle", "lockWrite", "lockCommand", "waiting", "retry", "sleepMsec", "crashed"}

ReaderLocations == {"read", "readPdu", "processLine", "onReaderClosed", "closeFd", "atClose",
                    "setClosed", "exited"}

(* Every variable ranges over the values its C declaration, or the thread  *)
(* it describes, can have.                                                 *)
TypeOK ==
  /\ s_fd \in Nat \cup {-1} /\ s_readerClosed \in {0, 1}
  /\ s_type \in Types /\ s_responsePrefix \in {NULL, "resp", "CREG"}
  /\ s_smsPDU \in Nat \cup {NULL}
  /\ sp_response \in Response \cup {NULL}
  /\ isInEmulator \in {0, 1}
  /\ commandMutex \in Writers \cup {NULL}
  /\ writeMutex \in Writers \cup {NULL}
  /\ signaled \subseteq Writers
  /\ pc \in [Writers -> Locations]
  /\ op \in [Writers -> EntryPoints \cup {NULL}]
  /\ cid \in [Writers -> Nat] /\ tries \in [Writers -> Nat]
  /\ rpc \in ReaderLocations
  /\ rline \in Line \cup {NULL}
  /\ mpc \in {"waitForClose", "resetState", "createReader"}
  /\ s_closed \in {0, 1} /\ link \in {"up", "down"}
  /\ toModem \in Seq(Command)
  /\ emitted \in Nat /\ prompt \in {"none", "sent", "answered"}
  /\ lines \in Seq(Line)
  /\ strays \subseteq Nat
  /\ serial \in Nat /\ calls \in Nat /\ unsols \in Nat /\ timeouts \in Nat
  /\ opens \in Nat /\ preempted \in {0, 1}

(* at_send_command_full serialises: in the emulator at most one thread is  *)
(* past s_writeMutex, it is the thread that owns it, and the response      *)
(* being collected is that thread's, for the command it wrote last.        *)
OneCommandAtATime ==
  isInEmulator = 1 =>
    /\ \A w \in Writers : pc[w] \in {"lockCommand", "waiting", "retry", "sleepMsec", "crashed"}
                         => writeMutex = w
    /\ sp_response # NULL =>
         \E w \in Writers : pc[w] = "waiting" /\ cid[w] = sp_response.id

(* The condition that s_commandmutex and s_commandcond maintain: a thread  *)
(* blocked in at_send_command_full_nolock finds its own response, never a  *)
(* null pointer or another command's, whenever it wakes up.                *)
WaiterOwnsResponse ==
  \A w \in Writers : pc[w] = "waiting" => sp_response # NULL /\ sp_response.id = cid[w]

(* In the emulator the channel keeps that up until it is opened again.     *)
WaiterOwnsResponseUntilReopen == isInEmulator = 1 /\ opens = 1 => WaiterOwnsResponse

(* The response a successful call returns is the answer to the command the *)
(* call sent: its final line and all of its intermediate lines, complete   *)
(* and in the order the modem sent them.  Where the command's prefix also  *)
(* comes unasked, "the unsolicited version could have snuck in": then the  *)
(* one line is of that prefix.  at_handshake returns none.                 *)
IsAnswerTo(r) ==
  /\ r.final.id = r.id
  /\ \/ /\ Len(r.inter) = r.final.n
        /\ \A i \in 1..Len(r.inter) : r.inter[i].id = r.id /\ r.inter[i].n = i
     \/ /\ PrefixOf(r.op) \in UnsolPrefixes
        /\ Len(r.inter) = 1 /\ r.inter[1].id = 0 /\ r.inter[1].prefix = PrefixOf(r.op)

AnswersItsCommand ==
  \A w \in Writers :
    LET r == result[w]
    IN  r # NoResult /\ r.err = "OK" /\ r.op # "handshake" => IsAnswerTo(r)

(* Nothing has put the answers out of step: no handshake was given up on   *)
(* and no command ended by an unasked NO CARRIER, after both of which an   *)
(* answer is on its way that no command waits for.                         *)
InStep == isInEmulator = 1 /\ timeouts = 0 /\ preempted = 0

(* So it is in the emulator until the answers are out of step; a second    *)
(* connection does not disturb it.                                         *)
AnswersItsCommandInStep == InStep => AnswersItsCommand

(* On the first connection and in step, a line of an answer goes to the    *)
(* unsolicited handler only when one that came unasked is in its place.    *)
NoStrayLines == InStep /\ opens = 1 => strays = {}

(* A thread waits for a response that at_open, which takes no mutex, has   *)
(* taken from it; it keeps s_writeMutex, so that the others wait as well.  *)
Stranded == ~WaiterOwnsResponse \/ \E w \in Writers : pc[w] = "crashed"

(* The modem waits for the PDU of a command that NO CARRIER has ended: its *)
(* prompt has gone by.                                                     *)
PduForgotten ==
  /\ prompt = "sent"
  /\ \A i \in 1..Len(lines) : lines[i].kind # "prompt"
  /\ rpc = "processLine" => rline.kind # "prompt"

(* Every call returns: the answer or the end of the channel wakes it, also *)
(* when the channel is opened again, unless that takes its response away   *)
(* or the modem was left waiting for a PDU.                                *)
EveryCallReturns ==
  \A w \in Writers : pc[w] # "idle" ~> pc[w] = "idle" \/ Stranded \/ PduForgotten

=============================================================================
