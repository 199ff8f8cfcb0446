--------------------------- MODULE AtChannelProofs ---------------------------
(***************************************************************************)
(* AtChannel for any set of writers and any bounds: the type invariant,    *)
(* that s_writeMutex keeps the channel to one command at a time, that a    *)
(* waiting thread owns the response until the channel is opened again, and *)
(* that a successful call returns its own answer.                          *)
(***************************************************************************)
EXTENDS AtChannel, TLAPS

(* What the type invariant rests on: a thread inside a call knows which    *)
(* entry point it serves, and the reader holds a line when it processes    *)
(* one.                                                                    *)
CallHasOp == \A w \in Writers : pc[w] # "idle" => op[w] # NULL
ProcessHasLine == rpc = "processLine" => rline # NULL

(* The main loop touches the channel only on its way to a second           *)
(* connection.                                                             *)
FirstConnection == opens # 0 /\ (mpc # "waitForClose" => opens # 1)

TypeInv == TypeOK /\ CallHasOp /\ ProcessHasLine
OwnerInv == OneCommandAtATime /\ WaiterOwnsResponseUntilReopen /\ FirstConnection

(* One more line on the wire is still a sequence of lines.                 *)
LEMMA AppendLine ==
  ASSUME lines \in Seq(Line), NEW l \in Line
  PROVE  lines \o <<l>> \in Seq(Line)
  OBVIOUS

(* Adding a line to a response gives a response of the same command.       *)
LEMMA ResponseGrows ==
  ASSUME NEW r \in Response, NEW l \in Line
  PROVE  /\ [r EXCEPT !.final = l] \in Response
         /\ [r EXCEPT !.final = l].id = r.id
         /\ [r EXCEPT !.inter = <<l>> \o @] \in Response
         /\ [r EXCEPT !.inter = <<l>> \o @].id = r.id
<1>1. r.inter \in Seq(Line) /\ <<l>> \in Seq(Line)
  BY DEF Response
<1>2. <<l>> \o r.inter \in Seq(Line)
  BY <1>1
<1> QED
  BY ZenonT(60), <1>2 DEF Response

(* A failing attempt of w leaves w idle, or about to try again with both   *)
(* mutexes held.                                                           *)
LEMMA FailWithTypes ==
  ASSUME TypeInv, NEW w \in Writers, NEW err, FailWith(w, err), op' = op
  PROVE  /\ commandMutex' \in Writers \cup {NULL}
         /\ writeMutex' \in Writers \cup {NULL}
         /\ tries' \in [Writers -> Nat]
         /\ pc' \in [Writers -> Locations]
         /\ CallHasOp'
<1>1. CASE op[w] = "handshake" /\ tries[w] + 1 < HANDSHAKE_RETRY_COUNT
  <2>1. /\ pc' = [pc EXCEPT ![w] = "retry"]
        /\ tries' = [tries EXCEPT ![w] = @ + 1]
        /\ commandMutex' = w /\ writeMutex' = writeMutex
    BY <1>1 DEF FailWith
  <2>2. op[w] # NULL
    BY <1>1, AtAssumption DEF EntryPoints
  <2> QED
    BY <2>1, <2>2 DEF TypeInv, TypeOK, CallHasOp, Locations
<1>2. CASE ~(op[w] = "handshake" /\ tries[w] + 1 < HANDSHAKE_RETRY_COUNT)
  <2>1. /\ pc' = [pc EXCEPT ![w] = "idle"]
        /\ tries' = tries
        /\ commandMutex' = NULL /\ writeMutex' \in {NULL, writeMutex}
    BY <1>2 DEF FailWith, ReturnFrom
  <2> QED
    BY <2>1 DEF TypeInv, TypeOK, CallHasOp, Locations
<1> QED
  BY <1>1, <1>2

(* The type invariant by owner of the variables: a step proves the parts it *)
(* touches, the others stay.                                               *)
ChanTypes ==
  /\ s_fd \in Nat \cup {-1} /\ s_readerClosed \in {0, 1}
  /\ s_type \in Types /\ s_responsePrefix \in {NULL, "resp", "CREG"}
  /\ s_smsPDU \in Nat \cup {NULL} /\ sp_response \in Response \cup {NULL}

LockTypes ==
  /\ isInEmulator \in {0, 1}
  /\ commandMutex \in Writers \cup {NULL} /\ writeMutex \in Writers \cup {NULL}
  /\ signaled \subseteq Writers

WriterTypes ==
  /\ pc \in [Writers -> Locations] /\ op \in [Writers -> EntryPoints \cup {NULL}]
  /\ cid \in [Writers -> Nat] /\ tries \in [Writers -> Nat]
  /\ CallHasOp

ReaderTypes == rpc \in ReaderLocations /\ rline \in Line \cup {NULL} /\ ProcessHasLine

MainTypes ==
  mpc \in {"waitForClose", "resetState", "createReader"} /\ s_closed \in {0, 1} /\ opens \in Nat

ModemTypes ==
  /\ link \in {"up", "down"} /\ toModem \in Seq(Command) /\ emitted \in Nat
  /\ prompt \in {"none", "sent", "answered"} /\ lines \in Seq(Line) /\ unsols \in Nat

CountTypes ==
  /\ strays \subseteq Nat /\ serial \in Nat /\ calls \in Nat /\ timeouts \in Nat
  /\ preempted \in {0, 1}

Parts == /\ ChanTypes /\ LockTypes /\ WriterTypes /\ ReaderTypes
         /\ MainTypes /\ ModemTypes /\ CountTypes

(* Small facts on numbers and sequences.                                   *)
LEMMA NextSerial ==
  \A n \in Nat : /\ n + 1 \in Nat /\ n + 1 > 0 /\ n + 1 # 0 /\ n + 2 \in Nat /\ n + 2 # 0
                 /\ n + 1 < n + 2 /\ (n + 1) + 1 = n + 2
OBVIOUS

LEMMA JustOne ==
  ASSUME NEW S, NEW x \in S
  PROVE  Len(<<x>> \o <<>>) = 1 /\ (<<x>> \o <<>>)[1] = x
OBVIOUS

LEMMA Prepended ==
  ASSUME NEW s \in Seq(Line), NEW e \in Line
  PROVE  /\ Len(<<e>> \o s) = Len(s) + 1
         /\ \A i \in 1..(Len(s) + 1) : (<<e>> \o s)[i] = IF i = 1 THEN e ELSE s[i - 1]
OBVIOUS

LEMMA OneOnly == 1 \in 1..1 /\ 1 + 1 - 1 = 1 /\ Len(<<>>) # 1
OBVIOUS

LEMMA Alone == \A x : Append(<<>>, x) = <<x>>
OBVIOUS

LEMMA Neighbours ==
  ASSUME NEW n \in Nat
  PROVE  /\ \A i \in 1..n : i < n => i + 1 \in 1..n
         /\ \A i \in 1..n : i < n => i < n + 1 /\ i < n + 2
         /\ \A i \in 1..(n + 2) : i \in 1..n \/ i = n + 1 \/ i = n + 2
         /\ 0..(n + 2) = (0..n) \cup {n + 1, n + 2}
         /\ 1..(n + 2) = (1..n) \cup {n + 1, n + 2}
OBVIOUS

LEMMA NoLines == <<>> \in Seq(Line)
OBVIOUS

LEMMA ZeroOrOne == \A x \in {0, 1} : x > 0 => x = 1
OBVIOUS

LEMMA LengthOf == ASSUME NEW S, NEW s \in Seq(S), NEW n \in Nat, DOMAIN s = 1..n PROVE Len(s) = n
OBVIOUS

LEMMA FromZero ==
  ASSUME NEW n \in Nat
  PROVE  /\ \A i \in 1..n : i # 0 /\ i \in Nat
         /\ \A i \in 0..n : i \in Nat /\ (i # 0 => i \in 1..n)
OBVIOUS

LEMMA PartsMakeType == (TypeInv <=> Parts) /\ (TypeInv' <=> Parts')
  BY ZenonT(60) DEF TypeInv, TypeOK, Parts, ChanTypes, LockTypes, WriterTypes, ReaderTypes, MainTypes,
         ModemTypes, CountTypes

LEMMA PartsStay ==
  ASSUME Parts
  PROVE  /\ UNCHANGED chanVars => ChanTypes'
         /\ UNCHANGED lockVars => LockTypes'
         /\ UNCHANGED writerVars => WriterTypes'
         /\ UNCHANGED readerVars => ReaderTypes'
         /\ UNCHANGED mainVars => MainTypes'
         /\ UNCHANGED modemVars => ModemTypes'
         /\ UNCHANGED <<strays, serial, calls, timeouts, preempted>> => CountTypes'
<1>1. UNCHANGED chanVars => ChanTypes'
  BY DEF Parts, ChanTypes, chanVars
<1>2. UNCHANGED lockVars => LockTypes'
  BY DEF Parts, LockTypes, lockVars
<1>3. UNCHANGED writerVars => WriterTypes'
  BY DEF Parts, WriterTypes, CallHasOp, writerVars
<1>4. UNCHANGED readerVars => ReaderTypes'
  BY DEF Parts, ReaderTypes, ProcessHasLine, readerVars
<1>5. UNCHANGED mainVars => MainTypes'
  BY DEF Parts, MainTypes, mainVars
<1>6. UNCHANGED modemVars => ModemTypes'
  BY DEF Parts, ModemTypes, modemVars
<1>7. UNCHANGED <<strays, serial, calls, timeouts, preempted>> => CountTypes'
  BY DEF Parts, CountTypes
<1> QED
  BY <1>1, <1>2, <1>3, <1>4, <1>5, <1>6, <1>7

(* Steps of a writer.                                                      *)
LEMMA WriterKeepsTypes ==
  ASSUME Parts, NEW w \in Writers
  PROVE  /\ (\E o \in Ops : Call(w, o)) => Parts'
         /\ WriterStep(w) => Parts'
         /\ WaitTimesOut(w) => Parts'
         /\ SpuriousWakeup(w) => Parts'
<1>1. ASSUME NEW o \in Ops, Call(w, o) PROVE Parts'
  <2>1. WriterTypes'
    BY SMTT(60), <1>1, AtAssumption DEF Parts, WriterTypes, CallHasOp, Locations, Call,
        EntryPoints
  <2>2. CountTypes'
    BY SMTT(60), <1>1 DEF Parts, CountTypes, Call
  <2> QED
    BY <1>1, <2>1, <2>2, PartsStay DEF Parts, Call
<1>2. ASSUME LockWrite(w) PROVE Parts'
  <2>1. LockTypes'
    BY SMTT(60), <1>2 DEF Parts, LockTypes, LockWrite
  <2>2. WriterTypes'
    BY SMTT(60), <1>2 DEF Parts, WriterTypes, CallHasOp, Locations, LockWrite
  <2> QED
    BY <1>2, <2>1, <2>2, PartsStay DEF Parts, LockWrite
<1>3. ASSUME SendWhilePending(w) PROVE Parts'
  <2>1. FailWith(w, "COMMAND_PENDING") /\ op' = op
    BY <1>3 DEF SendWhilePending
  <2>2. /\ commandMutex' \in Writers \cup {NULL} /\ writeMutex' \in Writers \cup {NULL}
        /\ tries' \in [Writers -> Nat] /\ pc' \in [Writers -> Locations]
        /\ CallHasOp'
    BY <2>1, FailWithTypes, PartsMakeType
  <2>3. ChanTypes'
    BY SMTT(60), <1>3 DEF Parts, ChanTypes, SendWhilePending, clearPendingCommand
  <2>4. LockTypes'
    BY SMTT(60), <1>3, <2>2 DEF Parts, LockTypes, SendWhilePending
  <2>5. WriterTypes'
    <3>1. UNCHANGED <<op, cid>>
      BY ZenonT(60), <1>3 DEF SendWhilePending
    <3> QED
      BY <2>2, <3>1 DEF Parts, WriterTypes
  <2> QED
    BY <1>3, <2>3, <2>4, <2>5, PartsStay DEF Parts, SendWhilePending
<1>4. ASSUME SendFails(w) PROVE Parts'
  <2>1. (\E err : FailWith(w, err)) /\ op' = op
    BY <1>4 DEF SendFails
  <2>2. /\ commandMutex' \in Writers \cup {NULL} /\ writeMutex' \in Writers \cup {NULL}
        /\ tries' \in [Writers -> Nat] /\ pc' \in [Writers -> Locations]
        /\ CallHasOp'
    BY <2>1, FailWithTypes, PartsMakeType
  <2>3. ChanTypes'
    BY SMTT(60), <1>4 DEF Parts, ChanTypes, SendFails, clearPendingCommand
  <2>4. LockTypes'
    BY SMTT(60), <1>4, <2>2 DEF Parts, LockTypes, SendFails
  <2>5. WriterTypes'
    <3>1. UNCHANGED <<op, cid>>
      BY ZenonT(60), <1>4 DEF SendFails
    <3> QED
      BY <2>2, <3>1 DEF Parts, WriterTypes
  <2> QED
    BY <1>4, <2>3, <2>4, <2>5, PartsStay DEF Parts, SendFails
<1>5. ASSUME SendAndWait(w) PROVE Parts'
  <2>1. op[w] \in EntryPoints /\ op[w] # NULL
    BY <1>5 DEF SendAndWait, EntersNolock, Parts, WriterTypes, CallHasOp
  <2>2. sp_response' \in Response
    <3>1. sp_response' = [id |-> serial + 1, final |-> NULL, inter |-> <<>>]
      BY <1>5 DEF SendAndWait
    <3>2. serial + 1 \in Nat
      BY DEF Parts, CountTypes
    <3>3. <<>> \in Seq(Line)
      OBVIOUS
    <3> QED
      BY <3>1, <3>2, <3>3 DEF Response
  <2>3. s_type' \in Types /\ s_responsePrefix' \in {NULL, "resp", "CREG"}
    BY <1>5, <2>1 DEF SendAndWait, TypeOf, PrefixOf, Types, EntryPoints
  <2>4. toModem' \in Seq(Command)
    <3>1. [id |-> serial + 1, op |-> op[w]] \in Command
      BY <2>1 DEF Command, Parts, CountTypes
    <3> QED
      BY <1>5, <3>1 DEF SendAndWait, Parts, ModemTypes
  <2>5. LockTypes'
    <3>1. commandMutex' = NULL /\ UNCHANGED <<isInEmulator, writeMutex, signaled>>
      BY ZenonT(60), <1>5 DEF SendAndWait
    <3> QED
      BY <3>1 DEF Parts, LockTypes
  <2>6. WriterTypes'
    <3>1. /\ pc' = [pc EXCEPT ![w] = "waiting"] /\ cid' = [cid EXCEPT ![w] = serial + 1]
          /\ UNCHANGED <<op, tries>>
      BY ZenonT(60), <1>5 DEF SendAndWait
    <3> QED
      BY SMTT(60), <2>1, <3>1 DEF Parts, WriterTypes, CallHasOp, Locations, CountTypes
  <2>7. ChanTypes'
    <3>1. /\ s_smsPDU' = IF op[w] = "sms" THEN serial + 1 ELSE NULL
          /\ UNCHANGED <<s_fd, s_readerClosed>>
      BY ZenonT(60), <1>5 DEF SendAndWait
    <3> QED
      BY SMTT(60), <2>2, <2>3, <3>1 DEF Parts, ChanTypes, CountTypes
  <2>8. ModemTypes'
    BY SMTT(60), <1>5, <2>4 DEF Parts, ModemTypes, SendAndWait
  <2>9. CountTypes'
    BY SMTT(60), <1>5 DEF Parts, CountTypes, SendAndWait
  <2> QED
    BY <1>5, <2>5, <2>6, <2>7, <2>8, <2>9, PartsStay, ZenonT(60) DEF Parts, SendAndWait
<1>6. ASSUME ResumeOnNull(w) PROVE Parts'
  <2>1. LockTypes'
    BY SMTT(60), <1>6 DEF Parts, LockTypes, ResumeOnNull
  <2>2. WriterTypes'
    BY SMTT(60), <1>6 DEF Parts, WriterTypes, CallHasOp, Locations, ResumeOnNull, Wakes
  <2> QED
    BY <1>6, <2>1, <2>2, PartsStay DEF Parts, ResumeOnNull
<1>7. ASSUME ResumeAndWait(w) PROVE Parts'
  <2>1. LockTypes'
    BY SMTT(60), <1>7 DEF Parts, LockTypes, ResumeAndWait
  <2> QED
    BY <1>7, <2>1, PartsStay DEF Parts, ResumeAndWait
<1>8. ASSUME ResumeAndReturn(w) PROVE Parts'
  <2>1. /\ UNCHANGED <<op, cid, isInEmulator, s_fd, s_readerClosed, s_type>>
        /\ signaled' = signaled \ {w}
        /\ sp_response' = NULL /\ s_responsePrefix' = NULL /\ s_smsPDU' = NULL
    BY ZenonT(60), <1>8 DEF ResumeAndReturn, clearPendingCommand
  <2> DEFINE Left == /\ commandMutex' \in Writers \cup {NULL} /\ writeMutex' \in Writers \cup {NULL}
                     /\ tries' \in [Writers -> Nat] /\ pc' \in [Writers -> Locations]
                     /\ CallHasOp'
  <2>2. ASSUME FailWith(w, "CHANNEL_CLOSED") PROVE Left
    BY <2>1, <2>2, FailWithTypes, PartsMakeType
  <2>3. ASSUME ~ FailWith(w, "CHANNEL_CLOSED") PROVE Left
    <3>1. \/ /\ pc' = [pc EXCEPT ![w] = "sleepMsec"]
             /\ commandMutex' = w /\ UNCHANGED <<tries, writeMutex>>
          \/ \E res : ReturnFrom(w, res)
      BY ZenonT(60), <1>8, <2>3 DEF ResumeAndReturn
    <3>2. /\ \E l \in {"idle", "sleepMsec"} : pc' = [pc EXCEPT ![w] = l]
          /\ tries' = tries /\ commandMutex' \in {w, NULL} /\ writeMutex' \in {writeMutex, NULL}
      BY <3>1 DEF ReturnFrom
    <3>3. op[w] # NULL
      <4>1. pc[w] = "waiting"
        BY ZenonT(60), <1>8 DEF ResumeAndReturn, Wakes
      <4> QED
        BY <4>1 DEF Parts, WriterTypes, CallHasOp
    <3>4. pc' \in [Writers -> Locations] /\ CallHasOp'
      BY SMTT(60), <2>1, <3>2, <3>3 DEF Parts, WriterTypes, CallHasOp, Locations
    <3> QED
      BY <3>2, <3>4 DEF Parts, LockTypes, WriterTypes
  <2>4. Left
    BY <2>2, <2>3
  <2>5. ChanTypes'
    BY <2>1 DEF Parts, ChanTypes
  <2>6. LockTypes'
    BY <2>1, <2>4 DEF Parts, LockTypes
  <2>7. WriterTypes'
    BY <2>1, <2>4 DEF Parts, WriterTypes
  <2> QED
    BY ZenonT(60), <1>8, <2>5, <2>6, <2>7, PartsStay DEF Parts, ResumeAndReturn
<1>9. ASSUME HandshakeDone(w) PROVE Parts'
  <2>1. LockTypes'
    BY ZenonT(60), <1>9 DEF Parts, LockTypes, HandshakeDone, ReturnFrom
  <2>2. WriterTypes'
    <3>1. pc' = [pc EXCEPT ![w] = "idle"] /\ UNCHANGED <<op, cid, tries>>
      BY ZenonT(60), <1>9 DEF HandshakeDone, ReturnFrom
    <3> QED
      BY SMTT(60), <3>1 DEF Parts, WriterTypes, CallHasOp, Locations
  <2> QED
    BY ZenonT(60), <1>9, <2>1, <2>2, PartsStay DEF Parts, HandshakeDone
<1>10. ASSUME WaitTimesOut(w) PROVE Parts'
  <2>1. /\ FailWith(w, "TIMEOUT")
        /\ UNCHANGED <<op, cid, isInEmulator, s_fd, s_readerClosed, s_type>>
        /\ UNCHANGED <<strays, serial, calls, preempted>>
        /\ signaled' = signaled \ {w} /\ timeouts' = timeouts + 1
        /\ sp_response' = NULL /\ s_responsePrefix' = NULL /\ s_smsPDU' = NULL
    BY ZenonT(60), <1>10 DEF WaitTimesOut, clearPendingCommand
  <2>2. /\ commandMutex' \in Writers \cup {NULL} /\ writeMutex' \in Writers \cup {NULL}
        /\ tries' \in [Writers -> Nat] /\ pc' \in [Writers -> Locations]
        /\ CallHasOp'
    BY <2>1, FailWithTypes, PartsMakeType, ZenonT(60)
  <2>3. ChanTypes'
    BY <2>1 DEF Parts, ChanTypes
  <2>4. LockTypes'
    BY <2>1, <2>2 DEF Parts, LockTypes
  <2>5. WriterTypes'
    BY <2>1, <2>2 DEF Parts, WriterTypes
  <2>6. CountTypes'
    BY <2>1 DEF Parts, CountTypes
  <2> QED
    BY ZenonT(60), <1>10, <2>3, <2>4, <2>5, <2>6, PartsStay DEF Parts, WaitTimesOut
<1>11. ASSUME SpuriousWakeup(w) PROVE Parts'
  <2>1. LockTypes'
    BY SMTT(60), <1>11 DEF Parts, LockTypes, SpuriousWakeup
  <2> QED
    BY ZenonT(60), <1>11, <2>1, PartsStay DEF Parts, SpuriousWakeup
<1> QED
  BY <1>1, <1>2, <1>3, <1>4, <1>5, <1>6, <1>7, <1>8, <1>9, <1>10, <1>11 DEF WriterStep

(* Steps of the reader.                                                    *)
LEMMA ReaderKeepsTypes ==
  ASSUME Parts
  PROVE  ReaderStep => Parts'
<1>1. ASSUME ReadLine PROVE Parts'
  <2>1. Head(lines) \in Line /\ Tail(lines) \in Seq(Line)
    BY <1>1 DEF ReadLine, Parts, ModemTypes
  <2>2. ReaderTypes'
    BY SMTT(60), <1>1, <2>1, AtAssumption DEF Parts, ReaderTypes, ProcessHasLine, ReaderLocations,
        ReadLine
  <2>3. ModemTypes'
    BY SMTT(60), <1>1, <2>1 DEF Parts, ModemTypes, ReadLine
  <2> QED
    BY <1>1, <2>2, <2>3, PartsStay DEF Parts, ReadLine
<1>2. ASSUME ReadPdu PROVE Parts'
  <2>1. Head(lines) \in Line /\ Tail(lines) \in Seq(Line)
    BY <1>2 DEF ReadPdu, Parts, ModemTypes
  <2>2. strays' \subseteq Nat
    BY ZenonT(60), <1>2, <2>1 DEF ReadPdu, handleUnsolicited, Line, Parts, CountTypes
  <2>3. ReaderTypes'
    BY SMTT(60), <1>2 DEF Parts, ReaderTypes, ProcessHasLine, ReaderLocations, ReadPdu
  <2>4. ModemTypes'
    BY SMTT(60), <1>2, <2>1 DEF Parts, ModemTypes, ReadPdu
  <2>5. CountTypes'
    BY SMTT(60), <1>2, <2>2 DEF Parts, CountTypes, ReadPdu
  <2> QED
    BY <1>2, <2>3, <2>4, <2>5, PartsStay DEF Parts, ReadPdu
<1>3. ASSUME ProcessLine PROVE Parts'
  <2>1. rline \in Line /\ rline.id \in Nat
    BY <1>3 DEF ProcessLine, Line, Parts, ReaderTypes, ProcessHasLine
  <2>2. strays' \subseteq Nat
    BY <1>3, <2>1 DEF ProcessLine, ProcessUnsolicited, handleFinalResponse, AnswerPrompt,
       ProcessByType, handleUnsolicited, Parts, CountTypes
  <2>3. signaled' \subseteq Writers
    BY <1>3 DEF ProcessLine, ProcessUnsolicited, handleFinalResponse, AnswerPrompt,
       ProcessByType, SignalCommandCond, Parts, LockTypes
  <2>4. sp_response' \in Response \cup {NULL}
    <3>1. sp_response # NULL =>
            /\ [sp_response EXCEPT !.final = rline] \in Response
            /\ [sp_response EXCEPT !.inter = <<rline>> \o @] \in Response
      BY ZenonT(60), <2>1, ResponseGrows DEF Parts, ChanTypes
    <3> QED
      BY ZenonT(60), <1>3, <3>1 DEF ProcessLine, ProcessUnsolicited, handleFinalResponse, AnswerPrompt,
         ProcessByType, addIntermediate, chanVars, Parts, ChanTypes
  <2>5. /\ UNCHANGED <<s_fd, s_readerClosed, s_type, s_responsePrefix>>
        /\ s_smsPDU' \in {NULL, s_smsPDU} /\ prompt' \in {prompt, "answered"}
    BY SMTT(60), <1>3 DEF ProcessLine, ProcessUnsolicited, handleFinalResponse, AnswerPrompt,
       ProcessByType, chanVars
  <2>6. ChanTypes'
    BY SMTT(60), <1>3, <2>4, <2>5 DEF Parts, ChanTypes, ProcessLine
  <2>7. LockTypes'
    BY SMTT(60), <1>3, <2>3 DEF Parts, LockTypes, ProcessLine
  <2>8. ReaderTypes'
    BY SMTT(60), <1>3 DEF Parts, ReaderTypes, ProcessHasLine, ReaderLocations, ProcessLine
  <2>9. ModemTypes'
    BY SMTT(60), <1>3, <2>5 DEF Parts, ModemTypes, ProcessLine
  <2>10. CountTypes'
    <3>1. preempted' \in {preempted, 1}
      BY ZenonT(60), <1>3 DEF ProcessLine, ProcessUnsolicited, handleFinalResponse, AnswerPrompt,
         ProcessByType
    <3> QED
      BY SMTT(60), <1>3, <2>2, <3>1 DEF Parts, CountTypes, ProcessLine
  <2> QED
    BY <1>3, <2>6, <2>7, <2>8, <2>9, <2>10, PartsStay DEF Parts, ProcessLine
<1>4. ASSUME ReadEof PROVE Parts'
  <2>1. ReaderTypes'
    BY SMTT(60), <1>4 DEF Parts, ReaderTypes, ProcessHasLine, ReaderLocations, ReadEof
  <2> QED
    BY <1>4, <2>1, PartsStay DEF Parts, ReadEof
<1>5. ASSUME onReaderClosed \/ at_close PROVE Parts'
  <2>1. ChanTypes'
    BY SMTT(60), <1>5 DEF Parts, ChanTypes, onReaderClosed, at_close, MarkClosed
  <2>2. LockTypes'
    BY SMTT(60), <1>5 DEF Parts, LockTypes, onReaderClosed, at_close, MarkClosed,
                          SignalCommandCond
  <2>3. ReaderTypes'
    BY SMTT(60), <1>5 DEF Parts, ReaderTypes, ProcessHasLine, ReaderLocations, onReaderClosed,
                          at_close, MarkClosed
  <2> QED
    BY <1>5, <2>1, <2>2, <2>3, PartsStay, ZenonT(60) DEF Parts, onReaderClosed, at_close, MarkClosed
<1>6. ASSUME CloseFd PROVE Parts'
  <2>1. ChanTypes'
    BY SMTT(60), <1>6 DEF Parts, ChanTypes, CloseFd
  <2>2. ReaderTypes'
    BY SMTT(60), <1>6 DEF Parts, ReaderTypes, ProcessHasLine, ReaderLocations, CloseFd
  <2> QED
    BY <1>6, <2>1, <2>2, PartsStay DEF Parts, CloseFd
<1>7. ASSUME SetClosed PROVE Parts'
  <2>1. ReaderTypes'
    BY SMTT(60), <1>7 DEF Parts, ReaderTypes, ProcessHasLine, ReaderLocations, SetClosed
  <2>2. MainTypes'
    BY SMTT(60), <1>7 DEF Parts, MainTypes, SetClosed
  <2> QED
    BY <1>7, <2>1, <2>2, PartsStay DEF Parts, SetClosed
<1> QED
  BY <1>1, <1>2, <1>3, <1>4, <1>5, <1>6, <1>7 DEF ReaderStep

(* Steps of the main loop.                                                 *)
LEMMA MainKeepsTypes ==
  ASSUME Parts
  PROVE  MainStep => Parts'
<1>1. ASSUME OpenFd PROVE Parts'
  <2>1. ChanTypes'
    BY SMTT(60), <1>1 DEF Parts, ChanTypes, OpenFd, MainTypes
  <2>2. MainTypes'
    BY SMTT(60), <1>1 DEF Parts, MainTypes, OpenFd
  <2>3. ModemTypes'
    BY SMTT(60), <1>1 DEF Parts, ModemTypes, OpenFd
  <2> QED
    BY <1>1, <2>1, <2>2, <2>3, PartsStay, ZenonT(60) DEF Parts, OpenFd
<1>2. ASSUME ResetState PROVE Parts'
  <2>1. ChanTypes'
    BY SMTT(60), <1>2 DEF Parts, ChanTypes, ResetState, clearPendingCommand
  <2>2. MainTypes'
    BY SMTT(60), <1>2 DEF Parts, MainTypes, ResetState
  <2> QED
    BY <1>2, <2>1, <2>2, PartsStay DEF Parts, ResetState
<1>3. ASSUME CreateReader PROVE Parts'
  <2>1. ReaderTypes'
    BY SMTT(60), <1>3 DEF Parts, ReaderTypes, ProcessHasLine, ReaderLocations, CreateReader
  <2>2. MainTypes'
    BY SMTT(60), <1>3 DEF Parts, MainTypes, CreateReader
  <2> QED
    BY <1>3, <2>1, <2>2, PartsStay DEF Parts, CreateReader
<1> QED
  BY <1>1, <1>2, <1>3 DEF MainStep

(* Steps of the modem.                                                     *)
LEMMA ModemKeepsTypes ==
  ASSUME Parts
  PROVE  /\ ModemAnswer => Parts'
         /\ ModemUnasked => Parts'
<1>1. ASSUME ModemIntermediate PROVE Parts'
  <2>1. /\ Current.id \in Nat /\ Current.op \in EntryPoints
        /\ Tail(toModem) \in Seq(Command)
    <3>1. Head(toModem) \in Command /\ Tail(toModem) \in Seq(Command)
      BY <1>1 DEF ModemIntermediate, Parts, ModemTypes
    <3> QED
      BY <3>1 DEF Current, Command
  <2>2. lines' \in Seq(Line)
    <3> DEFINE pre == IF Current.op = "numeric" THEN "digit" ELSE PrefixOf(Current.op)
    <3>1. pre \in {"digit", "resp", "CREG"} /\ emitted + 1 \in Nat
      BY <1>1 DEF ModemIntermediate, PrefixOf, Parts, ModemTypes
    <3>2. Emit(<<[kind |-> "text", prefix |-> pre, id |-> Current.id, n |-> emitted + 1]>>)
      BY <1>1, ZenonT(60) DEF ModemIntermediate
    <3> HIDE DEF pre
    <3>3. [kind |-> "text", prefix |-> pre, id |-> Current.id, n |-> emitted + 1] \in Line
      BY <2>1, <3>1, ZenonT(60) DEF Line
    <3> QED
      BY <3>2, <3>3, AppendLine, ZenonT(60) DEF Emit, Parts, ModemTypes
  <2>3. ModemTypes'
    BY SMTT(60), <1>1, <2>1, <2>2 DEF Parts, ModemTypes, ModemIntermediate
  <2> QED
    BY <1>1, <2>3, PartsStay DEF Parts, ModemIntermediate, modemOther
<1>2. ASSUME ModemPrompt PROVE Parts'
  <2>1. /\ Current.id \in Nat /\ Current.op \in EntryPoints
        /\ Tail(toModem) \in Seq(Command)
    <3>1. Head(toModem) \in Command /\ Tail(toModem) \in Seq(Command)
      BY <1>2 DEF ModemPrompt, Parts, ModemTypes
    <3> QED
      BY <3>1 DEF Current, Command
  <2>2. lines' \in Seq(Line)
    BY <1>2, <2>1, AppendLine DEF ModemPrompt, Emit, Line, Parts, ModemTypes
  <2>3. ModemTypes'
    BY ZenonT(60), <1>2, <2>1, <2>2 DEF Parts, ModemTypes, ModemPrompt
  <2> QED
    BY <1>2, <2>3, PartsStay DEF Parts, ModemPrompt, modemOther
<1>3. ASSUME NEW k \in {"ok", "error"}, ModemFinal(k) PROVE Parts'
  <2>1. /\ Current.id \in Nat /\ Current.op \in EntryPoints
        /\ Tail(toModem) \in Seq(Command)
    <3>1. Head(toModem) \in Command /\ Tail(toModem) \in Seq(Command)
      BY <1>3 DEF ModemFinal, Parts, ModemTypes
    <3> QED
      BY <3>1 DEF Current, Command
  <2>2. lines' \in Seq(Line)
    BY <1>3, <2>1, AppendLine DEF ModemFinal, Emit, Line, Parts, ModemTypes
  <2>3. ModemTypes'
    BY ZenonT(60), <1>3, <2>1, <2>2 DEF Parts, ModemTypes, ModemFinal
  <2> QED
    BY <1>3, <2>3, PartsStay DEF Parts, ModemFinal, modemOther
<1>4. ASSUME NEW p \in UnsolPrefixes, ModemUnsolicited(p) PROVE Parts'
  <2>1. lines' \in Seq(Line)
    BY <1>4, AppendLine, AtAssumption DEF ModemUnsolicited, Emit, Line, Parts, ModemTypes
  <2>2. ModemTypes'
    BY SMTT(60), <1>4, <2>1 DEF Parts, ModemTypes, ModemUnsolicited
  <2> QED
    BY <1>4, <2>2, PartsStay, ZenonT(60) DEF Parts, ModemUnsolicited, modemOther
<1>5. ASSUME ModemSms PROVE Parts'
  <2>1. lines' \in Seq(Line)
    BY <1>5, AppendLine, AtAssumption DEF ModemSms, Emit, Line, Parts, ModemTypes
  <2>2. ModemTypes'
    BY SMTT(60), <1>5, <2>1 DEF Parts, ModemTypes, ModemSms
  <2> QED
    BY <1>5, <2>2, PartsStay, ZenonT(60) DEF Parts, ModemSms, modemOther
<1>6. ASSUME ModemHangup PROVE Parts'
  <2>1. ModemTypes'
    BY SMTT(60), <1>6 DEF Parts, ModemTypes, ModemHangup
  <2> QED
    BY <1>6, <2>1, PartsStay DEF Parts, ModemHangup, modemOther
<1> QED
  BY <1>1, <1>2, <1>3, <1>4, <1>5, <1>6 DEF ModemAnswer, ModemUnasked

(* at_open leaves every variable in its type.                              *)
LEMMA TypeInit == Init => TypeInv
  BY SMTT(60), AtAssumption DEF Init, TypeInv, TypeOK, CallHasOp, ProcessHasLine, Types, Locations,
     ReaderLocations

(* Every step keeps the types.                                             *)
LEMMA TypeStep == TypeInv /\ [Next]_vars => TypeInv'
<1> SUFFICES ASSUME Parts, [Next]_vars PROVE Parts'
  BY PartsMakeType
<1>1. CASE UNCHANGED vars
  BY <1>1, PartsStay DEF vars, Parts
<1>2. CASE Finished
  BY <1>1, <1>2 DEF Finished
<1> QED
  BY <1>1, <1>2, WriterKeepsTypes, ReaderKeepsTypes, MainKeepsTypes, ModemKeepsTypes DEF Next

(* What the ownership needs of the types.                                  *)
PlaceTypes ==
  pc \in [Writers -> Locations] /\ cid \in [Writers -> Nat] /\ sp_response \in Response \cup {NULL}

LEMMA PlacesTyped == TypeInv => PlaceTypes
  BY ZenonT(60) DEF TypeInv, TypeOK, PlaceTypes

(* A step that touches neither the threads' places, nor the response, nor  *)
(* the main loop keeps the ownership.                                      *)
LEMMA OwnerUntouched ==
  ASSUME OwnerInv,
         UNCHANGED <<isInEmulator, writeMutex, pc, cid, opens, mpc>>,
         sp_response' = sp_response
  PROVE  OwnerInv'
  BY ZenonT(60) DEF OwnerInv, OneCommandAtATime, WaiterOwnsResponseUntilReopen, WaiterOwnsResponse,
         FirstConnection

(* A thread that is past s_writeMutex, clears the pending command and then *)
(* leaves, or goes on without waiting, keeps the ownership: in the         *)
(* emulator no other thread can be waiting.                                *)
LEMMA OwnerAfterClear ==
  ASSUME PlaceTypes, OwnerInv, NEW w \in Writers,
         pc[w] \in {"lockCommand", "waiting", "retry", "sleepMsec"},
         sp_response' = NULL,
         UNCHANGED <<isInEmulator, cid, opens, mpc>>,
         \/ pc' = [pc EXCEPT ![w] = "idle"]
         \/ pc' = [pc EXCEPT ![w] = "retry"] /\ writeMutex' = writeMutex
         \/ pc' = [pc EXCEPT ![w] = "sleepMsec"] /\ writeMutex' = writeMutex
  PROVE  OwnerInv'
<1>1. ASSUME isInEmulator = 1, NEW v \in Writers, v # w
      PROVE  pc'[v] \notin {"lockCommand", "waiting", "retry", "sleepMsec", "crashed"}
  BY <1>1 DEF PlaceTypes, OwnerInv, OneCommandAtATime
<1>2. isInEmulator = 1 /\ pc'[w] # "idle" => writeMutex' = w
  BY DEF PlaceTypes, OwnerInv, OneCommandAtATime
<1>3. pc'[w] # "waiting"
  BY ZenonT(60) DEF PlaceTypes
<1> QED
  BY ZenonT(60), <1>1, <1>2, <1>3 DEF PlaceTypes, OwnerInv, OneCommandAtATime,
     WaiterOwnsResponseUntilReopen, WaiterOwnsResponse, FirstConnection

(* Where FailWith leaves the thread.                                       *)
LEMMA FailWithPlaces ==
  ASSUME NEW w \in Writers, NEW err, FailWith(w, err)
  PROVE  \/ pc' = [pc EXCEPT ![w] = "idle"]
         \/ pc' = [pc EXCEPT ![w] = "retry"] /\ writeMutex' = writeMutex
  BY ZenonT(60) DEF FailWith, ReturnFrom

(* A freshly opened channel has no command pending.                        *)
LEMMA OwnerInit == Init => OwnerInv
  BY AtAssumption DEF Init, OwnerInv, OneCommandAtATime, WaiterOwnsResponseUntilReopen,
     WaiterOwnsResponse, FirstConnection

(* Every step keeps the ownership of the pending response.                 *)
LEMMA OwnerStep == TypeInv /\ OwnerInv /\ [Next]_vars => OwnerInv'
<1> SUFFICES ASSUME TypeInv, OwnerInv, [Next]_vars PROVE OwnerInv'
    OBVIOUS
<1> USE PlacesTyped
<1> USE DEF chanVars, lockVars, writerVars, mainVars
<1>1. ASSUME NEW w \in Writers, NEW o \in Ops, Call(w, o) PROVE OwnerInv'
  BY ZenonT(60), <1>1 DEF Call, PlaceTypes, OwnerInv, OneCommandAtATime,
     WaiterOwnsResponseUntilReopen, WaiterOwnsResponse, FirstConnection
<1>2. ASSUME NEW w \in Writers, LockWrite(w) PROVE OwnerInv'
  BY ZenonT(60), <1>2, AtAssumption DEF LockWrite, WriteMutexFree, PlaceTypes, OwnerInv,
     OneCommandAtATime, WaiterOwnsResponseUntilReopen, WaiterOwnsResponse, FirstConnection
<1>3. ASSUME NEW w \in Writers, SendWhilePending(w) PROVE OwnerInv'
  BY <1>3, OwnerAfterClear, FailWithPlaces, ZenonT(60) DEF SendWhilePending, EntersNolock,
     clearPendingCommand
<1>4. ASSUME NEW w \in Writers, SendFails(w) PROVE OwnerInv'
  <2>1. PICK err : FailWith(w, err)
    BY <1>4, ZenonT(60) DEF SendFails
  <2> QED
    BY <1>4, <2>1, OwnerAfterClear, FailWithPlaces DEF SendFails, EntersNolock,
       clearPendingCommand
<1>5. ASSUME NEW w \in Writers, SendAndWait(w) PROVE OwnerInv'
  <2>1. /\ sp_response = NULL
        /\ pc[w] \in {"lockCommand", "retry"}
        /\ pc' = [pc EXCEPT ![w] = "waiting"]
        /\ cid' = [cid EXCEPT ![w] = serial + 1]
        /\ sp_response' = [id |-> serial + 1, final |-> NULL, inter |-> <<>>]
        /\ UNCHANGED <<isInEmulator, writeMutex, opens, mpc>>
    BY ZenonT(60), <1>5 DEF SendAndWait, EntersNolock
  <2>2. sp_response' # NULL /\ sp_response'.id = serial + 1
    <3>1. sp_response' \in Response
      <4>1. serial + 1 \in Nat
        BY PartsMakeType, NextSerial, ZenonT(60) DEF Parts, CountTypes
      <4> QED
        BY <2>1, <4>1, NoLines, ZenonT(60) DEF Response
    <3> QED
      BY <2>1, <3>1, AtAssumption, ZenonT(60)
  <2>3. pc'[w] = "waiting" /\ cid'[w] = sp_response'.id
    BY <2>1, <2>2, ZenonT(60) DEF PlaceTypes
  <2>4. ASSUME isInEmulator = 1, NEW v \in Writers, v # w
        PROVE  pc'[v] \notin {"lockCommand", "waiting", "retry", "sleepMsec", "crashed"}
    BY SMTT(60), <2>1, <2>4 DEF PlaceTypes, OwnerInv, OneCommandAtATime
  <2>5. isInEmulator = 1 => writeMutex' = w
    BY <2>1, ZenonT(60) DEF OwnerInv, OneCommandAtATime
  <2> QED
    BY <2>1, <2>2, <2>3, <2>4, <2>5, ZenonT(60) DEF OwnerInv, OneCommandAtATime,
       WaiterOwnsResponseUntilReopen, WaiterOwnsResponse, FirstConnection
<1>6. ASSUME NEW w \in Writers, ResumeOnNull(w) PROVE OwnerInv'
  BY ZenonT(60), <1>6 DEF ResumeOnNull, Wakes, PlaceTypes, OwnerInv, OneCommandAtATime,
     WaiterOwnsResponseUntilReopen, WaiterOwnsResponse, FirstConnection
<1>7. ASSUME NEW w \in Writers, ResumeAndReturn(w) PROVE OwnerInv'
  <2>1. \/ pc' = [pc EXCEPT ![w] = "idle"]
        \/ pc' = [pc EXCEPT ![w] = "retry"] /\ writeMutex' = writeMutex
        \/ pc' = [pc EXCEPT ![w] = "sleepMsec"] /\ writeMutex' = writeMutex
    BY ZenonT(60), <1>7, FailWithPlaces DEF ResumeAndReturn, ReturnFrom
  <2> QED
    BY ZenonT(60), <1>7, <2>1, OwnerAfterClear DEF ResumeAndReturn, Wakes, clearPendingCommand
<1>8. ASSUME NEW w \in Writers, HandshakeDone(w) PROVE OwnerInv'
  BY ZenonT(60), <1>8 DEF HandshakeDone, ReturnFrom, PlaceTypes, OwnerInv, OneCommandAtATime,
     WaiterOwnsResponseUntilReopen, WaiterOwnsResponse, FirstConnection
<1>9. ASSUME NEW w \in Writers, WaitTimesOut(w) PROVE OwnerInv'
  BY <1>9, OwnerAfterClear, FailWithPlaces DEF WaitTimesOut, clearPendingCommand
<1>10. CASE ProcessLine
  <2>1. \/ sp_response' = sp_response
        \/ /\ sp_response # NULL /\ sp_response' \in Response
           /\ sp_response'.id = sp_response.id
    <3>1. rline \in Line
      BY <1>10, PartsMakeType DEF ProcessLine, Parts, ReaderTypes, ProcessHasLine
    <3>2. sp_response # NULL =>
            /\ [sp_response EXCEPT !.final = rline] \in Response
            /\ [sp_response EXCEPT !.inter = <<rline>> \o @] \in Response
            /\ [sp_response EXCEPT !.final = rline].id = sp_response.id
            /\ [sp_response EXCEPT !.inter = <<rline>> \o @].id = sp_response.id
      BY ZenonT(60), <3>1, ResponseGrows DEF PlaceTypes
    <3> QED
      BY ZenonT(60), <1>10, <3>2 DEF ProcessLine, ProcessUnsolicited, handleFinalResponse, AnswerPrompt,
         ProcessByType, addIntermediate
  <2>2. UNCHANGED <<isInEmulator, writeMutex, pc, cid, opens, mpc>>
    BY <1>10 DEF ProcessLine
  <2>3. CASE sp_response' = sp_response
    BY <2>2, <2>3, OwnerUntouched, ZenonT(60)
  <2>4. CASE /\ sp_response # NULL /\ sp_response' \in Response
             /\ sp_response'.id = sp_response.id
    <3>1. sp_response' # NULL
      BY <2>4, AtAssumption
    <3> QED
      BY <2>2, <2>4, <3>1, ZenonT(60) DEF OwnerInv, OneCommandAtATime, WaiterOwnsResponseUntilReopen,
         WaiterOwnsResponse, FirstConnection
  <2> QED
    BY <2>1, <2>3, <2>4
<1>11. CASE OpenFd
  <2>1. opens' = opens + 1 /\ UNCHANGED <<isInEmulator, writeMutex, pc, cid, sp_response>>
    BY ZenonT(60), <1>11 DEF OpenFd
  <2>2. opens \in Nat
    BY PartsMakeType DEF Parts, MainTypes
  <2>3. FirstConnection' /\ opens' # 1
    BY <2>1, <2>2 DEF OwnerInv, FirstConnection
  <2>4. OneCommandAtATime'
    BY <2>1 DEF OwnerInv, OneCommandAtATime
  <2> QED
    BY <2>3, <2>4 DEF OwnerInv, WaiterOwnsResponseUntilReopen
<1>12. CASE ResetState
  BY ZenonT(60), <1>12 DEF ResetState, clearPendingCommand, OwnerInv, OneCommandAtATime,
     WaiterOwnsResponseUntilReopen, WaiterOwnsResponse, FirstConnection
<1>13. CASE CreateReader
  BY ZenonT(60), <1>13 DEF CreateReader, OwnerInv, OneCommandAtATime, WaiterOwnsResponseUntilReopen,
     WaiterOwnsResponse, FirstConnection
<1>14. ASSUME NEW w \in Writers, ResumeAndWait(w) \/ SpuriousWakeup(w) PROVE OwnerInv'
  <2>1. UNCHANGED <<isInEmulator, writeMutex, pc, cid, opens, mpc>> /\ sp_response' = sp_response
    BY ZenonT(60), <1>14 DEF ResumeAndWait, SpuriousWakeup
  <2> QED
    BY ZenonT(60), <2>1, OwnerUntouched
<1>15. CASE ReadLine \/ ReadPdu \/ ReadEof \/ onReaderClosed \/ CloseFd \/ at_close \/ SetClosed
  BY ZenonT(60), <1>15, OwnerUntouched DEF ReadLine, ReadPdu, ReadEof, onReaderClosed, at_close,
     MarkClosed, CloseFd, SetClosed
<1>16. CASE ModemAnswer \/ ModemUnasked
  BY ZenonT(60), <1>16, OwnerUntouched DEF ModemAnswer, ModemUnasked, ModemIntermediate, ModemPrompt,
     ModemFinal, ModemUnsolicited, ModemSms, ModemHangup, modemOther
<1>17. CASE Finished \/ UNCHANGED vars
  BY <1>17, OwnerUntouched, ZenonT(60) DEF Finished, vars
<1> QED
  BY <1>1, <1>2, <1>3, <1>4, <1>5, <1>6, <1>7, <1>8, <1>9, <1>10, <1>11, <1>12, <1>13,
     <1>14, <1>15, <1>16, <1>17 DEF Next, WriterStep, ReaderStep, MainStep

(* The variables of the channel keep their types, for any set of writers   *)
(* and any bounds.                                                         *)
THEOREM TypeCorrect == Spec => []TypeOK
<1>1. TypeInv => TypeOK
  BY DEF TypeInv
<1> QED
  BY <1>1, TypeInit, TypeStep, PTL DEF Spec

(* at_send_command_full admits one command at a time in the emulator: the  *)
(* pending response always belongs to the thread that owns s_writeMutex.   *)
THEOREM Serialised == Spec => []OneCommandAtATime
<1>1. OwnerInv => OneCommandAtATime
  BY DEF OwnerInv
<1> QED
  BY <1>1, TypeInit, TypeStep, OwnerInit, OwnerStep, PTL DEF Spec

(* Until the channel is opened again a thread woken in                     *)
(* at_send_command_full_nolock finds its own response.                     *)
THEOREM WaiterSafe == Spec => []WaiterOwnsResponseUntilReopen
<1>1. OwnerInv => WaiterOwnsResponseUntilReopen
  BY DEF OwnerInv
<1> QED
  BY <1>1, TypeInit, TypeStep, OwnerInit, OwnerStep, PTL DEF Spec

-----------------------------------------------------------------------------
(* The answers.  Between the modem and the end of processLine the lines of *)
(* the one answer in progress are on the wire, in order; the response      *)
(* holds the ones before them and the modem will send the ones after.      *)


\* The lines between the modem and the end of processLine, in their order: the one
\* that the reader is about to process has position 0.
Positions == (IF rpc = "processLine" THEN 0 ELSE 1)..Len(lines)
At(i) == IF i = 0 THEN rline ELSE lines[i]
OnWire == {At(i) : i \in Positions}
AnswerLines == {l \in OnWire : l.id # 0}

\* In an answer the final line is the last, the numbers grow, and there is one prompt.
Before(a, b) ==
  a.id # 0 /\ b.id # 0 =>
    /\ ~isFinalResponse(a)
    /\ ~(a.kind = "prompt" /\ b.kind = "prompt")
    /\ a.kind = "text" /\ b.kind = "text" => a.n < b.n

InOrder == \A i, j \in Positions : i < j => Before(At(i), At(j))

\* An announced SMS is followed by its PDU.
SmsPairs ==
  /\ \A i \in 1..Len(lines) :
       lines[i].kind = "sms" => i < Len(lines) /\ lines[i + 1].id = 0
  /\ rpc = "readPdu" => lines # <<>> /\ lines[1].id = 0

Unasked(l) ==
  /\ l.id = 0 => /\ l.kind \in {"text", "sms", "error"}
                 /\ l.prefix \in UnsolPrefixes \cup {"unsol", "none"}
  /\ l.kind = "sms" => l.id = 0

Wire == InOrder /\ SmsPairs /\ \A l \in OnWire : Unasked(l)

\* When the reader has seen the end of a connection nothing of it is left.
Drained ==
  /\ link = "down" => toModem = <<>>
  /\ toModem = <<>> => emitted = 0 /\ prompt = "none"
  /\ rpc \in {"onReaderClosed", "closeFd", "atClose", "setClosed"} \/ s_closed = 1 =>
       lines = <<>> /\ link = "down"
  /\ rpc \in {"closeFd", "atClose", "setClosed"} => s_readerClosed = 1
  /\ s_readerClosed = 1 => rpc \in {"closeFd", "atClose", "setClosed"} \/ s_closed = 1
  /\ s_fd < 0 => s_readerClosed = 1
  /\ s_closed = 1 => rpc = "exited" /\ mpc = "waitForClose"
  /\ mpc # "waitForClose" => rpc = "exited"
  /\ rpc = "exited" /\ mpc = "waitForClose" => s_closed = 1

\* A line of the answer to a command of this entry point.
IsPart(l, o) ==
  /\ l.kind \in {"ok", "error", "prompt", "text"}
  /\ l.kind = "prompt" => o = "sms"
  /\ l.kind = "text" =>
       /\ o \in {"singleline", "registration", "numeric", "multiline", "sms"}
       /\ l.prefix = IF o = "numeric" THEN "digit" ELSE PrefixOf(o)
       /\ l.n > 0 /\ (o # "multiline" => l.n = 1)

Busy(w) == pc[w] \in {"waiting", "crashed"}

\* The modem answers one command only, the last one, and only while its thread waits.
Served ==
  /\ (\A w \in Writers : ~Busy(w)) => AnswerLines = {} /\ toModem = <<>>
  /\ \A w \in Writers : Busy(w) =>
       /\ cid[w] = serial /\ serial > 0
       /\ toModem # <<>> => toModem = <<[id |-> serial, op |-> op[w]]>>
       /\ \A l \in AnswerLines : l.id = serial /\ IsPart(l, op[w])
  /\ toModem # <<>> => \A l \in AnswerLines :
       /\ ~isFinalResponse(l)
       /\ l.kind = "text" => l.n <= emitted
       /\ l.kind = "prompt" => prompt = "sent"

\* What the response has collected, what is on its way, and what the modem will send
\* make up one answer, whose lines are numbered to last so far.
Collected(last) ==
  LET m == Len(sp_response.inter)
  IN  /\ m <= last
      /\ \A i \in 1..m : sp_response.inter[i].id = serial /\ sp_response.inter[i].n = m + 1 - i
      /\ \A l \in AnswerLines :
           /\ l.kind = "text" => m < l.n /\ l.n <= last
           /\ isFinalResponse(l) => l.n = last
      /\ \A k \in (m + 1)..last : \E l \in AnswerLines : l.kind = "text" /\ l.n = k
      /\ toModem # <<>> => emitted = last
      /\ sp_response.final # NULL =>
           /\ sp_response.final.id = serial /\ sp_response.final.n = m
           /\ AnswerLines = {} /\ toModem = <<>>

\* Or the unasked line with the prefix of the answer came first and has taken its place:
\* at_send_command_singleline's response is full, and the answer's own line is handled
\* as if it were the unasked one.
Displaced ==
  /\ Len(sp_response.inter) = 1
  /\ sp_response.inter[1].id = 0 /\ sp_response.inter[1].prefix = "CREG"
  /\ "CREG" \in UnsolPrefixes
  /\ \A w \in Writers : Busy(w) => op[w] = "registration"
  /\ sp_response.final # NULL =>
       sp_response.final.id = serial /\ AnswerLines = {} /\ toModem = <<>>

AddsUp == Displaced \/ \E last \in Nat : Collected(last)

Collecting ==
  sp_response # NULL =>
    /\ AddsUp
    /\ sp_response.id = serial
    /\ \A w \in Writers : pc[w] = "waiting" =>
         /\ s_type = TypeOf(op[w]) /\ s_responsePrefix = PrefixOf(op[w])
         /\ s_smsPDU = NULL /\ op[w] = "sms" =>
              /\ \A l \in AnswerLines : l.kind # "prompt"
              /\ toModem # <<>> => prompt # "none"

HandshakeSleeps == \A w \in Writers : pc[w] = "sleepMsec" => op[w] = "handshake"
NoCrash == opens = 1 => \A w \in Writers : pc[w] # "crashed"

(* The end of a connection is seen with nothing left of it.                *)
LEMMA DrainedStep == TypeInv /\ FirstConnection /\ Drained /\ [Next]_vars => Drained'
<1> SUFFICES ASSUME TypeInv, Drained, [Next]_vars PROVE Drained'
  OBVIOUS
<1>t. Parts
  BY PartsMakeType, ZenonT(60)
<1>1. ASSUME UNCHANGED <<link, emitted, prompt, rpc, s_closed, lines, s_readerClosed, s_fd, mpc>>,
             toModem' = toModem \/ (link = "up" /\ toModem' # <<>>)
      PROVE  Drained'
  BY <1>1 DEF Drained
<1>2. ASSUME NEW w \in Writers,
             \/ \E o \in Ops : Call(w, o)
             \/ WriterStep(w) \/ WaitTimesOut(w) \/ SpuriousWakeup(w)
      PROVE  Drained'
  <2>1. UNCHANGED <<link, emitted, prompt, rpc, s_closed, lines, s_readerClosed, s_fd, mpc>>
    BY <1>2, ZenonT(60) DEF Call, WriterStep, LockWrite, SendWhilePending, SendFails, SendAndWait,
       ResumeOnNull, ResumeAndWait, ResumeAndReturn, HandshakeDone, WaitTimesOut, SpuriousWakeup,
       chanVars, lockVars, writerVars, readerVars, mainVars, modemVars
  <2>2. toModem' = toModem \/ SendAndWait(w)
    BY <1>2, ZenonT(60) DEF Call, WriterStep, LockWrite, SendWhilePending, SendFails,
       ResumeOnNull, ResumeAndWait, ResumeAndReturn, HandshakeDone, WaitTimesOut, SpuriousWakeup,
       chanVars, lockVars, writerVars, readerVars, mainVars, modemVars
  <2>3. ASSUME SendAndWait(w) PROVE toModem' = toModem \/ (link = "up" /\ toModem' # <<>>)
    <3>1. toModem' = toModem \/ (link = "up" /\ toModem' = Append(toModem, [id |-> serial + 1, op |-> op[w]]))
      BY <2>3 DEF SendAndWait
    <3>2. toModem \in Seq(Command)
      BY <1>t DEF Parts, ModemTypes
    <3>3. [id |-> serial + 1, op |-> op[w]] \in Command
      <4>0. op[w] \in EntryPoints /\ serial \in Nat
        BY <2>3, <1>t, ZenonT(60) DEF SendAndWait, EntersNolock, Parts, WriterTypes, CallHasOp, CountTypes
      <4>1. serial + 1 \in Nat
        BY <4>0
      <4> QED
        BY <4>0, <4>1, SMTT(60) DEF Command
    <3>4. \A x \in Command : Append(toModem, x) # <<>>
      <4>1. \A x \in Command : Len(Append(toModem, x)) = Len(toModem) + 1 /\ Len(toModem) \in Nat
        BY <3>2
      <4>2. Len(<<>>) = 0
        OBVIOUS
      <4> QED
        BY <4>1, <4>2
    <3> QED
      BY <3>1, <3>3, <3>4, ZenonT(60)
  <2> QED
    BY <1>1, <2>1, <2>2, <2>3
<1>3. CASE ReaderStep
  <2>0. lines \in Seq(Line) /\ Tail(<<>>) = <<>>
    BY <1>t DEF Parts, ModemTypes
  <2>1. CASE ReadLine
    BY <2>1, ZenonT(60) DEF ReadLine, Drained, chanVars, mainVars
  <2>2. CASE ReadPdu
    BY <2>2, ZenonT(60) DEF ReadPdu, Drained, chanVars, mainVars
  <2>3. CASE ProcessLine
    <3>1. UNCHANGED <<link, toModem, emitted, s_closed, lines, s_readerClosed, s_fd, mpc>>
          /\ rpc = "processLine" /\ rpc' = "read"
          /\ (prompt' = prompt \/ prompt = "sent")
      BY <2>3, ZenonT(60) DEF ProcessLine, ProcessUnsolicited, handleFinalResponse, AnswerPrompt,
         ProcessByType, chanVars, mainVars, clearPendingCommand
    <3> QED
      BY <3>1 DEF Drained
  <2>4. CASE ReadEof
    BY <2>4, <1>t, ZenonT(60) DEF ReadEof, Drained, chanVars, mainVars, modemVars, Parts, MainTypes
  <2>5. CASE onReaderClosed
    BY <2>5, ZenonT(60) DEF onReaderClosed, MarkClosed, Drained, mainVars, modemVars
  <2>6. CASE CloseFd
    BY <2>6, ZenonT(60) DEF CloseFd, Drained, mainVars, modemVars
  <2>7. CASE at_close
    BY <2>7, ZenonT(60) DEF at_close, MarkClosed, Drained, mainVars, modemVars
  <2>8. CASE SetClosed
    BY <2>8, ZenonT(60) DEF SetClosed, Drained, chanVars, modemVars
  <2> QED
    BY <1>3, <2>1, <2>2, <2>3, <2>4, <2>5, <2>6, <2>7, <2>8 DEF ReaderStep
<1>4. CASE MainStep
  <2>1. CASE OpenFd
    <3>1. opens + 1 >= 0
      BY <1>t DEF Parts, MainTypes
    <3> QED
      BY <2>1, <3>1 DEF OpenFd, Drained, readerVars
  <2>2. CASE ResetState
    BY <2>2, ZenonT(60) DEF ResetState, Drained, readerVars, modemVars
  <2>3. CASE CreateReader
    BY <2>3, ZenonT(60) DEF CreateReader, Drained, chanVars, modemVars
  <2> QED
    BY <1>4, <2>1, <2>2, <2>3, ZenonT(60) DEF MainStep
<1>5. CASE ModemAnswer \/ ModemUnasked
  <2>1. UNCHANGED <<rpc, s_closed, s_readerClosed, s_fd, mpc>> /\ link = "up"
    BY <1>5, ZenonT(60) DEF ModemAnswer, ModemUnasked, ModemIntermediate, ModemPrompt, ModemFinal, ModemUnsolicited,
       ModemSms, ModemHangup, modemOther, chanVars, readerVars, mainVars
  <2>2. ~(rpc \in {"onReaderClosed", "closeFd", "atClose", "setClosed"} \/ s_closed = 1)
    BY <2>1, SMTT(60) DEF Drained
  <2>3. /\ toModem' = <<>> => (emitted' = 0 /\ prompt' = "none")
        /\ link' = "down" => toModem' = <<>>
    BY <1>5, <2>1, ZenonT(60) DEF ModemAnswer, ModemUnasked, ModemIntermediate, ModemPrompt, ModemFinal, ModemUnsolicited,
       ModemSms, ModemHangup, Drained
  <2> QED
    BY <2>1, <2>2, <2>3 DEF Drained
<1>6. CASE UNCHANGED vars
  BY <1>1, <1>6, ZenonT(60) DEF vars, chanVars, readerVars, mainVars, modemVars
<1>7. CASE Finished
  BY <1>6, <1>7 DEF Finished
<1> QED
  BY <1>2, <1>3, <1>4, <1>5, <1>6, <1>7 DEF Next

-----------------------------------------------------------------------------
LEMMA WireTypes ==
  ASSUME TypeInv
  PROVE  /\ lines \in Seq(Line) /\ Len(lines) \in Nat /\ DOMAIN lines = 1..Len(lines)
         /\ \A i \in 1..Len(lines) : lines[i] \in Line
         /\ Positions \subseteq Nat /\ \A i \in Positions : At(i) \in Line
         /\ OnWire \subseteq Line /\ AnswerLines \subseteq Line
<1>1. lines \in Seq(Line) /\ (rpc = "processLine" => rline \in Line)
  BY PartsMakeType DEF Parts, ModemTypes, ReaderTypes, ProcessHasLine
<1>2. /\ Len(lines) \in Nat /\ DOMAIN lines = 1..Len(lines)
      /\ \A i \in 1..Len(lines) : lines[i] \in Line
  BY <1>1
<1>3. Positions \subseteq Nat /\ \A i \in Positions : At(i) \in Line
  <2>1. Positions \subseteq Nat
    BY <1>2, FromZero, ZenonT(60) DEF Positions
  <2>2. ASSUME NEW i \in Positions PROVE At(i) \in Line
    <3>1. CASE i = 0
      <4>1. rpc = "processLine"
        BY <1>2, <3>1, FromZero, ZenonT(60) DEF Positions
      <4> QED
        BY <1>1, <3>1, <4>1, ZenonT(60) DEF At
    <3>2. CASE i # 0
      <4>1. i \in 1..Len(lines)
        BY <1>2, <3>2, FromZero, ZenonT(60) DEF Positions
      <4> QED
        BY <1>2, <3>2, <4>1, ZenonT(60) DEF At
    <3> QED
      BY <3>1, <3>2, ZenonT(60)
  <2> QED
    BY <2>1, <2>2, ZenonT(60)
<1> QED
  BY <1>1, <1>2, <1>3, ZenonT(60) DEF OnWire, AnswerLines

(* The wire is as it was.                                                  *)
LEMMA WireStays ==
  ASSUME Wire, lines' = lines, rpc' = "processLine" <=> rpc = "processLine",
         rpc' = "processLine" => rline' = rline,
         rpc' = "readPdu" => rpc = "readPdu"
  PROVE  Wire' /\ AnswerLines' = AnswerLines
<1>1. Positions' = Positions /\ \A i \in Positions : At(i)' = At(i)
  <2>1. Positions' = Positions
    BY ZenonT(60) DEF Positions
  <2>2. ASSUME NEW i \in Positions, i = 0 PROVE rpc = "processLine"
    BY <2>2 DEF Positions
  <2> QED
    BY <2>1, <2>2, ZenonT(60) DEF At
<1>2. OnWire' = OnWire
  BY <1>1, ZenonT(60) DEF OnWire
<1> QED
  BY <1>1, <1>2 DEF Wire, InOrder, SmsPairs, AnswerLines

(* The reader takes the first line: it stays on its way, unless it comes   *)
(* from no command.                                                        *)
LEMMA WireRead ==
  ASSUME TypeInv, Wire, rpc # "processLine", lines # <<>>,
         lines' = Tail(lines),
         \/ rpc' = "processLine" /\ rline' = Head(lines) /\ Head(lines).kind # "sms"
         \/ rpc' = "readPdu" /\ Head(lines).kind = "sms"
         \/ rpc' = "read" /\ rpc = "readPdu"
  PROVE  Wire' /\ AnswerLines' = AnswerLines
<1>0. /\ lines \in Seq(Line) /\ Len(lines) \in Nat \ {0} /\ Head(lines) = lines[1]
      /\ Len(lines') = Len(lines) - 1 /\ \A i \in 1..(Len(lines) - 1) : lines'[i] = lines[i + 1]
  BY WireTypes
<1>1. Positions = 1..Len(lines) /\ \A i \in Positions : At(i) = lines[i]
  BY <1>0 DEF Positions, At
<1>2. /\ \A i \in Positions' : i + 1 \in Positions /\ At(i)' = At(i + 1)
      /\ \A i \in Positions : i - 1 \in Positions' \/ (i = 1 /\ rpc' # "processLine")
  <2>1. CASE rpc' = "processLine"
    BY <1>0, <1>1, <2>1 DEF Positions, At
  <2>2. CASE rpc' # "processLine"
    BY <1>0, <1>1, <2>2 DEF Positions, At
  <2> QED
    BY <2>1, <2>2, ZenonT(60)
<1>3. rpc' # "processLine" => lines[1].id = 0
  BY <1>0, <1>1 DEF Wire, SmsPairs, OnWire, Unasked
<1>4. OnWire' \subseteq OnWire /\ \A l \in OnWire : l.id # 0 => l \in OnWire'
  <2>1. ASSUME NEW l \in OnWire' PROVE l \in OnWire
    BY <1>2 DEF OnWire
  <2>2. ASSUME NEW l \in OnWire, l.id # 0 PROVE l \in OnWire'
    <3>1. PICK i \in Positions : l = At(i)
      BY DEF OnWire
    <3>2. i - 1 \in Positions' /\ At(i - 1)' = At(i)
      <4>1. i - 1 \in Positions'
        BY <1>1, <1>2, <1>3, <2>2, <3>1, ZenonT(60)
      <4>2. (i - 1) + 1 = i
        BY <1>0, <1>1
      <4> QED
        BY <1>2, <4>1, <4>2, ZenonT(60)
    <3> QED
      BY <3>1, <3>2 DEF OnWire
  <2> QED
    BY <2>1, <2>2
<1>5. AnswerLines' = AnswerLines
  BY <1>4 DEF AnswerLines
<1>6. InOrder'
  <2>1. ASSUME NEW i \in Positions', NEW j \in Positions', i < j PROVE Before(At(i)', At(j)')
    <3>1. Positions' \subseteq Int
      BY <1>0 DEF Positions
    <3>2. i + 1 < j + 1
      BY <3>1, <2>1
    <3> QED
      BY <1>2, <3>2 DEF Wire, InOrder
  <2> QED
    BY <2>1 DEF InOrder
<1>7. SmsPairs'
  <2>1. ASSUME NEW i \in 1..Len(lines'), lines'[i].kind = "sms"
        PROVE  i < Len(lines') /\ lines'[i + 1].id = 0
    <3>1. i + 1 \in 1..Len(lines) /\ lines'[i] = lines[i + 1]
      BY <1>0
    <3>2. i + 1 < Len(lines) /\ lines[i + 1 + 1].id = 0
      BY <2>1, <3>1, ZenonT(60) DEF Wire, SmsPairs
    <3>3. i + 1 \in 1..(Len(lines) - 1) /\ i < Len(lines')
      BY <1>0, <3>2
    <3> QED
      BY <1>0, <3>2, <3>3, ZenonT(60)
  <2>2. ASSUME rpc' = "readPdu" PROVE lines' # <<>> /\ lines'[1].id = 0
    <3>1. 1 \in 1..Len(lines) /\ lines[1].kind = "sms"
      BY <1>0, <2>2
    <3>2. 1 < Len(lines) /\ lines[1 + 1].id = 0
      BY <3>1, ZenonT(60) DEF Wire, SmsPairs
    <3>3. 1 \in 1..(Len(lines) - 1)
      BY <1>0, <3>2
    <3>4. Len(lines') # 0
      BY <1>0, <3>2
    <3> QED
      BY <1>0, <3>2, <3>3, <3>4, ZenonT(60)
  <2> QED
    BY <2>1, <2>2, ZenonT(60) DEF SmsPairs
<1> QED
  BY <1>4, <1>5, <1>6, <1>7, ZenonT(60) DEF Wire

(* processLine takes the line it holds off the wire; every line behind it  *)
(* is a later one.                                                         *)
LEMMA WireProcess ==
  ASSUME TypeInv, Wire, rpc = "processLine", rpc' = "read", lines' = lines
  PROVE  /\ Wire' /\ AnswerLines' \subseteq AnswerLines
         /\ rline \in OnWire /\ rline \in Line /\ (rline.id # 0 => rline \in AnswerLines)
         /\ AnswerLines \subseteq AnswerLines' \cup {rline}
         /\ \A l \in AnswerLines' : Before(rline, l)
<1>0. lines \in Seq(Line) /\ Len(lines) \in Nat
  BY WireTypes
<1>1. /\ Positions = 0..Len(lines) /\ Positions' = 1..Len(lines)
      /\ \A i \in Positions' : At(i)' = At(i)
      /\ At(0) = rline
  BY <1>0 DEF Positions, At
<1>2. 0 \in Positions /\ Positions = Positions' \cup {0} /\ \A i \in Positions' : 0 < i
  BY <1>0, <1>1
<1>3. OnWire = OnWire' \cup {rline}
  BY <1>1, <1>2 DEF OnWire
<1>4. rline \in Line
  BY <1>3, WireTypes, ZenonT(60)
<1>5. \A l \in AnswerLines' : Before(rline, l)
  BY <1>1, <1>2, ZenonT(60) DEF Wire, InOrder, AnswerLines, OnWire
<1>6. InOrder'
  BY <1>1, <1>2 DEF Wire, InOrder
<1>7. SmsPairs'
  BY ZenonT(60) DEF Wire, SmsPairs
<1> QED
  BY <1>3, <1>4, <1>5, <1>6, <1>7 DEF Wire, AnswerLines

(* The modem sends one more line.                                          *)
LEMMA WireEmit ==
  ASSUME TypeInv, Wire, NEW l \in Line, lines' = lines \o <<l>>, rpc' = rpc, rline' = rline,
         Unasked(l), l.kind # "sms", \A a \in AnswerLines : Before(a, l)
  PROVE  Wire' /\ AnswerLines' = AnswerLines \cup {x \in {l} : x.id # 0}
<1>0. /\ lines \in Seq(Line) /\ Len(lines) \in Nat /\ Len(lines') = Len(lines) + 1
      /\ \A i \in 1..Len(lines) : lines'[i] = lines[i]
      /\ lines'[Len(lines) + 1] = l
  BY WireTypes
<1>9. PICK k \in Nat : k = Len(lines) + 1
  BY <1>0, NextSerial, ZenonT(60)
<1>1. /\ Positions' = Positions \cup {k} /\ k \notin Positions
      /\ \A i \in Positions : i < k /\ At(i)' = At(i)
      /\ At(k)' = l
  <2>1. k # 0
    BY <1>0, <1>9, NextSerial, ZenonT(60)
  <2>2. At(k)' = l
    BY <1>0, <1>9, <2>1, ZenonT(60) DEF At
  <2>3. \A i \in Positions : i < k /\ At(i)' = At(i)
    BY <1>0, <1>9, SMTT(60) DEF Positions, At
  <2>4. Positions' = Positions \cup {k}
    BY <1>0, <1>9 DEF Positions
  <2> QED
    BY <2>2, <2>3, <2>4, <1>0, <1>9 DEF Positions
<1>2. OnWire' = OnWire \cup {l}
  BY <1>1 DEF OnWire
<1>3. AnswerLines' = AnswerLines \cup {x \in {l} : x.id # 0}
  BY <1>2 DEF AnswerLines
<1>4. InOrder'
  <2>1. ASSUME NEW i \in Positions', NEW j \in Positions', i < j PROVE Before(At(i)', At(j)')
    <3>0. Positions' \subseteq Nat
      BY <1>1, WireTypes, ZenonT(60)
    <3>1. i \in Positions
      BY <1>1, <2>1, <3>0
    <3>2. CASE j \in Positions
      BY <1>1, <2>1, <3>1, <3>2, ZenonT(60) DEF Wire, InOrder
    <3>3. CASE j = k
      <4>1. At(i) \in AnswerLines \/ At(i).id = 0
        BY <3>1, ZenonT(60) DEF AnswerLines, OnWire
      <4>2. Before(At(i), l)
        BY <4>1, ZenonT(60) DEF Before
      <4> QED
        BY <1>1, <3>1, <3>3, <4>2
    <3> QED
      BY <1>1, <3>2, <3>3, ZenonT(60)
  <2> QED
    BY <2>1, SMTT(60) DEF InOrder
<1>5. SmsPairs'
  <2>1. ASSUME NEW i \in 1..Len(lines'), lines'[i].kind = "sms"
        PROVE  i < Len(lines') /\ lines'[i + 1].id = 0
    <3>1. i \in 1..Len(lines)
      BY <1>0, <2>1
    <3>2. i < Len(lines) /\ lines[i + 1].id = 0
      BY <1>0, <2>1, <3>1, ZenonT(60) DEF Wire, SmsPairs
    <3> QED
      BY <1>0, <3>1, <3>2, SMTT(60)
  <2>2. ASSUME rpc' = "readPdu" PROVE lines' # <<>> /\ lines'[1].id = 0
    <3>1. lines # <<>> /\ lines[1].id = 0
      BY <2>2, ZenonT(60) DEF Wire, SmsPairs
    <3>2. 1 \in 1..Len(lines) /\ Len(lines') # 0
      BY <1>0, <3>1
    <3> QED
      BY <1>0, <3>1, <3>2, ZenonT(60)
  <2> QED
    BY <2>1, <2>2, ZenonT(60) DEF SmsPairs
<1> QED
  BY <1>2, <1>3, <1>4, <1>5, ZenonT(60) DEF Wire

(* An SMS and its PDU, which are part of no answer.                        *)
LEMMA WireEmitSms ==
  ASSUME TypeInv, Wire, NEW a \in Line, NEW b \in Line, lines' = lines \o <<a, b>>,
         rpc' = rpc, rline' = rline,
         a.id = 0, b.id = 0, Unasked(a), Unasked(b), b.kind # "sms"
  PROVE  Wire' /\ AnswerLines' = AnswerLines
<1>0. /\ lines \in Seq(Line) /\ Len(lines) \in Nat /\ Len(lines') = Len(lines) + 2
      /\ \A i \in 1..Len(lines) : lines'[i] = lines[i]
      /\ lines'[Len(lines) + 1] = a /\ lines'[Len(lines) + 2] = b
  BY WireTypes
<1>8. PICK m \in Nat : m = Len(lines) + 1
  BY <1>0, NextSerial, ZenonT(60)
<1>9. PICK n \in Nat : n = Len(lines) + 2
  BY <1>0, NextSerial, ZenonT(60)
<1>1. /\ Positions' = Positions \cup {m, n}
      /\ \A i \in Positions : At(i)' = At(i)
      /\ At(m)' = a /\ At(n)' = b
  <2>1. m # 0 /\ n # 0
    BY <1>0, <1>8, <1>9, NextSerial, ZenonT(60)
  <2>2. At(m)' = a /\ At(n)' = b
    BY <1>0, <1>8, <1>9, <2>1, ZenonT(60) DEF At
  <2>3. \A i \in Positions : At(i)' = At(i)
    <3>1. \A i \in Positions : i # 0 => i \in 1..Len(lines)
      BY <1>0, FromZero, ZenonT(60) DEF Positions
    <3> QED
      BY <1>0, <3>1, ZenonT(60) DEF At
  <2>4. Positions' = Positions \cup {m, n}
    <3>1. CASE rpc = "processLine"
      BY <1>0, <1>8, <1>9, <3>1, Neighbours, ZenonT(60) DEF Positions
    <3>2. CASE rpc # "processLine"
      BY <1>0, <1>8, <1>9, <3>2, Neighbours, ZenonT(60) DEF Positions
    <3> QED
      BY <3>1, <3>2, ZenonT(60)
  <2> QED
    BY <2>2, <2>3, <2>4, ZenonT(60)
<1>2. OnWire' = OnWire \cup {a, b}
  BY <1>1 DEF OnWire
<1>3. AnswerLines' = AnswerLines
  BY <1>2 DEF AnswerLines
<1>4. InOrder'
  BY <1>1, ZenonT(60) DEF Wire, InOrder, Before
<1>5. SmsPairs'
  <2>1. ASSUME NEW i \in 1..Len(lines'), lines'[i].kind = "sms"
        PROVE  i < Len(lines') /\ lines'[i + 1].id = 0
    <3>1. CASE i \in 1..Len(lines)
      <4>1. i < Len(lines) /\ lines[i + 1].id = 0
        BY <1>0, <2>1, <3>1, ZenonT(60) DEF Wire, SmsPairs
      <4> QED
        BY <1>0, <3>1, <4>1, Neighbours, ZenonT(60)
    <3>2. CASE i = Len(lines) + 1
      BY <1>0, <3>2, NextSerial, ZenonT(60)
    <3>3. i # Len(lines) + 2
      BY <1>0, <2>1, ZenonT(60)
    <3> QED
      BY <1>0, <3>1, <3>2, <3>3, Neighbours, ZenonT(60)
  <2>2. ASSUME rpc' = "readPdu" PROVE lines' # <<>> /\ lines'[1].id = 0
    <3>1. lines # <<>> /\ lines[1].id = 0
      BY <2>2, ZenonT(60) DEF Wire, SmsPairs
    <3>2. 1 \in 1..Len(lines) /\ Len(lines') # 0
      BY <1>0, <3>1
    <3> QED
      BY <1>0, <3>1, <3>2, ZenonT(60)
  <2> QED
    BY <2>1, <2>2, ZenonT(60) DEF SmsPairs
<1> QED
  BY <1>2, <1>3, <1>4, <1>5, ZenonT(60) DEF Wire

Results == result = [w \in Writers |-> result[w]]

(* A returned result that is in order.                                     *)
IsFine(r) == r # NoResult /\ r.err = "OK" /\ r.op # "handshake" => IsAnswerTo(r)

LEMMA ResultsStay ==
  ASSUME Results, AnswersItsCommand,
         result' = result \/ \E w \in Writers : \E r : IsFine(r) /\ result' = [result EXCEPT ![w] = r]
  PROVE  AnswersItsCommand'
<1>0. \A w \in Writers : IsFine(result[w])
  BY ZenonT(60) DEF AnswersItsCommand, IsFine
<1>1. \A w \in Writers : IsFine(result'[w])
  <2>1. CASE result' = result
    BY <1>0, <2>1
  <2>2. ASSUME NEW w \in Writers, NEW r, IsFine(r), result' = [result EXCEPT ![w] = r]
        PROVE  \A v \in Writers : IsFine(result'[v])
    <3>1. result' = [v \in Writers |-> IF v = w THEN r ELSE result[v]]
      BY <2>2, ZenonT(60) DEF Results
    <3> QED
      BY <1>0, <2>2, <3>1
  <2> QED
    BY <2>1, <2>2
<1> QED
  BY <1>1, ZenonT(60) DEF AnswersItsCommand, IsFine

(* A step that leaves the command in progress, its answer and its thread   *)
(* alone.                                                                  *)
LEMMA AnswersUntouched ==
  ASSUME Served, Collecting, HandshakeSleeps, AnswerLines' = AnswerLines,
         UNCHANGED <<serial, toModem, emitted, prompt>>,
         sp_response' = NULL \/ UNCHANGED <<sp_response, s_type, s_responsePrefix, s_smsPDU>>,
         \A v \in Writers :
           \/ ~Busy(v) /\ ~Busy(v)' /\ pc'[v] # "sleepMsec"
           \/ pc'[v] = pc[v] /\ op'[v] = op[v] /\ cid'[v] = cid[v]
           \/ Busy(v) /\ pc'[v] = "crashed" /\ op'[v] = op[v] /\ cid'[v] = cid[v]
  PROVE  Served' /\ Collecting' /\ HandshakeSleeps'
<1>1. \A v \in Writers : (Busy(v)' <=> Busy(v)) /\ (Busy(v) => op'[v] = op[v] /\ cid'[v] = cid[v])
  BY ZenonT(60) DEF Busy
<1>2. Served'
  <2>1. (\A w \in Writers : ~Busy(w)') => AnswerLines' = {} /\ toModem' = <<>>
    BY <1>1, ZenonT(60) DEF Served
  <2>2. ASSUME NEW w \in Writers, Busy(w)'
        PROVE  /\ cid'[w] = serial' /\ serial' > 0
               /\ toModem' # <<>> => toModem' = <<[id |-> serial', op |-> op'[w]]>>
               /\ \A l \in AnswerLines' : l.id = serial' /\ IsPart(l, op'[w])
    BY <1>1, <2>2, ZenonT(60) DEF Served
  <2>3. toModem' # <<>> => \A l \in AnswerLines' :
          /\ ~isFinalResponse(l)
          /\ l.kind = "text" => l.n <= emitted'
          /\ l.kind = "prompt" => prompt' = "sent"
    BY ZenonT(60) DEF Served
  <2> QED
    BY <2>1, <2>2, <2>3, ZenonT(60) DEF Served
<1>3. Collecting'
  <2>1. CASE sp_response' = NULL
    BY <2>1, ZenonT(60) DEF Collecting
  <2>2. CASE sp_response' # NULL
    <3>1. UNCHANGED <<sp_response, s_type, s_responsePrefix, s_smsPDU>>
      BY <2>2, ZenonT(60)
    <3>2. ASSUME NEW last PROVE Collected(last)' <=> Collected(last)
      BY <3>1, ZenonT(60) DEF Collected
    <3>3. \A w \in Writers : pc'[w] = "waiting" => pc[w] = "waiting" /\ op'[w] = op[w]
      BY ZenonT(60) DEF Busy
    <3>4. sp_response # NULL
      BY <2>2, <3>1, ZenonT(60)
    <3>7. Displaced' <=> Displaced
      BY <1>1, <3>1, ZenonT(60) DEF Displaced
    <3>5. AddsUp' /\ sp_response'.id = serial'
      BY <3>1, <3>2, <3>4, <3>7, ZenonT(60) DEF Collecting, AddsUp
    <3>6. ASSUME NEW w \in Writers, pc'[w] = "waiting"
          PROVE  /\ s_type' = TypeOf(op'[w]) /\ s_responsePrefix' = PrefixOf(op'[w])
                 /\ s_smsPDU' = NULL /\ op'[w] = "sms" =>
                      /\ \A l \in AnswerLines' : l.kind # "prompt"
                      /\ toModem' # <<>> => prompt' # "none"
      BY <3>1, <3>3, <3>4, <3>6, ZenonT(60) DEF Collecting
    <3> QED
      BY <3>5, <3>6, ZenonT(60) DEF Collecting
  <2> QED
    BY <2>1, <2>2, ZenonT(60)
<1>4. HandshakeSleeps'
  BY ZenonT(60) DEF HandshakeSleeps, Busy
<1> QED
  BY <1>2, <1>3, <1>4, ZenonT(60)

Answering ==
  /\ Wire /\ Served /\ Collecting /\ HandshakeSleeps /\ NoCrash
  /\ opens = 1 => strays = {}

(* The state in which a step starts.                                       *)
AnswerState == TypeInv /\ OwnerInv /\ Drained /\ Results /\ InStep /\ Answering /\ AnswersItsCommand

(* Writer w moves between places where it has no command on its way.       *)
LEMMA QuietMove ==
  ASSUME AnswerState, NEW w \in Writers, NEW l \in Locations, pc' = [pc EXCEPT ![w] = l],
         ~Busy(w), l \notin {"waiting", "crashed", "sleepMsec"},
         \A v \in Writers : v # w => op'[v] = op[v], cid' = cid,
         UNCHANGED <<serial, toModem, emitted, prompt, lines, rpc, rline, opens, strays>>,
         sp_response' = NULL \/ UNCHANGED <<sp_response, s_type, s_responsePrefix, s_smsPDU>>
  PROVE  Answering'
<1>0. pc \in [Writers -> Locations]
  BY PartsMakeType DEF AnswerState, Parts, WriterTypes
<1>1. Wire' /\ AnswerLines' = AnswerLines
  BY WireStays, ZenonT(60) DEF AnswerState, Answering
<1>2. \A v \in Writers :
        \/ ~Busy(v) /\ ~Busy(v)' /\ pc'[v] # "sleepMsec"
        \/ pc'[v] = pc[v] /\ op'[v] = op[v] /\ cid'[v] = cid[v]
  <2>1. pc'[w] = l
    BY <1>0, ZenonT(60)
  <2>2. ~Busy(w)'
    BY <2>1, ZenonT(60) DEF Busy
  <2>3. ASSUME NEW v \in Writers, v # w
        PROVE  pc'[v] = pc[v] /\ op'[v] = op[v] /\ cid'[v] = cid[v]
    BY <1>0, <2>3, ZenonT(60)
  <2> QED
    BY <2>1, <2>2, <2>3, ZenonT(60)
<1>3. Served' /\ Collecting' /\ HandshakeSleeps'
  BY <1>1, <1>2, AnswersUntouched, ZenonT(60) DEF AnswerState, Answering
<1>4. NoCrash'
  BY <1>0, ZenonT(60) DEF NoCrash, AnswerState, Answering
<1> QED
  BY <1>1, <1>3, <1>4, ZenonT(60) DEF AnswerState, Answering

(* A failing attempt is one, and the error it may return is not a success. *)
LEMMA QuietFailure ==
  ASSUME AnswerState, NEW w \in Writers, NEW err, err # "OK", FailWith(w, err), ~Busy(w),
         UNCHANGED <<op, cid, serial, toModem, emitted, prompt, lines, rpc, rline, opens, strays>>,
         sp_response' = NULL
  PROVE  Answering' /\ AnswersItsCommand'
<1>1. /\ \E l \in {"idle", "retry"} : pc' = [pc EXCEPT ![w] = l]
      /\ result' = result \/ result' = [result EXCEPT ![w] = [err |-> err, id |-> cid[w], op |-> op[w]]]
  BY ZenonT(60) DEF FailWith, ReturnFrom
<1>2. Answering'
  <2>1. {"idle", "retry"} \subseteq Locations \ {"waiting", "crashed", "sleepMsec"}
    BY ZenonT(60) DEF Locations
  <2> QED
    BY <1>1, <2>1, QuietMove, ZenonT(60)
<1>3. IsFine([err |-> err, id |-> cid[w], op |-> op[w]])
  BY ZenonT(60) DEF IsFine
<1> QED
  BY <1>1, <1>2, <1>3, ResultsStay, ZenonT(60) DEF AnswerState

(* Steps of a writer that has no command on its way, or learns nothing new *)
(* about it.                                                               *)
LEMMA WriterQuiet ==
  ASSUME AnswerState, NEW w \in Writers,
         \/ \E o \in Ops : Call(w, o)
         \/ LockWrite(w) \/ SendFails(w) \/ HandshakeDone(w)
         \/ ResumeOnNull(w) \/ ResumeAndWait(w) \/ SpuriousWakeup(w)
  PROVE  Answering' /\ AnswersItsCommand'
<1> USE DEF chanVars, lockVars, writerVars, readerVars, mainVars, modemVars
<1>0. /\ pc \in [Writers -> Locations] /\ op \in [Writers -> EntryPoints \cup {NULL}]
      /\ Results /\ AnswersItsCommand /\ isInEmulator = 1
  BY PartsMakeType DEF AnswerState, Parts, WriterTypes, InStep
<1>f. IsFine(NoResult)
  BY DEF IsFine
<1>1. ASSUME NEW o \in Ops, Call(w, o) PROVE Answering' /\ AnswersItsCommand'
  <2>1. /\ pc[w] = "idle" /\ pc' = [pc EXCEPT ![w] = "lockWrite"] /\ op' = [op EXCEPT ![w] = o]
        /\ result' = [result EXCEPT ![w] = NoResult] /\ cid' = cid
        /\ UNCHANGED <<serial, toModem, emitted, prompt, lines, rpc, rline, opens, strays>>
        /\ UNCHANGED <<sp_response, s_type, s_responsePrefix, s_smsPDU>>
    BY <1>0, <1>1, ZenonT(60) DEF Call
  <2>2. \A v \in Writers : v # w => op'[v] = op[v]
    BY <1>0, <2>1, ZenonT(60)
  <2>3. ~Busy(w) /\ "lockWrite" \in Locations
    BY <2>1 DEF Busy, Locations
  <2>4. Answering'
    BY <2>1, <2>2, <2>3, QuietMove, ZenonT(60)
  <2> QED
    BY <1>0, <1>f, <2>1, <2>4, ResultsStay, ZenonT(60)
<1>2. ASSUME LockWrite(w) PROVE Answering' /\ AnswersItsCommand'
  <2>1. /\ pc[w] = "lockWrite" /\ pc' = [pc EXCEPT ![w] = "lockCommand"]
        /\ UNCHANGED <<result, op, cid>>
        /\ UNCHANGED <<serial, toModem, emitted, prompt, lines, rpc, rline, opens, strays>>
        /\ UNCHANGED <<sp_response, s_type, s_responsePrefix, s_smsPDU>>
    BY <1>2, ZenonT(60) DEF LockWrite
  <2>3. ~Busy(w) /\ "lockCommand" \in Locations
    BY <2>1 DEF Busy, Locations
  <2>4. Answering'
    BY <2>1, <2>3, QuietMove, ZenonT(60)
  <2> QED
    BY <1>0, <2>1, <2>4, ResultsStay
<1>3. ASSUME SendFails(w) PROVE Answering' /\ AnswersItsCommand'
  <2>1. /\ pc[w] \in {"lockCommand", "retry"} /\ sp_response' = NULL
        /\ FailWith(w, "CHANNEL_CLOSED") \/ FailWith(w, "GENERIC")
        /\ UNCHANGED <<op, cid, serial, toModem, emitted, prompt, lines, rpc, rline, opens, strays>>
    BY <1>3, ZenonT(60) DEF SendFails, EntersNolock, clearPendingCommand
  <2>2. ~Busy(w)
    BY <2>1 DEF Busy
  <2> QED
    BY <2>1, <2>2, QuietFailure, ZenonT(60)
<1>4. ASSUME HandshakeDone(w) PROVE Answering' /\ AnswersItsCommand'
  <2> DEFINE r == [err |-> "OK", id |-> cid[w], op |-> op[w]]
  <2>1. /\ pc[w] = "sleepMsec" /\ pc' = [pc EXCEPT ![w] = "idle"]
        /\ UNCHANGED <<op, cid>> /\ result' = [result EXCEPT ![w] = r]
        /\ UNCHANGED <<serial, toModem, emitted, prompt, lines, rpc, rline, opens, strays>>
        /\ UNCHANGED <<sp_response, s_type, s_responsePrefix, s_smsPDU>>
    BY <1>4, ZenonT(60) DEF HandshakeDone, ReturnFrom
  <2>2. op[w] = "handshake"
    BY <2>1, ZenonT(60) DEF AnswerState, Answering, HandshakeSleeps
  <2>3. ~Busy(w) /\ "idle" \in Locations
    BY <2>1, ZenonT(60) DEF Busy, Locations
  <2>4. Answering'
    BY <2>1, <2>3, QuietMove, ZenonT(60)
  <2>5. IsFine(r)
    BY <2>2, ZenonT(60) DEF IsFine
  <2> HIDE DEF r
  <2> QED
    BY <1>0, <2>1, <2>4, <2>5, ResultsStay, ZenonT(60)
<1>5. ASSUME \/ ResumeOnNull(w) \/ ResumeAndWait(w) \/ SpuriousWakeup(w)
      PROVE  Answering' /\ AnswersItsCommand'
  <2>1. /\ UNCHANGED <<result, op, cid>>
        /\ UNCHANGED <<serial, toModem, emitted, prompt, lines, rpc, rline, opens, strays>>
        /\ UNCHANGED <<sp_response, s_type, s_responsePrefix, s_smsPDU>>
    BY <1>5, ZenonT(60) DEF ResumeOnNull, ResumeAndWait, SpuriousWakeup
  <2>2. \/ pc' = pc
        \/ pc[w] = "waiting" /\ sp_response = NULL /\ pc' = [pc EXCEPT ![w] = "crashed"]
    BY <1>5, ZenonT(60) DEF ResumeOnNull, ResumeAndWait, SpuriousWakeup, Wakes
  <2>3. Wire' /\ AnswerLines' = AnswerLines
    BY <2>1, WireStays, ZenonT(60) DEF AnswerState, Answering
  <2>4. \A v \in Writers :
          \/ pc'[v] = pc[v] /\ op'[v] = op[v] /\ cid'[v] = cid[v]
          \/ Busy(v) /\ pc'[v] = "crashed" /\ op'[v] = op[v] /\ cid'[v] = cid[v]
    BY <1>0, <2>1, <2>2 DEF Busy
  <2>5. Served' /\ Collecting' /\ HandshakeSleeps'
    BY <2>1, <2>3, <2>4, AnswersUntouched, ZenonT(60) DEF AnswerState, Answering
  <2>6. NoCrash'
    BY <1>0, <2>1, <2>2, ZenonT(60) DEF NoCrash, AnswerState, Answering, OwnerInv,
       WaiterOwnsResponseUntilReopen, WaiterOwnsResponse
  <2>7. AnswersItsCommand'
    BY <1>0, <2>1, ResultsStay, ZenonT(60)
  <2> QED
    BY <2>1, <2>3, <2>5, <2>6, <2>7 DEF AnswerState, Answering
<1> QED
  BY <1>1, <1>2, <1>3, <1>4, <1>5, ZenonT(60)

(* A step of the reader, the main loop or the modem that takes nothing     *)
(* from the answer and adds nothing to it.                                 *)
LEMMA OthersQuiet ==
  ASSUME AnswerState, Wire', AnswerLines' = AnswerLines,
         UNCHANGED <<writerVars, serial, toModem, emitted, prompt>>,
         sp_response' = NULL \/ UNCHANGED <<sp_response, s_type, s_responsePrefix, s_smsPDU>>,
         opens' = 1 => opens = 1 /\ strays' = strays
  PROVE  Answering' /\ AnswersItsCommand'
<1>1. UNCHANGED <<pc, op, cid, result>>
  BY DEF writerVars
<1>2. Served' /\ Collecting' /\ HandshakeSleeps'
  BY <1>1, AnswersUntouched, ZenonT(60) DEF AnswerState, Answering
<1>3. NoCrash' /\ (opens' = 1 => strays' = {})
  BY <1>1, ZenonT(60) DEF NoCrash, AnswerState, Answering
<1>4. AnswersItsCommand'
  BY <1>1, ResultsStay DEF AnswerState
<1> QED
  BY <1>2, <1>3, <1>4, ZenonT(60) DEF Answering

LEMMA ReaderQuiet ==
  ASSUME AnswerState,
         ReadLine \/ ReadPdu \/ ReadEof \/ onReaderClosed \/ CloseFd \/ at_close \/ SetClosed
  PROVE  Answering' /\ AnswersItsCommand'
<1> USE DEF chanVars, lockVars, mainVars, modemVars
<1>1. ASSUME ReadLine PROVE Answering' /\ AnswersItsCommand'
  <2>1. /\ rpc = "read" /\ lines # <<>> /\ rline' = Head(lines) /\ lines' = Tail(lines)
        /\ rpc' = IF Head(lines).kind = "sms" THEN "readPdu" ELSE "processLine"
        /\ UNCHANGED <<writerVars, serial, toModem, emitted, prompt, opens, strays>>
        /\ UNCHANGED <<sp_response, s_type, s_responsePrefix, s_smsPDU>>
    BY <1>1, ZenonT(60) DEF ReadLine
  <2>2. Wire' /\ AnswerLines' = AnswerLines
    BY <2>1, WireRead, ZenonT(60) DEF AnswerState, Answering
  <2> QED
    BY <2>1, <2>2, OthersQuiet
<1>2. ASSUME ReadPdu PROVE Answering' /\ AnswersItsCommand'
  <2>1. /\ rpc = "readPdu" /\ lines # <<>> /\ lines' = Tail(lines) /\ rpc' = "read"
        /\ handleUnsolicited(Head(lines))
        /\ UNCHANGED <<writerVars, serial, toModem, emitted, prompt, opens>>
        /\ UNCHANGED <<sp_response, s_type, s_responsePrefix, s_smsPDU>>
    BY <1>2, ZenonT(60) DEF ReadPdu
  <2>2. Wire' /\ AnswerLines' = AnswerLines
    BY <2>1, WireRead, ZenonT(60) DEF AnswerState, Answering
  <2>3. Head(lines) = lines[1] /\ lines[1].id = 0
    BY <2>1, WireTypes DEF AnswerState, Answering, Wire, SmsPairs
  <2>4. strays' = strays
    BY <2>1, <2>3, ZenonT(60) DEF handleUnsolicited
  <2> QED
    BY <2>1, <2>2, <2>4, OthersQuiet
<1>3. ASSUME ReadEof \/ onReaderClosed \/ CloseFd \/ at_close \/ SetClosed
      PROVE  Answering' /\ AnswersItsCommand'
  <2>1. /\ rpc \notin {"processLine"} /\ rpc' \notin {"processLine", "readPdu"} /\ lines' = lines
        /\ UNCHANGED <<writerVars, serial, toModem, emitted, prompt, opens, strays>>
        /\ UNCHANGED <<sp_response, s_type, s_responsePrefix, s_smsPDU>>
    BY <1>3, ZenonT(60) DEF ReadEof, onReaderClosed, CloseFd, at_close, SetClosed, MarkClosed
  <2>2. Wire' /\ AnswerLines' = AnswerLines
    BY <2>1, WireStays, ZenonT(60) DEF AnswerState, Answering
  <2> QED
    BY <2>1, <2>2, OthersQuiet
<1> QED
  BY <1>1, <1>2, <1>3, ZenonT(60)

LEMMA MainQuiet ==
  ASSUME AnswerState, MainStep
  PROVE  Answering' /\ AnswersItsCommand'
<1>0. opens \in Nat /\ opens # 0 /\ (mpc # "waitForClose" => opens # 1)
  BY PartsMakeType DEF AnswerState, Parts, MainTypes, OwnerInv, FirstConnection
<1>1. /\ lines' = lines /\ UNCHANGED <<writerVars, serial, toModem, emitted, prompt, strays>>
      /\ sp_response' = NULL \/ UNCHANGED <<sp_response, s_type, s_responsePrefix, s_smsPDU>>
  BY ZenonT(60) DEF MainStep, OpenFd, ResetState, CreateReader, clearPendingCommand, chanVars, modemVars
<1>2. opens' # 1
  BY <1>0 DEF MainStep, OpenFd, ResetState, CreateReader
<1>3. UNCHANGED <<rpc, rline>> \/ (rpc = "exited" /\ rpc' = "read")
  BY ZenonT(60) DEF MainStep, OpenFd, ResetState, CreateReader, readerVars, AnswerState, Drained
<1>4. Wire' /\ AnswerLines' = AnswerLines
  BY <1>1, <1>3, WireStays DEF AnswerState, Answering
<1> QED
  BY <1>1, <1>2, <1>4, OthersQuiet, ZenonT(60)

(* A queue of one command.                                                 *)
LEMMA HeadOfOne == ASSUME NEW x, NEW s, s = <<x>> PROVE Head(s) = x /\ Tail(s) = <<>>
  OBVIOUS

(* While the modem has a command there is a thread that waits for it, and  *)
(* its response is not complete.                                           *)
LEMMA ModemServes ==
  ASSUME AnswerState, toModem # <<>>
  PROVE  /\ Current.id = serial /\ serial > 0 /\ serial \in Nat
         /\ Current.op \in EntryPoints /\ Tail(toModem) = <<>>
         /\ \A w \in Writers : Busy(w) => op[w] = Current.op /\ cid[w] = serial
         /\ \E w \in Writers : Busy(w)
         /\ \A l \in AnswerLines :
              /\ l \in Line /\ l.id = serial /\ IsPart(l, Current.op) /\ ~isFinalResponse(l)
              /\ l.kind = "text" => l.n <= emitted
              /\ l.kind = "prompt" => prompt = "sent"
         /\ emitted \in Nat
<1>1. PICK w \in Writers : Busy(w)
  BY ZenonT(60) DEF AnswerState, Answering, Served
<1>2. toModem = <<[id |-> serial, op |-> op[w]]>> /\ serial > 0
  BY <1>1, ZenonT(60) DEF AnswerState, Answering, Served
<1>3. Head(toModem) = [id |-> serial, op |-> op[w]] /\ Tail(toModem) = <<>>
  BY <1>2, HeadOfOne, ZenonT(60)
<1>4. Current.id = serial /\ Current.op = op[w]
  <2>1. Current = [id |-> serial, op |-> op[w]]
    BY <1>3, ZenonT(60) DEF Current
  <2>2. /\ [id |-> serial, op |-> op[w]].id = serial
        /\ [id |-> serial, op |-> op[w]].op = op[w]
    BY ZenonT(60)
  <2> QED
    BY <2>1, <2>2, ZenonT(60)
<1>5. ASSUME NEW v \in Writers, Busy(v) PROVE op[v] = Current.op /\ cid[v] = serial
  <2>1. toModem = <<[id |-> serial, op |-> op[v]]>> /\ cid[v] = serial
    BY <1>5, ZenonT(60) DEF AnswerState, Answering, Served
  <2>2. Current = [id |-> serial, op |-> op[v]]
    BY <2>1, HeadOfOne, ZenonT(60) DEF Current
  <2>3. [id |-> serial, op |-> op[v]].op = op[v]
    BY ZenonT(60)
  <2> QED
    BY <2>1, <2>2, <2>3, ZenonT(60)
<1>6. serial \in Nat /\ emitted \in Nat /\ op[w] \in EntryPoints
  BY <1>1, PartsMakeType, ZenonT(60) DEF AnswerState, Parts, CountTypes, ModemTypes, WriterTypes, CallHasOp, Busy
<1>7. ASSUME NEW l \in AnswerLines
      PROVE  /\ l \in Line /\ l.id = serial /\ IsPart(l, Current.op) /\ ~isFinalResponse(l)
             /\ l.kind = "text" => l.n <= emitted
             /\ l.kind = "prompt" => prompt = "sent"
  <2>1. l \in Line
    BY WireTypes DEF AnswerState
  <2>2. l.id = serial /\ IsPart(l, Current.op)
    BY <1>1, <1>4, ZenonT(60) DEF AnswerState, Answering, Served
  <2>3. /\ ~isFinalResponse(l)
        /\ l.kind = "text" => l.n <= emitted
        /\ l.kind = "prompt" => prompt = "sent"
    BY ZenonT(60) DEF AnswerState, Answering, Served
  <2> QED
    BY <2>1, <2>2, <2>3
<1> QED
  BY <1>1, <1>2, <1>3, <1>4, <1>5, <1>6, <1>7, ZenonT(60)

(* What is common to the modem's three answers: the line l goes on the     *)
(* wire, and what is left is that the response still adds up.              *)
LEMMA AnswerGrows ==
  ASSUME AnswerState, toModem # <<>>, NEW l \in Line, l.id = serial, l.kind # "sms",
         IsPart(l, Current.op), \A a \in AnswerLines : Before(a, l),
         Emit(<<l>>), UNCHANGED modemOther, toModem' \in {toModem, <<>>},
         toModem' # <<>> =>
           /\ ~isFinalResponse(l) /\ emitted' \in Nat /\ emitted <= emitted'
           /\ l.kind = "text" => l.n <= emitted'
           /\ prompt' = prompt \/ prompt = "none"
           /\ l.kind = "prompt" => prompt' = "sent",
         sp_response # NULL /\ AnswerLines' = AnswerLines \cup {l} => Collecting'
  PROVE  Answering' /\ AnswersItsCommand' /\ AnswerLines' = AnswerLines \cup {l}
<1>1. /\ UNCHANGED <<writerVars, pc, op, cid, result, serial, opens, strays, sp_response, rpc, rline>>
  BY ZenonT(60) DEF modemOther, writerVars, chanVars, mainVars, readerVars
<1>2. l.id # 0 /\ Unasked(l)
  <2>1. serial > 0 /\ serial \in Nat
    BY ModemServes, ZenonT(60)
  <2>2. serial # 0
    BY <2>1
  <2>3. l.id # 0
    BY <2>2, ZenonT(60)
  <2> QED
    BY <2>3, ZenonT(60) DEF Unasked
<1>3. Wire' /\ AnswerLines' = AnswerLines \cup {l}
  <2>1. Wire' /\ AnswerLines' = AnswerLines \cup {x \in {l} : x.id # 0}
    BY <1>1, <1>2, WireEmit DEF AnswerState, Answering, Emit
  <2> QED
    BY <1>2, <2>1, ZenonT(60)
<1>4. Served'
  <2>0. \A v \in Writers : Busy(v)' <=> Busy(v)
    BY <1>1 DEF Busy
  <2>1. \E v \in Writers : Busy(v)'
    BY <2>0, ModemServes, ZenonT(60)
  <2>2. ASSUME NEW w \in Writers, Busy(w)'
        PROVE  /\ cid'[w] = serial' /\ serial' > 0
               /\ toModem' # <<>> => toModem' = <<[id |-> serial', op |-> op'[w]]>>
               /\ \A a \in AnswerLines' : a.id = serial' /\ IsPart(a, op'[w])
    <3>1. Busy(w)
      BY <2>0, <2>2, ZenonT(60)
    <3>2. cid'[w] = serial' /\ serial' > 0 /\ op'[w] = Current.op
      BY <1>1, <3>1, ModemServes, ZenonT(60)
    <3>3. toModem' # <<>> => toModem' = <<[id |-> serial', op |-> op'[w]]>>
      BY <1>1, <3>1, ZenonT(60) DEF AnswerState, Answering, Served
    <3>4. \A a \in AnswerLines' : a.id = serial' /\ IsPart(a, op'[w])
      BY <1>1, <1>3, <3>2, ModemServes, ZenonT(60)
    <3> QED
      BY <3>2, <3>3, <3>4, ZenonT(60)
  <2>3. ASSUME toModem' # <<>>, NEW a \in AnswerLines'
        PROVE  /\ ~isFinalResponse(a)
               /\ a.kind = "text" => a.n <= emitted'
               /\ a.kind = "prompt" => prompt' = "sent"
    <3>1. CASE a = l
      BY <2>3, <3>1, ZenonT(60)
    <3>2. CASE a \in AnswerLines
      <4>1. a.n \in Nat /\ emitted \in Nat /\ emitted' \in Nat
        <5>1. a \in Line /\ emitted \in Nat
          BY <3>2, ModemServes, ZenonT(60)
        <5>2. a.n \in Nat
          BY <5>1, ZenonT(60) DEF Line
        <5>3. emitted' \in Nat
          BY <2>3, ZenonT(60)
        <5> QED
          BY <5>1, <5>2, <5>3, ZenonT(60)
      <4>2. /\ ~isFinalResponse(a)
            /\ a.kind = "text" => a.n <= emitted
            /\ a.kind = "prompt" => prompt = "sent"
        BY <3>2, ModemServes, ZenonT(60)
      <4> QED
        BY <2>3, <4>1, <4>2, SMTT(60)
    <3> QED
      BY <1>3, <3>1, <3>2, ZenonT(60)
  <2> QED
    BY <2>1, <2>2, <2>3, ZenonT(60) DEF Served
<1>5. Collecting'
  BY <1>1, <1>3, ZenonT(60) DEF Collecting
<1>6. NoCrash' /\ HandshakeSleeps' /\ (opens' = 1 => strays' = {})
  BY <1>1, ZenonT(60) DEF AnswerState, Answering, NoCrash, HandshakeSleeps
<1>7. AnswersItsCommand'
  BY <1>1, ResultsStay, ZenonT(60) DEF AnswerState
<1> QED
  BY <1>3, <1>4, <1>5, <1>6, <1>7, ZenonT(60) DEF Answering

(* A displaced response stays one until the final line comes.              *)
LEMMA DisplacedStays ==
  ASSUME Displaced, UNCHANGED <<pc, op, serial, sp_response>>,
         \/ sp_response.final = NULL
         \/ AnswerLines' \subseteq AnswerLines /\ toModem' \in {toModem, <<>>}
  PROVE  Displaced'
  BY ZenonT(60) DEF Displaced, Busy

(* The response adds up again when its numbers do.                         *)
LEMMA CollectGrows ==
  ASSUME AnswerState, toModem # <<>>, sp_response # NULL, UNCHANGED modemOther,
         NEW l, AnswerLines' = AnswerLines \cup {l},
         Displaced \/ \E last \in Nat : Collected(last)',
         s_smsPDU = NULL /\ Current.op = "sms" /\ prompt # "none" =>
           l.kind # "prompt" /\ (toModem' # <<>> => prompt' = prompt)
  PROVE  Collecting'
<1>1. UNCHANGED <<pc, op, serial, sp_response, s_type, s_responsePrefix, s_smsPDU>>
  BY ZenonT(60) DEF modemOther, writerVars, chanVars
<1>2. sp_response'.id = serial'
  BY <1>1, ZenonT(60) DEF AnswerState, Answering, Collecting
<1>3. ASSUME NEW w \in Writers, pc'[w] = "waiting"
      PROVE  /\ s_type' = TypeOf(op'[w]) /\ s_responsePrefix' = PrefixOf(op'[w])
             /\ s_smsPDU' = NULL /\ op'[w] = "sms" =>
                  /\ \A a \in AnswerLines' : a.kind # "prompt"
                  /\ toModem' # <<>> => prompt' # "none"
  <2>1. pc[w] = "waiting" /\ op'[w] = op[w] /\ op[w] = Current.op
    BY <1>1, <1>3, ModemServes, ZenonT(60) DEF Busy
  <2>2. /\ s_type = TypeOf(op[w]) /\ s_responsePrefix = PrefixOf(op[w])
        /\ s_smsPDU = NULL /\ op[w] = "sms" =>
             /\ \A a \in AnswerLines : a.kind # "prompt"
             /\ prompt # "none"
    BY <2>1, ZenonT(60) DEF AnswerState, Answering, Collecting
  <2> QED
    BY <1>1, <2>1, <2>2, ZenonT(60)
<1>4. ASSUME Displaced PROVE Displaced'
  <2>1. sp_response.final = NULL
    BY <1>4, ZenonT(60) DEF Displaced
  <2> QED
    BY <1>1, <1>4, <2>1, DisplacedStays, ZenonT(60)
<1> QED
  BY <1>1, <1>2, <1>3, <1>4, ZenonT(60) DEF Collecting, AddsUp

(* The answer in progress as the modem left it.                            *)
LEMMA CollectedSoFar ==
  ASSUME AnswerState, toModem # <<>>, sp_response # NULL, ~Displaced
  PROVE  /\ Collected(emitted) /\ sp_response.final = NULL
         /\ sp_response.inter \in Seq(Line) /\ Len(sp_response.inter) \in Nat
         /\ Len(sp_response.inter) <= emitted
<1>1. PICK last \in Nat : Collected(last)
  BY ZenonT(60) DEF AnswerState, Answering, Collecting, AddsUp
<1>2. emitted = last /\ sp_response.final = NULL /\ Len(sp_response.inter) <= last
  BY <1>1, ZenonT(60) DEF Collected
<1>3. sp_response \in Response
  BY PartsMakeType, ZenonT(60) DEF AnswerState, Parts, ChanTypes
<1>4. sp_response.inter \in Seq(Line)
  BY <1>3, ZenonT(60) DEF Response
<1> QED
  BY <1>1, <1>2, <1>4, SMTT(60)

LEMMA IntermediateAnswers ==
  ASSUME AnswerState, ModemIntermediate
  PROVE  Answering' /\ AnswersItsCommand'
<1> DEFINE pre == IF Current.op = "numeric" THEN "digit" ELSE PrefixOf(Current.op)
<1> DEFINE l == [kind |-> "text", prefix |-> pre, id |-> Current.id, n |-> emitted + 1]
<1>1. /\ toModem # <<>>
      /\ Current.op \in {"singleline", "registration", "numeric", "multiline", "sms"}
      /\ emitted < IF Current.op = "multiline" THEN MaxInter ELSE 1
      /\ Emit(<<l>>) /\ emitted' = emitted + 1 /\ UNCHANGED <<toModem, prompt, modemOther>>
  BY ZenonT(60) DEF ModemIntermediate
<1>2. emitted \in Nat /\ serial \in Nat /\ Current.id = serial
  BY <1>1, ModemServes, ZenonT(60)
<1>3. /\ l \in Line /\ l.id = serial /\ l.kind = "text" /\ l.n = emitted + 1
      /\ l.prefix = IF Current.op = "numeric" THEN "digit" ELSE PrefixOf(Current.op)
  <2>1. emitted + 1 \in Nat
    BY <1>2
  <2>2. pre \in {"digit", "resp", "CREG"}
    BY <1>1 DEF PrefixOf
  <2> HIDE DEF pre
  <2>4. l \in Line
    BY <1>2, <2>1, <2>2, ZenonT(60) DEF Line
  <2> USE DEF pre
  <2>3. l \in Line
    BY <2>4, ZenonT(60)
  <2> QED
    BY <1>2, <2>3, ZenonT(60)
<1> HIDE DEF l, pre
<1>4. IsPart(l, Current.op) /\ ~isFinalResponse(l)
  BY <1>1, <1>2, <1>3 DEF IsPart, isFinalResponse
<1>5. \A a \in AnswerLines : Before(a, l)
  <2>1. ASSUME NEW a \in AnswerLines PROVE Before(a, l)
    <3>1. ~isFinalResponse(a) /\ (a.kind = "text" => a.n <= emitted) /\ a.n \in Nat
      BY <1>1, ModemServes, ZenonT(60) DEF Line
    <3> QED
      BY <1>2, <1>3, <3>1 DEF Before
  <2> QED
    BY <2>1, ZenonT(60)
<1>6. ASSUME sp_response # NULL, AnswerLines' = AnswerLines \cup {l} PROVE Collecting'
  <2>0. SUFFICES ASSUME ~Displaced PROVE \E last \in Nat : Collected(last)'
    BY <1>1, <1>2, <1>3, <1>6, CollectGrows, ZenonT(60)
  <2>1. /\ Collected(emitted) /\ sp_response.final = NULL /\ Len(sp_response.inter) \in Nat
        /\ Len(sp_response.inter) <= emitted
    BY <1>1, <1>6, <2>0, CollectedSoFar, ZenonT(60)
  <2>2. sp_response' = sp_response /\ serial' = serial
    BY <1>1 DEF modemOther, chanVars
  <2> DEFINE m == Len(sp_response.inter)
  <2>3. m <= emitted + 1
    BY <1>2, <2>1
  <2>4. \A i \in 1..m : sp_response.inter[i].id = serial /\ sp_response.inter[i].n = m + 1 - i
    BY <2>1, ZenonT(60) DEF Collected
  <2>5. ASSUME NEW a \in AnswerLines'
        PROVE  /\ a.kind = "text" => m < a.n /\ a.n <= emitted + 1
               /\ isFinalResponse(a) => a.n = emitted + 1
    <3>1. CASE a = l
      BY <1>2, <1>3, <1>4, <2>1, <3>1
    <3>2. CASE a \in AnswerLines
      <4>1. a.n \in Nat /\ ~isFinalResponse(a)
        BY <1>1, <3>2, ModemServes, ZenonT(60) DEF Line
      <4>2. a.kind = "text" => m < a.n /\ a.n <= emitted
        BY <2>1, <3>2, ZenonT(60) DEF Collected
      <4> QED
        BY <1>2, <4>1, <4>2, SMTT(60)
    <3> QED
      BY <1>6, <3>1, <3>2, ZenonT(60)
  <2>6. ASSUME NEW k \in (m + 1)..(emitted + 1)
        PROVE  \E a \in AnswerLines' : a.kind = "text" /\ a.n = k
    <3>1. CASE k = emitted + 1
      BY <1>3, <1>6, <3>1, ZenonT(60)
    <3>2. CASE k \in (m + 1)..emitted
      BY <1>6, <2>1, <3>2, ZenonT(60) DEF Collected
    <3> QED
      BY <1>2, <2>1, <3>1, <3>2
  <2>7. PICK last \in Nat : last = emitted + 1
    BY <1>2
  <2>8. Collected(last)'
    BY <1>1, <2>1, <2>2, <2>3, <2>4, <2>5, <2>6, <2>7, ZenonT(60) DEF Collected
  <2> QED
    BY <2>8, ZenonT(60)
<1> QED
  BY <1>1, <1>2, <1>3, <1>4, <1>5, <1>6, AnswerGrows

(* The "> " prompt is part of no line count.                               *)
LEMMA PromptAnswers ==
  ASSUME AnswerState, ModemPrompt
  PROVE  Answering' /\ AnswersItsCommand'
<1> DEFINE l == [kind |-> "prompt", prefix |-> "none", id |-> Current.id, n |-> 0]
<1>1. /\ toModem # <<>> /\ Current.op = "sms" /\ prompt = "none" /\ prompt' = "sent"
      /\ Emit(<<l>>) /\ UNCHANGED <<toModem, emitted, modemOther>>
  BY ZenonT(60) DEF ModemPrompt
<1>2. emitted \in Nat /\ serial \in Nat /\ Current.id = serial
  BY <1>1, ModemServes, ZenonT(60)
<1>3. l \in Line /\ l.id = serial /\ l.kind = "prompt"
  BY <1>1, <1>2, ZenonT(60) DEF Line
<1> HIDE DEF l
<1>4. IsPart(l, Current.op) /\ ~isFinalResponse(l)
  BY <1>1, <1>2, <1>3, ZenonT(60) DEF IsPart, isFinalResponse
<1>5. \A a \in AnswerLines : Before(a, l)
  <2>1. ASSUME NEW a \in AnswerLines PROVE Before(a, l)
    <3>1. ~isFinalResponse(a) /\ a.kind # "prompt"
      BY <1>1, ModemServes, ZenonT(60)
    <3> QED
      BY <1>3, <3>1 DEF Before
  <2> QED
    BY <2>1, ZenonT(60)
<1>6. ASSUME sp_response # NULL, AnswerLines' = AnswerLines \cup {l} PROVE Collecting'
  <2>0. SUFFICES ASSUME ~Displaced PROVE \E last \in Nat : Collected(last)'
    BY <1>1, <1>2, <1>3, <1>6, CollectGrows, ZenonT(60)
  <2>1. Collected(emitted) /\ sp_response.final = NULL
    BY <1>1, <1>6, <2>0, CollectedSoFar, ZenonT(60)
  <2>2. sp_response' = sp_response /\ serial' = serial
    BY <1>1 DEF modemOther, chanVars
  <2>7. PICK last \in Nat : last = emitted
    BY <1>2
  <2>8. Collected(last)'
    BY <1>1, <1>3, <1>4, <1>6, <2>1, <2>2, <2>7, ZenonT(60) DEF Collected
  <2> QED
    BY <2>8, ZenonT(60)
<1> QED
  BY <1>1, <1>2, <1>3, <1>4, <1>5, <1>6, AnswerGrows

(* The final line carries the number of lines before it.                   *)
LEMMA FinalAnswers ==
  ASSUME AnswerState, NEW k \in {"ok", "error"}, ModemFinal(k)
  PROVE  Answering' /\ AnswersItsCommand'
<1> DEFINE l == [kind |-> k, prefix |-> "none", id |-> Current.id, n |-> emitted]
<1>1. /\ toModem # <<>> /\ Emit(<<l>>) /\ toModem' = Tail(toModem) /\ UNCHANGED modemOther
  BY ZenonT(60) DEF ModemFinal
<1>2. emitted \in Nat /\ serial \in Nat /\ Current.id = serial /\ toModem' = <<>>
  BY <1>1, ModemServes, ZenonT(60)
<1>3. l \in Line /\ l.id = serial /\ l.kind \in {"ok", "error"} /\ l.n = emitted
  BY <1>1, <1>2, ZenonT(60) DEF Line
<1> HIDE DEF l
<1>4. IsPart(l, Current.op) /\ isFinalResponse(l)
  BY <1>3 DEF IsPart, isFinalResponse
<1>5. \A a \in AnswerLines : Before(a, l)
  <2>1. ASSUME NEW a \in AnswerLines PROVE Before(a, l)
    <3>1. ~isFinalResponse(a)
      BY <1>1, ModemServes, ZenonT(60)
    <3> QED
      BY <1>3, <3>1, ZenonT(60) DEF Before
  <2> QED
    BY <2>1
<1>6. ASSUME sp_response # NULL, AnswerLines' = AnswerLines \cup {l} PROVE Collecting'
  <2>9. l.kind # "prompt"
    BY <1>3
  <2>0. SUFFICES ASSUME ~Displaced PROVE \E last \in Nat : Collected(last)'
    BY <1>1, <1>2, <1>6, <2>9, CollectGrows, ZenonT(60)
  <2>1. Collected(emitted) /\ sp_response.final = NULL
    BY <1>1, <1>6, <2>0, CollectedSoFar, ZenonT(60)
  <2>2. sp_response' = sp_response /\ serial' = serial
    BY <1>1 DEF modemOther, chanVars
  <2>7. PICK last \in Nat : last = emitted
    BY <1>2
  <2>8. Collected(last)'
    BY <1>1, <1>2, <1>3, <1>4, <1>6, <2>1, <2>2, <2>7, ZenonT(60) DEF Collected
  <2> QED
    BY <2>8, ZenonT(60)
<1>7. l.kind # "sms"
  BY <1>3
<1> QED
  BY <1>1, <1>2, <1>3, <1>4, <1>5, <1>6, <1>7, AnswerGrows

(* What the modem says unasked is no part of an answer; a hang-up cuts     *)
(* the answer off.                                                         *)
LEMMA UnaskedQuiet ==
  ASSUME AnswerState, ModemUnasked
  PROVE  Answering' /\ AnswersItsCommand'
<1>1. ASSUME NEW p \in UnsolPrefixes, ModemUnsolicited(p) PROVE Answering' /\ AnswersItsCommand'
  <2> DEFINE l == [kind |-> IF p = "NO_CARRIER" THEN "error" ELSE "text", prefix |-> p, id |-> 0, n |-> 0]
  <2>1. Emit(<<l>>) /\ UNCHANGED <<toModem, emitted, prompt, modemOther>>
    BY <1>1, ZenonT(60) DEF ModemUnsolicited
  <2>2. p \in {"unsol", "CREG", "NO_CARRIER"}
    BY AtAssumption, ZenonT(60)
  <2>3. l \in Line /\ l.id = 0 /\ l.kind \in {"text", "error"} /\ l.prefix = p
    BY <2>2, ZenonT(60) DEF Line
  <2> HIDE DEF l
  <2>4. Unasked(l) /\ \A a \in AnswerLines : Before(a, l)
    BY <2>3 DEF Unasked, Before
  <2>5. /\ UNCHANGED <<writerVars, serial, opens, strays, rpc, rline>>
        /\ UNCHANGED <<sp_response, s_type, s_responsePrefix, s_smsPDU>>
    BY <2>1, ZenonT(60) DEF modemOther, chanVars, mainVars, readerVars
  <2>6. Wire' /\ AnswerLines' = AnswerLines \cup {x \in {l} : x.id # 0}
    BY <2>1, <2>3, <2>4, <2>5, WireEmit, ZenonT(60) DEF AnswerState, Answering, Emit
  <2>7. AnswerLines' = AnswerLines
    BY <2>3, <2>6, ZenonT(60)
  <2> QED
    BY <2>1, <2>5, <2>6, <2>7, OthersQuiet, ZenonT(60)
<1>2. ASSUME ModemSms PROVE Answering' /\ AnswersItsCommand'
  <2> DEFINE a == [kind |-> "sms",  prefix |-> "unsol", id |-> 0, n |-> 0]
  <2> DEFINE b == [kind |-> "text", prefix |-> "none",  id |-> 0, n |-> 0]
  <2>1. Emit(<<a, b>>) /\ UNCHANGED <<toModem, emitted, prompt, modemOther>>
    BY <1>2, ZenonT(60) DEF ModemSms
  <2>3. /\ a \in Line /\ a.id = 0 /\ a.kind = "sms" /\ a.prefix = "unsol"
        /\ b \in Line /\ b.id = 0 /\ b.kind = "text" /\ b.prefix = "none"
    BY ZenonT(60) DEF Line
  <2> HIDE DEF a, b
  <2>4. Unasked(a) /\ Unasked(b)
    BY <2>3 DEF Unasked
  <2>5. /\ UNCHANGED <<writerVars, serial, opens, strays, rpc, rline>>
        /\ UNCHANGED <<sp_response, s_type, s_responsePrefix, s_smsPDU>>
    BY <2>1, ZenonT(60) DEF modemOther, chanVars, mainVars, readerVars
  <2>6. Wire' /\ AnswerLines' = AnswerLines
    BY <2>1, <2>3, <2>4, <2>5, WireEmitSms, ZenonT(60) DEF AnswerState, Answering, Emit
  <2> QED
    BY <2>1, <2>5, <2>6, OthersQuiet
<1>3. ASSUME ModemHangup PROVE Answering' /\ AnswersItsCommand'
  <2>1. /\ toModem' = <<>> /\ lines' = lines
        /\ UNCHANGED <<pc, op, cid, result, serial, opens, strays, rpc, rline>>
        /\ UNCHANGED <<sp_response, s_type, s_responsePrefix, s_smsPDU>>
    BY <1>3, ZenonT(60) DEF ModemHangup, modemOther, chanVars, mainVars, readerVars, writerVars
  <2>2. Wire' /\ AnswerLines' = AnswerLines
    BY <2>1, WireStays DEF AnswerState, Answering
  <2>3. Served'
    BY <2>1, <2>2, ZenonT(60) DEF AnswerState, Answering, Served, Busy
  <2>4. ASSUME NEW last \in Nat, Collected(last) PROVE Collected(last)'
    BY <2>1, <2>2, <2>4, ZenonT(60) DEF Collected
  <2>8. Displaced => Displaced'
    BY <2>1, <2>2, DisplacedStays, ZenonT(60)
  <2>5. Collecting'
    BY <2>1, <2>2, <2>4, <2>8, ZenonT(60) DEF AnswerState, Answering, Collecting, AddsUp
  <2>6. NoCrash' /\ HandshakeSleeps' /\ (opens' = 1 => strays' = {})
    BY <2>1, ZenonT(60) DEF AnswerState, Answering, NoCrash, HandshakeSleeps
  <2>7. AnswersItsCommand'
    BY <2>1, ResultsStay, ZenonT(60) DEF AnswerState
  <2> QED
    BY <2>2, <2>3, <2>5, <2>6, <2>7 DEF Answering
<1> QED
  BY <1>1, <1>2, <1>3, ZenonT(60) DEF ModemUnasked

(* s_writeMutex: a thread past it is the only one with a command.          *)
LEMMA OthersIdle ==
  ASSUME AnswerState, NEW w \in Writers,
         pc[w] \in {"lockCommand", "waiting", "retry", "sleepMsec", "crashed"}
  PROVE  \A v \in Writers : v # w => ~Busy(v)
  BY ZenonT(60) DEF AnswerState, OwnerInv, OneCommandAtATime, InStep, Busy

LEMMA SendAnswers ==
  ASSUME AnswerState, NEW w \in Writers, SendAndWait(w)
  PROVE  Answering' /\ AnswersItsCommand'
<1> DEFINE cmd == [id |-> serial + 1, op |-> op[w]]
<1>1. /\ pc[w] \in {"lockCommand", "retry"} /\ serial' = serial + 1
      /\ cid' = [cid EXCEPT ![w] = serial + 1] /\ pc' = [pc EXCEPT ![w] = "waiting"]
      /\ toModem' = (IF link = "up" THEN Append(toModem, cmd) ELSE toModem)
      /\ s_type' = TypeOf(op[w]) /\ s_responsePrefix' = PrefixOf(op[w])
      /\ s_smsPDU' = (IF op[w] = "sms" THEN serial + 1 ELSE NULL)
      /\ sp_response' = [id |-> serial + 1, final |-> NULL, inter |-> <<>>]
      /\ UNCHANGED <<op, result, emitted, prompt, lines, rpc, rline, opens, strays>>
  BY ZenonT(60) DEF SendAndWait, EntersNolock, readerVars, mainVars
<1>2. /\ pc \in [Writers -> Locations] /\ cid \in [Writers -> Nat] /\ serial \in Nat
      /\ op[w] \in EntryPoints
  BY <1>1, PartsMakeType, ZenonT(60) DEF AnswerState, Parts, WriterTypes, CallHasOp, CountTypes
<1>3. \A v \in Writers : ~Busy(v) /\ (Busy(v)' <=> v = w)
  BY <1>1, <1>2, OthersIdle, ZenonT(60) DEF Busy
<1>4. AnswerLines = {} /\ toModem = <<>>
  BY <1>3, ZenonT(60) DEF AnswerState, Answering, Served
<1>5. emitted = 0 /\ prompt = "none"
  BY <1>4, ZenonT(60) DEF AnswerState, Drained
<1>6. Wire' /\ AnswerLines' = {}
  BY <1>1, <1>4, WireStays, ZenonT(60) DEF AnswerState, Answering
<1>7. toModem' # <<>> => toModem' = <<cmd>>
  <2>1. toModem' \in {<<>>, Append(<<>>, cmd)}
    BY <1>1, <1>4, ZenonT(60)
  <2> HIDE DEF cmd
  <2> QED
    BY <2>1, Alone, ZenonT(60)
<1>8. Served'
  <2>1. cid'[w] = serial' /\ serial' > 0 /\ op'[w] = op[w] /\ cmd = [id |-> serial', op |-> op'[w]]
    BY <1>1, <1>2, NextSerial, ZenonT(60)
  <2> HIDE DEF cmd
  <2> QED
    BY <1>3, <1>6, <1>7, <2>1, ZenonT(60) DEF Served
<1>9. Collected(0)'
  <2>1. sp_response'.final = NULL /\ sp_response'.inter = <<>>
    BY <1>1, ZenonT(60)
  <2>2. Len(sp_response'.inter) = 0
    BY <2>1, SMTT(60)
  <2>3. 0 <= 0 /\ 1..0 = {} /\ (0 + 1)..0 = {}
    OBVIOUS
  <2>4. emitted' = 0
    BY <1>1, <1>5, ZenonT(60)
  <2> QED
    BY <1>6, <2>1, <2>2, <2>3, <2>4, ZenonT(60) DEF Collected
<1>10. Collecting'
  <2>1. sp_response'.id = serial'
    BY <1>1, ZenonT(60)
  <2>2. ASSUME NEW v \in Writers, pc'[v] = "waiting" PROVE v = w
    BY <1>3, <2>2, ZenonT(60) DEF Busy
  <2>3. s_smsPDU' = NULL => op'[w] # "sms"
    <3>1. serial + 1 \in Nat
      BY <1>2
    <3>2. serial + 1 # NULL
      BY <3>1, AtAssumption, ZenonT(60)
    <3> QED
      BY <1>1, <3>2, ZenonT(60)
  <2> QED
    BY <1>1, <1>9, <2>1, <2>2, <2>3, ZenonT(60) DEF Collecting, AddsUp
<1>11. NoCrash' /\ HandshakeSleeps' /\ (opens' = 1 => strays' = {})
  BY <1>1, <1>2, ZenonT(60) DEF AnswerState, Answering, NoCrash, HandshakeSleeps
<1>12. AnswersItsCommand'
  BY <1>1, ResultsStay, ZenonT(60) DEF AnswerState
<1> QED
  BY <1>6, <1>8, <1>10, <1>11, <1>12 DEF Answering

(* The complete response, flipped back, is the answer to the command.      *)
LEMMA CompleteIsAnswer ==
  ASSUME AnswerState, NEW w \in Writers, pc[w] = "waiting", sp_response # NULL,
         sp_response.final # NULL, NEW err
  PROVE  IsFine([err |-> err, id |-> cid[w], op |-> op[w], final |-> sp_response.final,
                 inter |-> reverseIntermediates(sp_response.inter)])
<1> DEFINE m == Len(sp_response.inter)
<1> DEFINE rev == reverseIntermediates(sp_response.inter)
<1>1. sp_response.inter \in Seq(Line) /\ m \in Nat
  <2>1. sp_response \in Response
    BY PartsMakeType, ZenonT(60) DEF AnswerState, Parts, ChanTypes
  <2> QED
    BY <2>1, SMTT(60) DEF Response
<1>2. cid[w] = serial
  BY ZenonT(60) DEF AnswerState, Answering, Served, Busy
<1>4. rev = [i \in 1..m |-> sp_response.inter[m + 1 - i]]
  BY ZenonT(60) DEF reverseIntermediates
<1>5. Len(rev) = m
  <2>1. rev \in Seq(Line) /\ DOMAIN rev = 1..m
    BY <1>1, <1>4, SMTT(60)
  <2> HIDE DEF rev, m
  <2> QED
    BY <1>1, <2>1, LengthOf, ZenonT(60)
<1> HIDE DEF rev
<1> DEFINE r == [err |-> err, id |-> cid[w], op |-> op[w], final |-> sp_response.final, inter |-> rev]
<1>3. ASSUME ~Displaced PROVE IsAnswerTo(r)
  <2>3. /\ sp_response.final.id = serial /\ sp_response.final.n = m
        /\ \A i \in 1..m : sp_response.inter[i].id = serial /\ sp_response.inter[i].n = m + 1 - i
    BY <1>3, ZenonT(60) DEF AnswerState, Answering, Collecting, AddsUp, Collected
  <2>6. ASSUME NEW i \in 1..m PROVE rev[i].id = serial /\ rev[i].n = i
    <3>0. m + 1 - i \in 1..m
      BY <1>1, SMTT(60)
    <3>1. m + 1 - i \in 1..m /\ rev[i] = sp_response.inter[m + 1 - i]
      BY <1>4, <3>0, ZenonT(60)
    <3>2. m + 1 - (m + 1 - i) = i
      BY <1>1, SMTT(60)
    <3> QED
      BY <2>3, <3>1, <3>2, ZenonT(60)
  <2> HIDE DEF m
  <2>7. /\ sp_response.final.id = cid[w] /\ Len(rev) = sp_response.final.n
        /\ \A i \in 1..Len(rev) : rev[i].id = cid[w] /\ rev[i].n = i
    BY <1>2, <1>5, <2>3, <2>6, ZenonT(60)
  <2> QED
    BY <2>7, ZenonT(60) DEF IsAnswerTo
<1>6. ASSUME Displaced PROVE IsAnswerTo(r)
  <2>1. /\ m = 1 /\ sp_response.inter[1].id = 0 /\ sp_response.inter[1].prefix = "CREG"
        /\ "CREG" \in UnsolPrefixes /\ op[w] = "registration" /\ sp_response.final.id = serial
    BY <1>6, ZenonT(60) DEF Displaced, Busy
  <2>3. rev[1] = sp_response.inter[1]
    BY <1>4, <2>1, OneOnly, ZenonT(60)
  <2>4. PrefixOf(op[w]) = "CREG"
    BY <2>1 DEF PrefixOf
  <2> QED
    BY <1>2, <1>5, <2>1, <2>3, <2>4, ZenonT(60) DEF IsAnswerTo
<1> QED
  BY <1>3, <1>6, ZenonT(60) DEF IsFine, rev

LEMMA ReturnAnswers ==
  ASSUME AnswerState, NEW w \in Writers, ResumeAndReturn(w)
  PROVE  Answering' /\ AnswersItsCommand'
<1> DEFINE bad == [err |-> "CHANNEL_CLOSED", id |-> cid[w], op |-> op[w]]
<1> DEFINE good == [err |-> WrapperErr(op[w], sp_response, "OK"), id |-> cid[w], op |-> op[w],
                    final |-> sp_response.final,
                    inter |-> reverseIntermediates(sp_response.inter)]
<1>1. /\ pc[w] = "waiting" /\ sp_response # NULL /\ sp_response' = NULL
      /\ sp_response.final # NULL \/ s_readerClosed > 0
      /\ UNCHANGED <<op, cid, serial, toModem, emitted, prompt, lines, rpc, rline, opens, strays>>
  BY ZenonT(60) DEF ResumeAndReturn, Wakes, clearPendingCommand, readerVars, mainVars, modemVars
<1>2. IF s_readerClosed > 0 THEN FailWith(w, "CHANNEL_CLOSED")
      ELSE IF op[w] = "handshake"
      THEN pc' = [pc EXCEPT ![w] = "sleepMsec"] /\ UNCHANGED result
      ELSE ReturnFrom(w, good)
  BY ZenonT(60) DEF ResumeAndReturn
<1>3. \/ /\ \E l \in {"idle", "retry"} : pc' = [pc EXCEPT ![w] = l]
         /\ result' = result \/ result' = [result EXCEPT ![w] = bad]
      \/ /\ pc' = [pc EXCEPT ![w] = "sleepMsec"] /\ op[w] = "handshake" /\ result' = result
      \/ /\ pc' = [pc EXCEPT ![w] = "idle"] /\ sp_response.final # NULL
         /\ result' = [result EXCEPT ![w] = good]
  <2> HIDE DEF good
  <2> QED
    BY <1>1, <1>2, ZenonT(60) DEF FailWith, ReturnFrom
<1>4. pc \in [Writers -> Locations] /\ s_readerClosed \in {0, 1}
  BY PartsMakeType, ZenonT(60) DEF AnswerState, Parts, WriterTypes, ChanTypes
<1>5. \A v \in Writers : ~Busy(v)'
  <2>1. pc'[w] \in {"idle", "retry", "sleepMsec"} /\ \A v \in Writers : v # w => pc'[v] = pc[v]
    BY <1>3, <1>4, ZenonT(60)
  <2> QED
    BY <1>1, <2>1, OthersIdle, ZenonT(60) DEF Busy
<1>6. AnswerLines = {} /\ toModem = <<>>
  <2>1. CASE sp_response.final # NULL
    BY <1>1, <2>1, ZenonT(60) DEF AnswerState, Answering, Collecting, AddsUp, Collected, Displaced
  <2>2. CASE s_readerClosed = 1
    <3>1. rpc # "processLine" /\ lines = <<>> /\ toModem = <<>>
      BY <2>2, ZenonT(60) DEF AnswerState, Drained
    <3>2. Positions = {}
      BY <3>1, SMTT(60) DEF Positions
    <3> QED
      BY <3>1, <3>2, ZenonT(60) DEF AnswerLines, OnWire
  <2>3. sp_response.final # NULL \/ s_readerClosed > 0
    BY <1>1, ZenonT(60)
  <2>4. s_readerClosed \in {0, 1}
    BY <1>4, ZenonT(60)
  <2>5. s_readerClosed > 0 => s_readerClosed = 1
    BY <2>4, ZeroOrOne, ZenonT(60)
  <2> QED
    BY <2>1, <2>2, <2>3, <2>5, ZenonT(60)
<1>7. Wire' /\ AnswerLines' = {}
  BY <1>1, <1>6, WireStays DEF AnswerState, Answering
<1>8. Served'
  BY <1>1, <1>5, <1>6, <1>7, ZenonT(60) DEF Served
<1>9. Collecting'
  BY <1>1, ZenonT(60) DEF Collecting
<1>10. HandshakeSleeps' /\ NoCrash' /\ (opens' = 1 => strays' = {})
  BY <1>1, <1>3, <1>4, ZenonT(60) DEF AnswerState, Answering, HandshakeSleeps, NoCrash
<1>11. AnswersItsCommand'
  <2>1. IsFine(bad) /\ (sp_response.final # NULL => IsFine(good))
    BY <1>1, CompleteIsAnswer, ZenonT(60) DEF IsFine
  <2> HIDE DEF good, bad
  <2> QED
    BY <1>3, <2>1, ResultsStay, ZenonT(60) DEF AnswerState
<1> QED
  BY <1>7, <1>8, <1>9, <1>10, <1>11, ZenonT(60) DEF Answering

(* processLine leaves less of the answer on the wire.                      *)
LEMMA ServedShrinks ==
  ASSUME AnswerState, ProcessLine, AnswerLines' \subseteq AnswerLines,
         prompt' = prompt \/ \A l \in AnswerLines' : l.kind # "prompt"
  PROVE  Served' /\ HandshakeSleeps' /\ NoCrash' /\ AnswersItsCommand'
<1>1. UNCHANGED <<pc, op, cid, result, opens, serial, toModem, emitted>>
  BY ZenonT(60) DEF ProcessLine, writerVars, mainVars
<1>2. Served'
  <2>1. (\A w \in Writers : ~Busy(w)') => AnswerLines' = {} /\ toModem' = <<>>
    BY <1>1, ZenonT(60) DEF AnswerState, Answering, Served, Busy
  <2>2. ASSUME NEW w \in Writers, Busy(w)'
        PROVE  /\ cid'[w] = serial' /\ serial' > 0
               /\ toModem' # <<>> => toModem' = <<[id |-> serial', op |-> op'[w]]>>
               /\ \A l \in AnswerLines' : l.id = serial' /\ IsPart(l, op'[w])
    BY <1>1, <2>2, ZenonT(60) DEF AnswerState, Answering, Served, Busy
  <2>3. toModem' # <<>> => \A l \in AnswerLines' :
          /\ ~isFinalResponse(l)
          /\ l.kind = "text" => l.n <= emitted'
          /\ l.kind = "prompt" => prompt' = "sent"
    BY <1>1, ZenonT(60) DEF AnswerState, Answering, Served
  <2> QED
    BY <2>1, <2>2, <2>3, ZenonT(60) DEF Served
<1>3. HandshakeSleeps' /\ NoCrash'
  BY <1>1, ZenonT(60) DEF AnswerState, Answering, HandshakeSleeps, NoCrash
<1>4. AnswersItsCommand'
  BY <1>1, ResultsStay DEF AnswerState
<1> QED
  BY <1>2, <1>3, <1>4

(* The line in processLine, when a response is being collected.            *)
LEMMA LineInHand ==
  ASSUME AnswerState, ProcessLine, sp_response # NULL
  PROVE  \E w \in Writers : 
           /\ pc[w] = "waiting" /\ op[w] \in EntryPoints
           /\ \A v \in Writers : pc[v] = "waiting" => v = w
           /\ s_type = TypeOf(op[w]) /\ s_responsePrefix = PrefixOf(op[w])
           /\ s_smsPDU = NULL /\ op[w] = "sms" => \A l \in AnswerLines : l.kind # "prompt"
           /\ \A l \in AnswerLines : l.id = serial /\ IsPart(l, op[w])
<1>1. PICK w \in Writers : pc[w] = "waiting"
  BY ZenonT(60) DEF AnswerState, OwnerInv, OneCommandAtATime, InStep
<1>2. op[w] \in EntryPoints
  BY <1>1, PartsMakeType, ZenonT(60) DEF AnswerState, Parts, WriterTypes, CallHasOp
<1>3. \A v \in Writers : pc[v] = "waiting" => v = w
  BY <1>1, OthersIdle, ZenonT(60) DEF Busy
<1>4. /\ s_type = TypeOf(op[w]) /\ s_responsePrefix = PrefixOf(op[w])
      /\ s_smsPDU = NULL /\ op[w] = "sms" => \A l \in AnswerLines : l.kind # "prompt"
  BY <1>1, ZenonT(60) DEF AnswerState, Answering, Collecting
<1>5. \A l \in AnswerLines : l.id = serial /\ IsPart(l, op[w])
  BY <1>1, ZenonT(60) DEF AnswerState, Answering, Served, Busy
<1> QED
  BY <1>1, <1>2, <1>3, <1>4, <1>5, ZenonT(60)

(* Without a response no answer is on its way, on the first connection.    *)
LEMMA UnsolicitedAnswers ==
  ASSUME AnswerState, ProcessLine, ProcessUnsolicited
  PROVE  Answering' /\ AnswersItsCommand'
<1>1. /\ rpc = "processLine" /\ rpc' = "read" /\ lines' = lines
      /\ sp_response = NULL /\ sp_response' = NULL /\ UNCHANGED <<pc, opens, prompt>>
      /\ handleUnsolicited(rline)
  BY ZenonT(60) DEF ProcessLine, ProcessUnsolicited, writerVars, mainVars, chanVars
<1>2. /\ Wire' /\ AnswerLines' \subseteq AnswerLines
      /\ rline.id # 0 => rline \in AnswerLines
  BY <1>1, WireProcess DEF AnswerState, Answering
<1>3. opens = 1 => AnswerLines = {}
  <2>1. opens = 1 => \A w \in Writers : ~Busy(w)
    BY <1>1, ZenonT(60) DEF AnswerState, Answering, NoCrash, OwnerInv, WaiterOwnsResponseUntilReopen,
       WaiterOwnsResponse, InStep, Busy
  <2> QED
    BY <2>1, ZenonT(60) DEF AnswerState, Answering, Served
<1>4. opens' = 1 => strays' = {}
  BY <1>1, <1>2, <1>3, ZenonT(60) DEF handleUnsolicited, AnswerState, Answering
<1>5. Collecting'
  BY <1>1, ZenonT(60) DEF Collecting
<1> QED
  BY <1>1, <1>2, <1>4, <1>5, ServedShrinks, ZenonT(60) DEF Answering

(* The final line is the last one of the answer, all of which has been     *)
(* collected.                                                              *)
LEMMA FinalCompletes ==
  ASSUME AnswerState, ProcessLine, handleFinalResponse, InStep'
  PROVE  Answering' /\ AnswersItsCommand'
<1>1. /\ rpc = "processLine" /\ rpc' = "read" /\ lines' = lines
      /\ sp_response # NULL /\ isFinalResponse(rline)
      /\ sp_response' = [sp_response EXCEPT !.final = rline]
      /\ UNCHANGED <<pc, op, serial, toModem, emitted, opens, prompt, strays>>
      /\ UNCHANGED <<s_type, s_responsePrefix, s_smsPDU>>
  BY ZenonT(60) DEF ProcessLine, handleFinalResponse, writerVars, mainVars
<1>2. /\ Wire' /\ AnswerLines' \subseteq AnswerLines /\ rline \in OnWire /\ rline \in Line
      /\ rline.id # 0 => rline \in AnswerLines
      /\ AnswerLines \subseteq AnswerLines' \cup {rline}
      /\ \A l \in AnswerLines' : Before(rline, l)
  BY <1>1, WireProcess DEF AnswerState, Answering
<1>3. rline.id # 0 /\ rline \in AnswerLines
  <2>1. preempted' = (IF rline.id = 0 THEN 1 ELSE preempted) /\ preempted' = 0
    BY ZenonT(60) DEF handleFinalResponse, InStep
  <2>2. rline.id # 0
    BY <2>1
  <2> QED
    BY <1>2, <2>2, ZenonT(60)
<1>4. AnswerLines' = {} /\ AnswerLines = {rline}
  BY <1>1, <1>2, <1>3 DEF Before, AnswerLines
<1>5. toModem = <<>>
  BY <1>1, <1>3 DEF AnswerState, Answering, Served
<1>6. rline.id = serial
  BY <1>1, <1>3, LineInHand
<1>8. /\ sp_response \in Response /\ Len(sp_response.inter) \in Nat
  <2>1. sp_response \in Response
    BY <1>1, PartsMakeType DEF AnswerState, Parts, ChanTypes
  <2> QED
    BY <2>1 DEF Response
<1>9. /\ sp_response'.final = rline /\ sp_response'.inter = sp_response.inter
      /\ sp_response'.id = sp_response.id
  BY <1>1, <1>8 DEF Response
<1>10. ASSUME ~Displaced PROVE \E last \in Nat : Collected(last)'
  <2>7. PICK last \in Nat : Collected(last)
    BY <1>1, <1>10, ZenonT(60) DEF AnswerState, Answering, Collecting, AddsUp
  <2>10. Len(sp_response.inter) = last /\ rline.n = last
    <3>1. rline.n = last /\ Len(sp_response.inter) <= last
      BY <1>1, <1>3, <2>7 DEF Collected
    <3>2. rline.kind # "text"
      BY <1>1, ZenonT(60) DEF isFinalResponse
    <3>3. \A k \in (Len(sp_response.inter) + 1)..last : FALSE
      BY <1>4, <2>7, <3>2, ZenonT(60) DEF Collected
    <3>4. ~(Len(sp_response.inter) < last)
      BY <1>8, <3>3
    <3> QED
      BY <1>8, <3>1, <3>4
  <2>11. Collected(last)'
    <3>1. \A i \in 1..last : sp_response.inter[i].id = serial /\ sp_response.inter[i].n = last + 1 - i
      BY <2>7, <2>10, ZenonT(60) DEF Collected
    <3>2. last <= last /\ \A k \in (last + 1)..last : FALSE
      BY SMTT(60)
    <3>3. Len(sp_response'.inter) = last /\ sp_response'.inter = sp_response.inter
      BY <1>9, <2>10, ZenonT(60)
    <3>4. serial' = serial /\ toModem' = <<>> /\ AnswerLines' = {}
      BY <1>1, <1>4, <1>5, ZenonT(60)
    <3>5. sp_response'.final.id = serial /\ sp_response'.final.n = last
      BY <1>6, <1>9, <2>10, ZenonT(60)
    <3> QED
      BY <3>1, <3>2, <3>3, <3>4, <3>5, ZenonT(60) DEF Collected
  <2> QED
    BY <2>11, ZenonT(60)
<1>11. ASSUME Displaced PROVE Displaced'
  BY <1>1, <1>4, <1>5, <1>6, <1>9, <1>11, ZenonT(60) DEF Displaced, Busy
<1>12. Collecting'
  BY <1>1, <1>4, <1>5, <1>9, <1>10, <1>11, ZenonT(60) DEF AnswerState, Answering, Collecting, AddsUp
<1> QED
  BY <1>1, <1>2, <1>12, ServedShrinks DEF AnswerState, Answering

(* There is one prompt in an answer, and the modem sent it.                *)
LEMMA PromptTaken ==
  ASSUME AnswerState, ProcessLine, AnswerPrompt
  PROVE  Answering' /\ AnswersItsCommand'
<1>1. /\ rpc = "processLine" /\ rpc' = "read" /\ lines' = lines
      /\ sp_response # NULL /\ ~isFinalResponse(rline) /\ rline.kind = "prompt"
      /\ prompt' = (IF link = "up" /\ s_fd >= 0 /\ prompt = "sent" THEN "answered" ELSE prompt)
      /\ UNCHANGED <<pc, op, serial, toModem, emitted, opens, strays>>
      /\ UNCHANGED <<s_type, s_responsePrefix, sp_response>>
  BY ZenonT(60) DEF ProcessLine, AnswerPrompt, writerVars, mainVars
<1>2. /\ Wire' /\ AnswerLines' \subseteq AnswerLines /\ rline \in OnWire
      /\ rline.id # 0 => rline \in AnswerLines
      /\ AnswerLines \subseteq AnswerLines' \cup {rline}
      /\ \A l \in AnswerLines' : Before(rline, l)
  BY <1>1, WireProcess, ZenonT(60) DEF AnswerState, Answering
<1>3. rline.id # 0 /\ rline \in AnswerLines
  BY <1>1, <1>2, ZenonT(60) DEF AnswerState, Answering, Wire, Unasked
<1>4. \A l \in AnswerLines' : l.kind # "prompt"
  BY <1>1, <1>2, <1>3 DEF Before, AnswerLines
<1>5. toModem # <<>> => prompt' # "none"
  BY <1>1, <1>3, ZenonT(60) DEF AnswerState, Answering, Served
<1>6. ASSUME NEW last \in Nat, Collected(last) PROVE Collected(last)'
  <2>1. \A l \in AnswerLines : l.kind = "text" => l \in AnswerLines'
    BY <1>1, <1>2, ZenonT(60)
  <2>2. sp_response.final = NULL
    BY <1>3, <1>6, ZenonT(60) DEF Collected
  <2> QED
    BY <1>1, <1>2, <1>6, <2>1, <2>2, ZenonT(60) DEF Collected
<1>7. Displaced => Displaced'
  BY <1>1, <1>2, DisplacedStays, ZenonT(60)
<1>8. Collecting'
  BY <1>1, <1>4, <1>5, <1>6, <1>7, ZenonT(60) DEF AnswerState, Answering, Collecting, AddsUp
<1> QED
  BY <1>1, <1>2, <1>4, <1>8, ServedShrinks, ZenonT(60) DEF AnswerState, Answering

(* Any other line is the next intermediate one of the answer, or no part   *)
(* of one.                                                                 *)
LEMMA TypeTakes ==
  ASSUME AnswerState, ProcessLine, ProcessByType
  PROVE  Answering' /\ AnswersItsCommand'
<1>1. /\ rpc = "processLine" /\ rpc' = "read" /\ lines' = lines
      /\ sp_response # NULL /\ ~isFinalResponse(rline)
      /\ ~(s_smsPDU # NULL /\ rline.kind = "prompt")
      /\ IF IsIntermediate(rline)
         THEN addIntermediate(rline) /\ UNCHANGED strays
         ELSE handleUnsolicited(rline) /\ UNCHANGED sp_response
      /\ UNCHANGED <<writerVars, pc, op, serial, toModem, emitted, opens, prompt>>
      /\ UNCHANGED <<s_type, s_responsePrefix, s_smsPDU>>
  BY ZenonT(60) DEF ProcessLine, ProcessByType, writerVars, mainVars
<1>2. /\ Wire' /\ AnswerLines' \subseteq AnswerLines /\ rline \in OnWire /\ rline \in Line
      /\ rline.id # 0 => rline \in AnswerLines
      /\ AnswerLines \subseteq AnswerLines' \cup {rline}
      /\ \A l \in AnswerLines' : Before(rline, l)
  BY <1>1, WireProcess DEF AnswerState, Answering
<1>3. PICK w \in Writers :
        /\ pc[w] = "waiting" /\ op[w] \in EntryPoints
        /\ \A v \in Writers : pc[v] = "waiting" => v = w
        /\ s_type = TypeOf(op[w]) /\ s_responsePrefix = PrefixOf(op[w])
        /\ s_smsPDU = NULL /\ op[w] = "sms" => \A l \in AnswerLines : l.kind # "prompt"
        /\ \A l \in AnswerLines : l.id = serial /\ IsPart(l, op[w])
  BY <1>1, LineInHand, ZenonT(60)
<1>r. sp_response \in Response
  BY <1>1, PartsMakeType, ZenonT(60) DEF AnswerState, Parts, ChanTypes
<1>k. ASSUME AddsUp', sp_response'.id = sp_response.id PROVE Collecting'
  <2>1. sp_response # NULL /\ sp_response.id = serial
    BY <1>1, ZenonT(60) DEF AnswerState, Answering, Collecting
  <2>2. ASSUME NEW v \in Writers, pc'[v] = "waiting"
        PROVE  /\ s_type' = TypeOf(op'[v]) /\ s_responsePrefix' = PrefixOf(op'[v])
               /\ s_smsPDU' = NULL /\ op'[v] = "sms" =>
                    /\ \A l \in AnswerLines' : l.kind # "prompt"
                    /\ toModem' # <<>> => prompt' # "none"
    BY <1>1, <1>2, <2>1, <2>2, ZenonT(60) DEF AnswerState, Answering, Collecting
  <2> QED
    BY <1>1, <1>k, <2>1, <2>2, ZenonT(60) DEF Collecting
<1>4. ASSUME rline.id = 0 PROVE Answering' /\ AnswersItsCommand'
  <2>1. AnswerLines' = AnswerLines
    BY <1>2, <1>4, ZenonT(60) DEF AnswerLines
  <2>2. rline.prefix \in UnsolPrefixes \cup {"unsol", "none"}
    BY <1>2, <1>4, ZenonT(60) DEF AnswerState, Answering, Wire, Unasked
  <2>3. CASE ~IsIntermediate(rline)
    <3>1. UNCHANGED <<sp_response, strays>>
      BY <1>1, <1>4, <2>3, ZenonT(60) DEF handleUnsolicited
    <3> QED
      BY <1>1, <1>2, <2>1, <3>1, OthersQuiet, ZenonT(60)
  <2>4. CASE IsIntermediate(rline)
    <3>1. /\ op[w] = "registration" /\ rline.prefix = "CREG" /\ "CREG" \in UnsolPrefixes
          /\ sp_response.inter = <<>>
      BY <1>3, <2>2, <2>4, AtAssumption DEF IsIntermediate, TypeOf, PrefixOf, EntryPoints
    <3>2. sp_response' = [sp_response EXCEPT !.inter = <<rline>> \o @] /\ strays' = strays
      BY <1>1, <2>4, ZenonT(60) DEF addIntermediate
    <3>3. /\ sp_response'.inter = <<rline>> \o <<>> /\ sp_response'.id = sp_response.id
          /\ sp_response'.final = sp_response.final
      BY <1>r, <3>1, <3>2, ZenonT(60) DEF Response
    <3>4. Len(sp_response'.inter) = 1 /\ sp_response'.inter[1] = rline
      BY <1>2, <3>3, JustOne, ZenonT(60)
    <3>5. \A v \in Writers : Busy(v)' => op'[v] = "registration"
      BY <1>1, <1>3, <3>1, OthersIdle, ZenonT(60) DEF Busy
    <3>6. sp_response.final # NULL =>
            sp_response.final.id = serial /\ AnswerLines = {} /\ toModem = <<>>
      BY <1>1, ZenonT(60) DEF AnswerState, Answering, Collecting, AddsUp, Displaced, Collected
    <3>7. Displaced'
      BY <1>1, <1>4, <2>1, <3>1, <3>3, <3>4, <3>5, <3>6, ZenonT(60) DEF Displaced
    <3>8. Collecting'
      BY <1>k, <3>3, <3>7, ZenonT(60) DEF AddsUp
    <3> QED
      BY <1>1, <1>2, <3>2, <3>8, ServedShrinks, ZenonT(60) DEF AnswerState, Answering
  <2> QED
    BY <2>3, <2>4
<1>6. ASSUME rline.id # 0, Displaced PROVE Answering' /\ AnswersItsCommand'
  <2>1. op[w] = "registration" /\ Len(sp_response.inter) = 1 /\ sp_response.inter[1].id = 0
    BY <1>3, <1>6, ZenonT(60) DEF Displaced, Busy
  <2>2. sp_response.inter # <<>>
    BY <2>1, OneOnly, ZenonT(60)
  <2>3. ~IsIntermediate(rline)
    BY <1>3, <2>1, <2>2, ZenonT(60) DEF IsIntermediate, TypeOf
  <2>4. Replaced(rline)
    <3>1. rline.id = serial /\ sp_response.id = serial
      BY <1>1, <1>2, <1>3, <1>6, ZenonT(60) DEF AnswerState, Answering, Collecting
    <3> QED
      BY <1>1, <2>1, <3>1, OneOnly, ZenonT(60) DEF Replaced
  <2>5. UNCHANGED <<sp_response, strays>>
    BY <1>1, <2>3, <2>4, ZenonT(60) DEF handleUnsolicited
  <2>6. Displaced'
    BY <1>1, <1>2, <1>6, <2>5, DisplacedStays, ZenonT(60)
  <2>7. Collecting'
    BY <1>k, <2>5, <2>6, ZenonT(60) DEF AddsUp
  <2> QED
    BY <1>1, <1>2, <2>5, <2>7, ServedShrinks, ZenonT(60) DEF AnswerState, Answering
<1>5. ASSUME rline.id # 0, ~Displaced PROVE Answering' /\ AnswersItsCommand'
  <2>1. rline \in AnswerLines /\ rline.id = serial /\ IsPart(rline, op[w])
    BY <1>2, <1>3, <1>5, ZenonT(60)
  <2>2. rline.kind = "text"
    BY <1>1, <1>3, <2>1, ZenonT(60) DEF IsPart, isFinalResponse
  <2>3. PICK last \in Nat : Collected(last)
    BY <1>1, <1>5, ZenonT(60) DEF AnswerState, Answering, Collecting, AddsUp
  <2>4. sp_response \in Response
    BY <1>r, ZenonT(60)
  <2>5. PICK m \in Nat : m = Len(sp_response.inter)
    BY <2>4, SMTT(60) DEF Response
  <2>6. /\ m < rline.n /\ rline.n <= last /\ rline.n \in Nat
        /\ \A k \in (m + 1)..last : \E l \in AnswerLines : l.kind = "text" /\ l.n = k
        /\ \A i \in 1..m : sp_response.inter[i].id = serial /\ sp_response.inter[i].n = m + 1 - i
        /\ sp_response.final = NULL
    BY <1>2, <2>1, <2>2, <2>3, <2>5, ZenonT(60) DEF Collected, Line
  <2>7. ASSUME NEW l \in AnswerLines', l.kind = "text" PROVE rline.n < l.n /\ l.n <= last
    BY <1>2, <1>5, <2>2, <2>3, <2>7, ZenonT(60) DEF Before, Collected, AnswerLines
  <2>8. rline.n = m + 1
    <3>1. m + 1 \in (m + 1)..last
      BY <2>6, SMTT(60)
    <3>2. PICK l \in AnswerLines : l.kind = "text" /\ l.n = m + 1
      BY <2>6, <3>1, ZenonT(60)
    <3>3. ~(rline.n < m + 1)
      BY <2>6
    <3> QED
      BY <1>2, <2>7, <3>2, <3>3, ZenonT(60)
  <2>9. IsIntermediate(rline)
    <3>1. op[w] # "multiline" => sp_response.inter = <<>>
      <4>1. op[w] # "multiline" => m = 0
        BY <2>1, <2>2, <2>8 DEF IsPart
      <4> QED
        BY <2>4, <2>5, <4>1 DEF Response
    <3> QED
      BY <1>3, <2>1, <2>2, <3>1, ZenonT(60) DEF IsIntermediate, TypeOf, PrefixOf, IsPart
  <2>10. sp_response' = [sp_response EXCEPT !.inter = <<rline>> \o @] /\ strays' = strays
    BY <1>1, <2>9 DEF addIntermediate
  <2>11. /\ sp_response'.inter = <<rline>> \o sp_response.inter
         /\ sp_response'.final = NULL /\ sp_response'.id = sp_response.id
    BY <2>4, <2>6, <2>10, ZenonT(60) DEF Response
  <2>12. /\ Len(sp_response'.inter) = m + 1
         /\ \A i \in 1..(m + 1) :
              sp_response'.inter[i] = IF i = 1 THEN rline ELSE sp_response.inter[i - 1]
    <3>1. sp_response.inter \in Seq(Line)
      BY <2>4, ZenonT(60) DEF Response
    <3>2. rline \in Line
      BY <1>2, <2>1, ZenonT(60)
    <3> QED
      <4>1. /\ Len(<<rline>> \o sp_response.inter) = Len(sp_response.inter) + 1
            /\ \A i \in 1..(Len(sp_response.inter) + 1) : (<<rline>> \o sp_response.inter)[i]
                                     = IF i = 1 THEN rline ELSE sp_response.inter[i - 1]
        BY <3>1, <3>2, Prepended, ZenonT(60)
      <4> QED
        BY <2>5, <2>11, <4>1, ZenonT(60)
  <2>13. ASSUME NEW i \in 1..(m + 1)
         PROVE  sp_response'.inter[i].id = serial /\ sp_response'.inter[i].n = m + 2 - i
    <3>1. CASE i = 1
      <4>1. rline.n = m + 2 - i
        BY <2>5, <2>8, <3>1, SMTT(60)
      <4>2. sp_response'.inter[i] = rline
        BY <2>12, <3>1, ZenonT(60)
      <4> QED
        BY <2>1, <4>1, <4>2, ZenonT(60)
    <3>2. CASE i # 1
      <4>1. i - 1 \in 1..m /\ m + 1 - (i - 1) = m + 2 - i
        BY <3>2
      <4>2. sp_response'.inter[i] = sp_response.inter[i - 1]
        BY <2>12, <3>2, ZenonT(60)
      <4>3. sp_response.inter[i - 1].id = serial /\ sp_response.inter[i - 1].n = m + 1 - (i - 1)
        BY <2>6, <4>1, ZenonT(60)
      <4> QED
        BY <4>1, <4>2, <4>3, ZenonT(60)
    <3> QED
      BY <3>1, <3>2, ZenonT(60)
  <2>14. Collected(last)'
    <3>1. m + 1 <= last
      BY <2>6, <2>8, ZenonT(60)
    <3>2. ASSUME NEW l \in AnswerLines'
          PROVE  /\ l.kind = "text" => m + 1 < l.n /\ l.n <= last
                 /\ isFinalResponse(l) => l.n = last
      BY <1>2, <2>3, <2>7, <2>8, <3>2, ZenonT(60) DEF Collected
    <3>3. ASSUME NEW k \in (m + 2)..last
          PROVE  \E l \in AnswerLines' : l.kind = "text" /\ l.n = k
      <4>1. k \in (m + 1)..last /\ k # m + 1
        OBVIOUS
      <4>2. PICK l \in AnswerLines : l.kind = "text" /\ l.n = k
        BY <2>6, <4>1, ZenonT(60)
      <4> QED
        BY <1>2, <2>8, <4>1, <4>2, ZenonT(60)
    <3>4. toModem' # <<>> => emitted' = last
      BY <1>1, <2>3, ZenonT(60) DEF Collected
    <3>5. (m + 1) + 1 = m + 2
      OBVIOUS
    <3>6. Len(sp_response'.inter) = m + 1 /\ sp_response'.final = NULL /\ serial' = serial
      BY <1>1, <2>11, <2>12, ZenonT(60)
    <3>7. \A i \in 1..(m + 1) :
            sp_response'.inter[i].id = serial /\ sp_response'.inter[i].n = ((m + 1) + 1) - i
      BY <2>13
    <3>8. \A k \in ((m + 1) + 1)..last : \E l \in AnswerLines' : l.kind = "text" /\ l.n = k
      BY <3>3, <3>5, ZenonT(60)
    <3> QED
      <4>1. Len(sp_response'.inter) <= last
        BY <3>1, <3>6, ZenonT(60)
      <4>2. \A i \in 1..Len(sp_response'.inter) :
              /\ sp_response'.inter[i].id = serial'
              /\ sp_response'.inter[i].n = Len(sp_response'.inter) + 1 - i
        BY <3>6, <3>7, SMTT(60)
      <4>3. \A l \in AnswerLines' :
              /\ l.kind = "text" => Len(sp_response'.inter) < l.n /\ l.n <= last
              /\ isFinalResponse(l) => l.n = last
        BY <3>2, <3>6, ZenonT(60)
      <4>4. \A k \in (Len(sp_response'.inter) + 1)..last :
              \E l \in AnswerLines' : l.kind = "text" /\ l.n = k
        BY <3>6, <3>8, ZenonT(60)
      <4> QED
        BY <3>4, <3>6, <4>1, <4>2, <4>3, <4>4, ZenonT(60) DEF Collected
  <2>15. Collecting'
    BY <1>k, <2>11, <2>14, ZenonT(60) DEF AddsUp
  <2> QED
    BY <1>1, <1>2, <2>10, <2>15, ServedShrinks DEF AnswerState, Answering
<1> QED
  BY <1>4, <1>5, <1>6

(* Only a writer's call sets its result, isInEmulator() never changes its  *)
(* mind, and neither a timeout nor a final line of no command is forgotten. *)
LEMMA StepFrame ==
  ASSUME TypeInv, [Next]_vars
  PROVE  /\ result' = result \/ \E w \in Writers : \E r : result' = [result EXCEPT ![w] = r]
         /\ isInEmulator' = isInEmulator
         /\ timeouts' = timeouts \/ timeouts' = timeouts + 1
         /\ preempted' = preempted \/ preempted' = 1
<1> USE DEF chanVars, lockVars, writerVars, mainVars
<1>1. ASSUME NEW w \in Writers,
             \/ \E o \in Ops : Call(w, o)
             \/ WriterStep(w) \/ WaitTimesOut(w) \/ SpuriousWakeup(w)
      PROVE  /\ result' = result \/ \E r : result' = [result EXCEPT ![w] = r]
             /\ isInEmulator' = isInEmulator
             /\ timeouts' = timeouts \/ timeouts' = timeouts + 1
             /\ preempted' = preempted
  <2>1. /\ UNCHANGED <<isInEmulator, preempted>>
        /\ timeouts' = timeouts \/ timeouts' = timeouts + 1
    BY <1>1, ZenonT(60) DEF Call, WriterStep, LockWrite, SendWhilePending, SendFails, SendAndWait,
       ResumeOnNull, ResumeAndWait, ResumeAndReturn, HandshakeDone, WaitTimesOut, SpuriousWakeup
  <2>2. \A err : FailWith(w, err) => result' = result \/ \E r : result' = [result EXCEPT ![w] = r]
    BY ZenonT(60) DEF FailWith, ReturnFrom
  <2>3. \A x : ReturnFrom(w, x) => \E r : result' = [result EXCEPT ![w] = r]
    BY ZenonT(60) DEF ReturnFrom
  <2>4. result' = result \/ \E r : result' = [result EXCEPT ![w] = r]
    BY <1>1, <2>2, <2>3, ZenonT(60) DEF Call, WriterStep, LockWrite, SendWhilePending, SendFails,
       SendAndWait, ResumeOnNull, ResumeAndWait, ResumeAndReturn, HandshakeDone, WaitTimesOut,
       SpuriousWakeup
  <2> QED
    BY <2>1, <2>4
<1>2. ASSUME ReaderStep
      PROVE  /\ UNCHANGED <<result, isInEmulator, timeouts>>
             /\ preempted' = preempted \/ preempted' = 1
  <2>1. ASSUME ProcessLine PROVE preempted' = preempted \/ preempted' = 1
    BY <2>1, ZenonT(60) DEF ProcessLine, ProcessUnsolicited, handleFinalResponse, AnswerPrompt,
       ProcessByType
  <2>2. UNCHANGED <<result, isInEmulator, timeouts>>
    BY <1>2, ZenonT(60) DEF ReaderStep, ReadLine, ReadPdu, ProcessLine, ReadEof, onReaderClosed,
       CloseFd, at_close, SetClosed, MarkClosed
  <2>3. ProcessLine \/ preempted' = preempted
    BY <1>2, ZenonT(60) DEF ReaderStep, ReadLine, ReadPdu, ReadEof, onReaderClosed,
       CloseFd, at_close, SetClosed, MarkClosed
  <2> QED
    BY <2>1, <2>2, <2>3, ZenonT(60)
<1>3. ASSUME MainStep \/ ModemAnswer \/ ModemUnasked
      PROVE  UNCHANGED <<result, isInEmulator, timeouts, preempted>>
  BY <1>3, ZenonT(60) DEF MainStep, OpenFd, ResetState, CreateReader, ModemAnswer, ModemUnasked,
     ModemIntermediate, ModemPrompt, ModemFinal, ModemUnsolicited, ModemSms, ModemHangup, modemOther
<1>4. ASSUME Finished \/ UNCHANGED vars
      PROVE  UNCHANGED <<result, isInEmulator, timeouts, preempted>>
  BY <1>4, ZenonT(60) DEF Finished, vars
<1> QED
  BY <1>1, <1>2, <1>3, <1>4, ZenonT(60) DEF Next

(* The invariant behind the answers.                                       *)
AnswerInv == Results /\ Drained /\ (InStep => Answering /\ AnswersItsCommand)

LEMMA AnswerInit == Init => AnswerInv
<1> SUFFICES ASSUME Init PROVE AnswerInv
  OBVIOUS
<1>1. /\ lines = <<>> /\ rpc = "read" /\ toModem = <<>> /\ sp_response = NULL /\ strays = {}
      /\ pc = [w \in Writers |-> "idle"] /\ result = [w \in Writers |-> NoResult]
  BY ZenonT(60) DEF Init
<1>2. Positions = {}
  BY <1>1 DEF Positions
<1>3. OnWire = {} /\ AnswerLines = {}
  BY <1>2, ZenonT(60) DEF OnWire, AnswerLines
<1>4. Wire
  BY <1>1, <1>2, <1>3, SMTT(60) DEF Wire, InOrder, SmsPairs
<1>5. Served /\ Collecting /\ HandshakeSleeps /\ NoCrash
  BY <1>1, <1>3, ZenonT(60) DEF Served, Collecting, HandshakeSleeps, NoCrash, Busy
<1>6. Drained
  <2>1. /\ link = "up" /\ s_closed = 0 /\ s_readerClosed = 0 /\ s_fd = 1
        /\ emitted = 0 /\ prompt = "none" /\ mpc = "waitForClose"
    BY ZenonT(60) DEF Init
  <2>2. s_closed # 1 /\ s_readerClosed # 1 /\ ~(s_fd < 0)
    BY <2>1
  <2> QED
    BY <1>1, <2>1, <2>2, ZenonT(60) DEF Drained
<1>7. Results /\ AnswersItsCommand
  BY <1>1, ZenonT(60) DEF Results, AnswersItsCommand
<1> QED
  BY <1>1, <1>4, <1>5, <1>6, <1>7 DEF AnswerInv, Answering

LEMMA AnswerStep == TypeInv /\ OwnerInv /\ AnswerInv /\ [Next]_vars => AnswerInv'
<1> SUFFICES ASSUME TypeInv, OwnerInv, AnswerInv, [Next]_vars PROVE AnswerInv'
  BY ZenonT(60)
<1>1. Results' /\ Drained'
  BY StepFrame, DrainedStep, ZenonT(60) DEF AnswerInv, OwnerInv, Results
<1>2. timeouts \in Nat
  BY PartsMakeType, ZenonT(60) DEF Parts, CountTypes
<1>3. InStep' => InStep
  BY <1>2, StepFrame, SMTT(60) DEF InStep
<1>4. ASSUME InStep' PROVE Answering' /\ AnswersItsCommand'
  <2>0. AnswerState
    BY <1>3, <1>4, ZenonT(60) DEF AnswerInv, AnswerState
  <2>1. ASSUME NEW w \in Writers, WriterStep(w) PROVE Answering' /\ AnswersItsCommand'
    <3>1. ~SendWhilePending(w)
      <4>1. sp_response # NULL => \E v \in Writers : pc[v] = "waiting"
        BY <2>0, ZenonT(60) DEF AnswerState, OwnerInv, OneCommandAtATime, InStep
      <4>2. EntersNolock(w) => \A v \in Writers : v # w => ~Busy(v)
        BY <2>0, OthersIdle, ZenonT(60) DEF EntersNolock
      <4> QED
        BY <4>1, <4>2, ZenonT(60) DEF SendWhilePending, EntersNolock, Busy
    <3> QED
      BY <2>0, <2>1, <3>1, WriterQuiet, SendAnswers, ReturnAnswers, ZenonT(60) DEF WriterStep
  <2>2. ASSUME NEW w \in Writers, (\E o \in Ops : Call(w, o)) \/ SpuriousWakeup(w)
        PROVE  Answering' /\ AnswersItsCommand'
    BY <2>0, <2>2, WriterQuiet, ZenonT(60)
  <2>3. ASSUME NEW w \in Writers, WaitTimesOut(w) PROVE FALSE
    <3>1. timeouts' = timeouts + 1
      BY <2>3, ZenonT(60) DEF WaitTimesOut
    <3> QED
      BY <1>2, <1>4, <3>1 DEF InStep
  <2>4. ASSUME ReaderStep PROVE Answering' /\ AnswersItsCommand'
    <3>1. ASSUME ProcessLine PROVE Answering' /\ AnswersItsCommand'
      <4>1. ProcessUnsolicited \/ handleFinalResponse \/ AnswerPrompt \/ ProcessByType
        BY <3>1, ZenonT(60) DEF ProcessLine
      <4> QED
        BY <1>4, <2>0, <3>1, <4>1, UnsolicitedAnswers, FinalCompletes, PromptTaken, TypeTakes, ZenonT(60)
    <3> QED
      BY <2>0, <2>4, <3>1, ReaderQuiet, ZenonT(60) DEF ReaderStep
  <2>5. ASSUME MainStep \/ ModemAnswer \/ ModemUnasked PROVE Answering' /\ AnswersItsCommand'
    BY <2>0, <2>5, MainQuiet, IntermediateAnswers, PromptAnswers, FinalAnswers, UnaskedQuiet, ZenonT(60)
       DEF ModemAnswer
  <2>6. ASSUME Finished \/ UNCHANGED vars PROVE Answering' /\ AnswersItsCommand'
    <3>1. /\ UNCHANGED <<writerVars, serial, toModem, emitted, prompt, opens, strays>>
          /\ UNCHANGED <<sp_response, s_type, s_responsePrefix, s_smsPDU>>
          /\ UNCHANGED <<lines, rpc, rline>>
      BY <2>6, ZenonT(60) DEF Finished, vars, chanVars, mainVars, readerVars, modemVars
    <3>2. Wire' /\ AnswerLines' = AnswerLines
      BY <2>0, <3>1, WireStays DEF AnswerState, Answering
    <3> QED
      BY <2>0, <3>1, <3>2, OthersQuiet
  <2> QED
    BY <2>1, <2>2, <2>3, <2>4, <2>5, <2>6, ZenonT(60) DEF Next
<1> QED
  BY <1>1, <1>4 DEF AnswerInv

(* In the emulator, until a handshake is given up or a final line that the *)
(* modem sent unasked has ended a command, a successful call of            *)
(* at_send_command_full returns the answer to its own command: its final   *)
(* line and all its intermediate lines in order, or, where the modem also  *)
(* sends the answer's prefix unasked, that line in the place of the answer. *)
THEOREM AnswersAreOwn == Spec => []AnswersItsCommandInStep
<1>1. AnswerInv => AnswersItsCommandInStep
  BY ZenonT(60) DEF AnswerInv, AnswersItsCommandInStep
<1> QED
  BY <1>1, TypeInit, TypeStep, OwnerInit, OwnerStep, AnswerInit, AnswerStep, PTL DEF Spec

(* Nor does a line of an answer reach the unsolicited handler, until then  *)
(* and until the channel is opened again, but for the line whose place an  *)
(* unasked one has taken.                                                  *)
THEOREM AnswersNeverStray == Spec => []NoStrayLines
<1>1. AnswerInv => NoStrayLines
  BY DEF AnswerInv, Answering, NoStrayLines
<1> QED
  BY <1>1, TypeInit, TypeStep, OwnerInit, OwnerStep, AnswerInit, AnswerStep, PTL DEF Spec
==============================================================================
