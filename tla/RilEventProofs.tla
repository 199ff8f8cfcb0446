--------------------------- MODULE RilEventProofs ---------------------------
(***************************************************************************)
(* Proofs about the event loop, for any threads, callbacks and delays, and *)
(* about the wake lock that a timer of the loop gives back.                *)
(* That the loop does not oversleep needs that timer_list is sorted, since *)
(* only its head is looked at, and that the pipe exists once the loop      *)
(* sleeps, since a byte written before is lost.                            *)
(***************************************************************************)
EXTENDS RilEvent, WakeLock, TLAPS

(* What the proofs need of the types.                                      *)
TypeInv ==
  /\ timer_list \in Seq(Entry)
  /\ pending_list \in Seq(Entry \cup {Wakeup})
  /\ until \in Int /\ now \in Nat /\ n \in {0, 1}
  /\ DOMAIN tpc = Threads

(* The loop sleeps only after eventLoop has created the pipe.              *)
PipeInv == lpc \notin {"eventLoop", "pipe"} => piped = 1

Inv == TypeInv /\ PipeInv /\ FiresInOrder /\ NoOversleep

-----------------------------------------------------------------------------
(* The elements of a concatenation.                                        *)
LEMMA Concatenation ==
  ASSUME NEW S, NEW a \in Seq(S), NEW b \in Seq(S)
  PROVE  /\ a \o b \in Seq(S)
         /\ Len(a \o b) = Len(a) + Len(b)
         /\ \A i \in 1..Len(a) : (a \o b)[i] = a[i]
         /\ \A i \in 1..Len(b) : (a \o b)[Len(a) + i] = b[i]
OBVIOUS

(* r is s with e at place k + 1; a is r up to that place, b what follows.  *)
Inserted(r, s, k, e) ==
  /\ r \in Seq(Entry)
  /\ Len(r) = Len(s) + 1
  /\ \A i \in 1..k : r[i] = s[i]
  /\ r[k + 1] = e
  /\ \A i \in (k + 2)..(Len(s) + 1) : r[i] = s[i - 1]

UpTo(a, s, k, e) ==
  a \in Seq(Entry) /\ Len(a) = k + 1 /\ (\A i \in 1..k : a[i] = s[i]) /\ a[k + 1] = e

Rest(b, s, k) ==
  b \in Seq(Entry) /\ Len(b) = Len(s) - k /\ \A i \in 1..Len(b) : b[i] = s[i + k]

(* The two parts put together.                                             *)
LEMMA JoinedAt ==
  ASSUME NEW s \in Seq(Entry), NEW e \in Entry, NEW k \in 0..Len(s),
         NEW a, NEW b, UpTo(a, s, k, e), Rest(b, s, k)
  PROVE  Inserted(a \o b, s, k, e)
<1> USE DEF UpTo, Rest
<1>1. /\ a \o b \in Seq(Entry) /\ Len(a \o b) = Len(a) + Len(b)
      /\ \A i \in 1..Len(a) : (a \o b)[i] = a[i]
      /\ \A i \in 1..Len(b) : (a \o b)[Len(a) + i] = b[i]
  <2>1. a \in Seq(Entry) /\ b \in Seq(Entry)
    OBVIOUS
  <2> HIDE DEF UpTo, Rest
  <2> QED BY <2>1, Concatenation, SMT
<1>2. k \in Nat /\ Len(s) \in Nat
  OBVIOUS
<1>3. ASSUME NEW i \in (k + 2)..(Len(s) + 1) PROVE (a \o b)[i] = s[i - 1]
  <2>1. PICK j \in 1..Len(b) : i = Len(a) + j
    BY <1>2
  <2>2. (a \o b)[i] = b[j] /\ b[j] = s[j + k]
    BY <1>1, <2>1, ZenonT(60)
  <2>3. j + k = i - 1
    BY <1>2, <2>1
  <2> QED BY ZenonT(60), <2>2, <2>3
<1> QED BY SMTT(60), <1>1, <1>2, <1>3 DEF Inserted

(* What ril_timer_add leaves in the list: the same timers, in the same     *)
(* order, with the new one at place k + 1.                                 *)
LEMMA InsertAt ==
  ASSUME NEW s \in Seq(Entry), NEW e \in Entry, NEW k \in 0..Len(s)
  PROVE  Inserted(SubSeq(s, 1, k) \o <<e>> \o SubSeq(s, k + 1, Len(s)), s, k, e)
<1>1. UpTo(SubSeq(s, 1, k) \o <<e>>, s, k, e)
  <2>1. PICK p : p = SubSeq(s, 1, k)
    BY ZenonT(60)
  <2>2. p \in Seq(Entry) /\ Len(p) = k /\ \A i \in 1..k : p[i] = s[i]
    BY <2>1
  <2>3. UpTo(p \o <<e>>, s, k, e)
    BY <2>2 DEF UpTo
  <2> QED BY <2>1, <2>3, ZenonT(60)
<1>2. Rest(SubSeq(s, k + 1, Len(s)), s, k)
  <2>1. PICK r : r = SubSeq(s, k + 1, Len(s))
    BY ZenonT(60)
  <2>2. /\ r \in Seq(Entry) /\ Len(r) = Len(s) - k
        /\ \A i \in 1..Len(r) : r[i] = s[i + k]
    BY <2>1, SMTT(60)
  <2> QED BY <2>1, <2>2, ZenonT(60) DEF Rest
<1> QED BY <1>1, <1>2, JoinedAt, ZenonT(60)

(* Adding a timer keeps the list sorted, and adds nothing else to it.      *)
LEMMA TimerAdded ==
  ASSUME timer_list \in Seq(Entry), Sorted(timer_list), NEW e \in Entry, ril_timer_add(e)
  PROVE  /\ timer_list' \in Seq(Entry)
         /\ Sorted(timer_list')
         /\ \A i \in 1..Len(timer_list') :
              timer_list'[i] = e \/ \E j \in 1..Len(timer_list) : timer_list'[i] = timer_list[j]
<1>1. PICK k \in 0..Len(timer_list) :
        /\ \A i \in 1..k : timer_list[i].timeout < e.timeout
        /\ k < Len(timer_list) => ~(timer_list[k + 1].timeout < e.timeout)
        /\ timer_list' = SubSeq(timer_list, 1, k) \o <<e>>
                           \o SubSeq(timer_list, k + 1, Len(timer_list))
  BY ZenonT(60) DEF ril_timer_add
<1>2. Inserted(timer_list', timer_list, k, e)
  BY <1>1, InsertAt, ZenonT(60)
<1>3. ASSUME NEW i \in 1..Len(timer_list) PROVE timer_list[i].timeout \in Nat
  <2>1. timer_list[i] \in Entry
    OBVIOUS
  <2> QED BY <2>1 DEF Entry
<1>4. e.timeout \in Nat
  BY DEF Entry
<1>5. ASSUME NEW i \in (k + 1)..Len(timer_list) PROVE e.timeout <= timer_list[i].timeout
  <2>1. k + 1 \in 1..Len(timer_list) /\ i \in 1..Len(timer_list) /\ k + 1 \in 1..i
    OBVIOUS
  <2>2. timer_list[k + 1].timeout <= timer_list[i].timeout
    BY <2>1 DEF Sorted
  <2>3. ~(timer_list[k + 1].timeout < e.timeout)
    BY <1>1, <2>1
  <2>4. timer_list[k + 1].timeout \in Nat /\ timer_list[i].timeout \in Nat
    BY <1>3, <2>1
  <2> QED
    BY <1>4, <2>2, <2>3, <2>4
<1>6. ASSUME NEW i \in 1..Len(timer_list'), NEW j \in 1..i
      PROVE  timer_list'[j].timeout <= timer_list'[i].timeout
  <2>1. CASE i <= k
    BY <1>2, <2>1 DEF Inserted, Sorted
  <2>2. CASE i = k + 1
    <3>1. timer_list'[i] = e
      BY <1>2, <2>2 DEF Inserted
    <3>2. CASE j = i
      BY <1>4, <3>1, <3>2
    <3>3. CASE j < i
      <4>1. j \in 1..k /\ j \in 1..Len(timer_list)
        BY <2>2, <3>3
      <4>2. timer_list'[j] = timer_list[j] /\ timer_list[j].timeout < e.timeout
        BY ZenonT(60), <1>1, <1>2, <4>1 DEF Inserted
      <4> QED BY <1>3, <1>4, <3>1, <4>1, <4>2
    <3> QED BY <3>2, <3>3
  <2>3. CASE i > k + 1
    <3>1. timer_list'[i] = timer_list[i - 1] /\ i - 1 \in (k + 1)..Len(timer_list)
      BY <1>2, <2>3 DEF Inserted
    <3>2. CASE j <= k
      <4>1. timer_list'[j] = timer_list[j] /\ j \in 1..(i - 1)
        BY <1>2, <3>1, <3>2 DEF Inserted
      <4> QED BY <3>1, <4>1 DEF Sorted
    <3>3. CASE j = k + 1
      BY <1>2, <1>5, <3>1, <3>3 DEF Inserted
    <3>4. CASE j > k + 1
      <4>1. timer_list'[j] = timer_list[j - 1] /\ j - 1 \in 1..(i - 1)
        BY <1>2, <3>1, <3>4 DEF Inserted
      <4> QED BY <3>1, <4>1 DEF Sorted
    <3> QED BY <3>2, <3>3, <3>4
  <2> QED BY <2>1, <2>2, <2>3
<1>7. ASSUME NEW i \in 1..Len(timer_list')
      PROVE  timer_list'[i] = e \/ \E j \in 1..Len(timer_list) : timer_list'[i] = timer_list[j]
  <2>1. CASE i <= k
    BY <1>2, <2>1 DEF Inserted
  <2>2. CASE i = k + 1
    BY <1>2, <2>2 DEF Inserted
  <2>3. CASE i > k + 1
    <3>1. timer_list'[i] = timer_list[i - 1] /\ i - 1 \in 1..Len(timer_list)
      BY <1>2, <2>3 DEF Inserted
    <3> QED BY <3>1
  <2> QED BY <2>1, <2>2, <2>3
<1> QED BY <1>2, <1>6, <1>7 DEF Inserted, Sorted

(* Timers that become pending do so in order.  Nothing else becomes        *)
(* pending, and what stays in the list is due no earlier than now.         *)
LEMMA TimersExpired ==
  ASSUME TypeInv, FiresInOrder, processTimeouts
  PROVE  /\ timer_list' \in Seq(Entry) /\ pending_list' \in Seq(Entry \cup {Wakeup})
         /\ FiresInOrder'
<1> USE EventAssumption
<1>1. PICK k \in 0..Len(timer_list) :
        /\ \A i \in 1..k : Expired(timer_list[i])
        /\ k < Len(timer_list) => ~Expired(timer_list[k + 1])
        /\ pending_list' = pending_list \o SubSeq(timer_list, 1, k)
        /\ timer_list' = SubSeq(timer_list, k + 1, Len(timer_list))
  BY ZenonT(60) DEF processTimeouts
<1>2. timer_list \in Seq(Entry) /\ pending_list \in Seq(Entry \cup {Wakeup}) /\ now \in Nat /\ now' = now
  BY DEF TypeInv, processTimeouts
<1>3. PICK q : q = SubSeq(timer_list, 1, k)
  BY ZenonT(60)
<1>4. /\ timer_list' \in Seq(Entry) /\ q \in Seq(Entry)
      /\ Len(timer_list') = Len(timer_list) - k /\ Len(q) = k
      /\ \A i \in 1..Len(timer_list') : timer_list'[i] = timer_list[i + k]
      /\ \A i \in 1..k : q[i] = timer_list[i]
  <2>1. timer_list' = SubSeq(timer_list, k + 1, Len(timer_list)) /\ timer_list \in Seq(Entry)
    BY <1>1, <1>2
  <2>2. /\ timer_list' \in Seq(Entry) /\ Len(timer_list') = Len(timer_list) - k
        /\ \A i \in 1..Len(timer_list') : timer_list'[i] = timer_list[i + k]
    BY SMTT(60), <2>1
  <2>3. q \in Seq(Entry) /\ Len(q) = k /\ \A i \in 1..k : q[i] = timer_list[i]
    BY <1>3, <2>1
  <2> QED BY <2>2, <2>3
<1>5. q \in Seq(Entry \cup {Wakeup})
  BY <1>4
<1>6. /\ pending_list' \in Seq(Entry \cup {Wakeup})
      /\ Len(pending_list') = Len(pending_list) + Len(q)
      /\ \A i \in 1..Len(pending_list) : pending_list'[i] = pending_list[i]
      /\ \A i \in 1..Len(q) : pending_list'[Len(pending_list) + i] = q[i]
  BY <1>1, <1>2, <1>3, <1>5, Concatenation
<1>7. ASSUME NEW i \in 1..Len(timer_list) PROVE timer_list[i].timeout \in Nat
  <2>1. timer_list[i] \in Entry
    BY <1>2
  <2> QED BY <2>1 DEF Entry
<1>8. ASSUME NEW i \in 1..Len(timer_list')
      PROVE  /\ i + k \in 1..Len(timer_list)
             /\ timer_list'[i] = timer_list[i + k]
             /\ now <= timer_list'[i].timeout
  <2>1. i + k \in (k + 1)..Len(timer_list) /\ k + 1 \in 1..(i + k) /\ k < Len(timer_list)
    BY <1>2, <1>4
  <2>2. timer_list[k + 1].timeout <= timer_list[i + k].timeout
    BY <2>1 DEF FiresInOrder, Sorted
  <2>3. now <= timer_list[k + 1].timeout
    BY SMTT(60), <1>1, <1>2, <1>7, <2>1 DEF Expired
  <2>4. timer_list[k + 1].timeout \in Nat /\ timer_list[i + k].timeout \in Nat
    BY SMTT(60), <1>2, <1>7, <2>1
  <2>5. now <= timer_list[i + k].timeout
    BY SMTT(60), <1>2, <2>2, <2>3, <2>4
  <2> QED BY <1>2, <1>4, <2>1, <2>5
<1>9. Sorted(timer_list')
  <2> SUFFICES ASSUME NEW i \in 1..Len(timer_list'), NEW j \in 1..i
               PROVE  timer_list'[j].timeout <= timer_list'[i].timeout
    BY DEF Sorted
  <2>1. j \in 1..Len(timer_list') /\ j + k \in 1..(i + k)
    BY <1>4
  <2> QED BY ZenonT(60), <1>8, <2>1 DEF FiresInOrder, Sorted
<1>10. ASSUME NEW p \in 1..Len(pending_list'), pending_list'[p] # Wakeup
       PROVE  /\ pending_list'[p].timeout < now
              /\ \A i \in 1..Len(timer_list') : pending_list'[p].timeout < timer_list'[i].timeout
  <2>1. CASE p <= Len(pending_list)
    BY SMTT(60), <1>6, <1>8, <1>10, <2>1 DEF FiresInOrder
  <2>2. CASE p > Len(pending_list)
    <3>1. PICK i \in 1..k : p = Len(pending_list) + i
      <4>1. p - Len(pending_list) \in 1..k
        BY <1>2, <1>4, <1>6, <2>2
      <4>2. p = Len(pending_list) + (p - Len(pending_list))
        BY <1>2, <1>6
      <4> QED BY <4>1, <4>2
    <3>2. pending_list'[p] = timer_list[i] /\ i \in 1..Len(timer_list)
      BY SMTT(60), <1>4, <1>6, <3>1
    <3>3. pending_list'[p].timeout < now
      BY ZenonT(60), <1>1, <1>2, <1>7, <3>2 DEF Expired
    <3>4. pending_list'[p].timeout \in Nat
      BY <1>7, <3>2
    <3>5. ASSUME NEW j \in 1..Len(timer_list')
          PROVE  pending_list'[p].timeout < timer_list'[j].timeout
      <4>1. timer_list'[j].timeout \in Nat /\ now <= timer_list'[j].timeout
        BY <1>7, <1>8
      <4> QED BY SMTT(60), <1>2, <3>3, <3>4, <4>1
    <3> QED BY <3>3, <3>5
  <2> QED BY <2>1, <2>2
<1>11. ASSUME NEW p \in 1..Len(pending_list'), NEW o \in 1..p,
              pending_list'[p] # Wakeup, pending_list'[o] # Wakeup
       PROVE  pending_list'[o].timeout <= pending_list'[p].timeout
  <2>1. CASE p <= Len(pending_list)
    <3>1. /\ p \in 1..Len(pending_list) /\ o \in 1..Len(pending_list)
          /\ pending_list'[p] = pending_list[p] /\ pending_list'[o] = pending_list[o]
      BY <1>6, <2>1
    <3> QED BY <1>11, <3>1, ZenonT(60) DEF FiresInOrder, PendingSorted
  <2>2. CASE p > Len(pending_list)
    <3>1. PICK i \in 1..k : p = Len(pending_list) + i
      <4>1. p - Len(pending_list) \in 1..k
        BY <1>2, <1>4, <1>6, <2>2
      <4>2. p = Len(pending_list) + (p - Len(pending_list))
        BY <1>2, <1>6
      <4> QED BY <4>1, <4>2
    <3>2. pending_list'[p] = timer_list[i] /\ i \in 1..Len(timer_list)
      BY SMTT(60), <1>4, <1>6, <3>1
    <3>3. CASE o <= Len(pending_list)
      <4>1. o \in 1..Len(pending_list) /\ pending_list'[o] = pending_list[o]
        BY <1>6, <3>3
      <4>2. pending_list'[o].timeout < timer_list[i].timeout
        BY <1>11, <3>2, <4>1, ZenonT(60) DEF FiresInOrder
      <4>3. pending_list[o] \in Entry
        BY <1>2, <1>11, <4>1
      <4>4. pending_list'[o].timeout \in Nat /\ timer_list[i].timeout \in Nat
        BY <1>7, <3>2, <4>1, <4>3 DEF Entry
      <4> QED BY <3>2, <4>2, <4>4
    <3>4. CASE o > Len(pending_list)
      <4>1. PICK j \in 1..i : o = Len(pending_list) + j
        <5>1. o - Len(pending_list) \in 1..i
          BY <1>2, <3>1, <3>4
        <5>2. o = Len(pending_list) + (o - Len(pending_list))
          BY <1>2
        <5> QED BY <5>1, <5>2
      <4>2. pending_list'[o] = timer_list[j]
        BY SMTT(60), <1>4, <1>6, <4>1
      <4> QED BY <3>2, <4>1, <4>2, ZenonT(60) DEF FiresInOrder, Sorted
    <3> QED BY <3>3, <3>4, <1>2
  <2> QED BY <2>1, <2>2, <1>2, <1>6
<1>12. PendingSorted'
  BY <1>11, ZenonT(60) DEF PendingSorted
<1> QED BY <1>2, <1>4, <1>6, <1>9, <1>10, <1>12 DEF FiresInOrder

(* A new timer is due after everything that is pending.                    *)
LEMMA AddPreserves ==
  ASSUME TypeInv, FiresInOrder, NEW tm \in Timers, NEW d \in Delays,
         ril_timer_add([ev |-> tm, timeout |-> now + d]), now' = now,
         \A p \in 1..Len(pending_list') :
           \E o \in 1..Len(pending_list) : pending_list'[p] = pending_list[o],
         PendingSorted'
  PROVE  timer_list' \in Seq(Entry) /\ FiresInOrder'
<1> DEFINE e == [ev |-> tm, timeout |-> now + d]
<1>1. e \in Entry /\ e.timeout = now + d /\ now \in Nat /\ d \in Nat
  BY EventAssumption DEF TypeInv, Entry
<1>2. timer_list \in Seq(Entry) /\ Sorted(timer_list) /\ ril_timer_add(e)
  BY DEF TypeInv, FiresInOrder
<1> HIDE DEF e
<1>3. /\ timer_list' \in Seq(Entry) /\ Sorted(timer_list')
      /\ \A i \in 1..Len(timer_list') :
           timer_list'[i] = e \/ \E j \in 1..Len(timer_list) : timer_list'[i] = timer_list[j]
  BY <1>1, <1>2, TimerAdded
<1>4. ASSUME NEW p \in 1..Len(pending_list'), pending_list'[p] # Wakeup
      PROVE  /\ pending_list'[p].timeout < now
             /\ \A i \in 1..Len(timer_list') : pending_list'[p].timeout < timer_list'[i].timeout
  <2>1. PICK o \in 1..Len(pending_list) : pending_list'[p] = pending_list[o]
    OBVIOUS
  <2>2. /\ pending_list[o].timeout < now
        /\ \A i \in 1..Len(timer_list) : pending_list[o].timeout < timer_list[i].timeout
    BY <1>4, <2>1 DEF FiresInOrder
  <2>3. pending_list[o].timeout \in Nat
    <3>1. pending_list[o] \in Entry
      BY <1>4, <2>1 DEF TypeInv
    <3> QED BY <3>1 DEF Entry
  <2>4. pending_list[o].timeout < e.timeout
    BY SMTT(60), <1>1, <2>2, <2>3
  <2> QED BY ZenonT(60), <1>3, <2>1, <2>2, <2>4
<1> QED BY <1>3, <1>4 DEF FiresInOrder

(* The invariant holds before the event loop starts.                       *)
LEMMA InvInit == Init => Inv
BY EventAssumption
   DEF Init, Inv, TypeInv, PipeInv, FiresInOrder, Sorted,
       PendingSorted, NoOversleep, BLOCK

(* FiresInOrder is about the lists and the clock only.                     *)
LEMMA ListsUnchanged ==
  ASSUME FiresInOrder, UNCHANGED lists, now' = now
  PROVE  FiresInOrder'
BY DEF FiresInOrder, Sorted, PendingSorted, lists

(* Every step keeps the invariant.                                         *)
LEMMA InvStep == Inv /\ [Next]_vars => Inv'
<1> SUFFICES ASSUME Inv, [Next]_vars PROVE Inv'
  OBVIOUS
<1>0. TypeInv /\ PipeInv /\ FiresInOrder /\ NoOversleep
  BY DEF Inv
<1> USE DEF setup, loop, hist
<1>1. CASE StartLoop \/ CreatePipe \/ ril_event_add \/ CopyFds
  <2>1. TypeInv' /\ PipeInv' /\ lpc' # "select" /\ UNCHANGED lists /\ now' = now
    BY <1>0, <1>1 DEF TypeInv, PipeInv, StartLoop, CreatePipe, ril_event_add, CopyFds, lists
  <2> QED BY <1>0, <2>1, ListsUnchanged DEF Inv, NoOversleep
<1>2. CASE calcNextTimeout
  <2>1. /\ UNCHANGED lists /\ now' = now /\ until' = NextTimeout /\ n' = n
        /\ piped' = piped /\ lpc = "calcNextTimeout" /\ tpc' = tpc
    BY <1>2 DEF calcNextTimeout
  <2>2. CASE timer_list = <<>>
    <3>1. until' = BLOCK /\ Len(timer_list') = 0
      BY <2>1, <2>2 DEF NextTimeout, lists
    <3>2. TypeInv' /\ PipeInv'
      BY <1>0, <2>1, <3>1 DEF TypeInv, PipeInv, lists, BLOCK
    <3> QED BY <1>0, <2>1, <3>1, <3>2, ListsUnchanged DEF Inv, NoOversleep
  <2>3. CASE timer_list # <<>>
    <3>1. timer_list[1] \in Entry /\ Head(timer_list) = timer_list[1] /\ Len(timer_list) >= 1
      BY <1>0, <2>3 DEF TypeInv
    <3>2. timer_list[1].timeout \in Nat /\ now \in Nat
      BY <1>0, <3>1 DEF TypeInv, Entry
    <3>3. until' \in Nat /\ (until' <= timer_list[1].timeout \/ until' <= now)
      BY <2>1, <2>3, <3>1, <3>2 DEF NextTimeout
    <3>4. TypeInv' /\ PipeInv'
      BY <1>0, <2>1, <3>3 DEF TypeInv, PipeInv, lists
    <3>5. ASSUME NEW i \in 1..Len(timer_list)
          PROVE  until' <= timer_list[i].timeout \/ until' <= now
      <4>1. timer_list[1].timeout <= timer_list[i].timeout
        BY <1>0 DEF FiresInOrder, Sorted
      <4>2. timer_list[i] \in Entry
        BY <1>0 DEF TypeInv
      <4>3. timer_list[i].timeout \in Nat
        BY <4>2 DEF Entry
      <4> QED BY <3>2, <3>3, <4>1, <4>3
    <3>6. NoOversleep'
      BY <2>1, <3>3, <3>5 DEF NoOversleep, lists, BLOCK
    <3> QED BY <1>0, <2>1, <3>4, <3>6, ListsUnchanged DEF Inv
  <2> QED BY <2>2, <2>3
<1>3. CASE SelectReturns \/ SelectInterrupted \/ FirePendingDone
  <2>1. TypeInv' /\ PipeInv' /\ lpc' # "select" /\ UNCHANGED lists /\ now' = now
    BY <1>0, <1>3 DEF TypeInv, PipeInv, SelectReturns, SelectInterrupted, FirePendingDone, lists
  <2> QED BY <1>0, <2>1, ListsUnchanged DEF Inv, NoOversleep
<1>4. CASE processTimeouts
  <2>1. timer_list' \in Seq(Entry) /\ pending_list' \in Seq(Entry \cup {Wakeup}) /\ FiresInOrder'
    BY <1>0, <1>4, TimersExpired
  <2>2. TypeInv' /\ PipeInv' /\ lpc' # "select"
    BY <1>0, <1>4, <2>1 DEF TypeInv, PipeInv, processTimeouts
  <2> QED BY <2>1, <2>2 DEF Inv, NoOversleep
<1>5. CASE processReadReadies
  <2>1. /\ timer_list' = timer_list /\ now' = now /\ lpc' # "select" /\ PipeInv'
        /\ pending_list \in Seq(Entry \cup {Wakeup}) /\ pending_list' = ReadReady
    BY <1>0, <1>5 DEF TypeInv, PipeInv, processReadReadies
  <2>2. pending_list' = pending_list \/ pending_list' = Append(pending_list, Wakeup)
    BY <2>1 DEF ReadReady
  <2>3. /\ pending_list' \in Seq(Entry \cup {Wakeup})
        /\ \A p \in 1..Len(pending_list') : pending_list'[p] # Wakeup =>
             p \in 1..Len(pending_list) /\ pending_list'[p] = pending_list[p]
    BY SMTT(60), <2>1, <2>2
  <2>4. TypeInv'
    BY <1>0, <1>5, <2>3 DEF TypeInv, processReadReadies
  <2>5. PendingSorted'
    <3>1. PendingSorted /\ \A p \in 1..Len(pending_list) : 1..p \subseteq 1..Len(pending_list)
      BY <1>0, <2>1 DEF FiresInOrder
    <3>2. \A p \in 1..Len(pending_list') : 1..p \subseteq 1..Len(pending_list')
      BY <2>3
    <3> QED BY <2>3, <3>1, <3>2, ZenonT(60) DEF PendingSorted
  <2>6. FiresInOrder'
    BY <1>0, <2>1, <2>3, <2>5 DEF FiresInOrder, Sorted
  <2> QED BY <2>1, <2>4, <2>6 DEF Inv, NoOversleep
<1>6. CASE FireWakeup \/ FireTimer
  <2>1. /\ lpc' # "select" /\ now' = now /\ PipeInv' /\ pending_list # <<>>
        /\ pending_list \in Seq(Entry \cup {Wakeup}) /\ pending_list' = Tail(pending_list)
    BY <1>0, <1>6 DEF TypeInv, PipeInv, FireWakeup, FireTimer
  <2>2. /\ pending_list' \in Seq(Entry \cup {Wakeup})
        /\ \A p \in 1..Len(pending_list') :
             p + 1 \in 1..Len(pending_list) /\ pending_list'[p] = pending_list[p + 1]
    BY <2>1
  <2>3. timer_list' \in Seq(Entry) /\ FiresInOrder'
    <3>0. PendingSorted'
      <4>1. \A p \in 1..Len(pending_list') : \A o \in 1..p :
              o \in 1..Len(pending_list') /\ o + 1 \in 1..(p + 1)
        BY <2>2
      <4>2. PendingSorted
        BY <1>0 DEF FiresInOrder
      <4> QED BY <2>2, <4>1, <4>2, ZenonT(60) DEF PendingSorted
    <3>1. CASE timer_list' = timer_list
      BY <1>0, <2>1, <2>2, <3>0, <3>1 DEF FiresInOrder, Sorted, TypeInv
    <3>2. CASE timer_list' # timer_list
      <4>1. PICK tm \in Timers, d \in Delays : ril_timer_add([ev |-> tm, timeout |-> now + d])
        BY <1>6, <3>2 DEF FireWakeup, FireTimer
      <4>2. \A p \in 1..Len(pending_list') :
              \E o \in 1..Len(pending_list) : pending_list'[p] = pending_list[o]
        BY <2>2
      <4> QED BY <1>0, <2>1, <3>0, <4>1, <4>2, AddPreserves
    <3> QED BY <3>1, <3>2
  <2>4. TypeInv'
    BY <1>0, <1>6, <2>2, <2>3 DEF TypeInv, FireWakeup, FireTimer
  <2> QED BY <2>1, <2>3, <2>4 DEF Inv, NoOversleep
<1>7. ASSUME NEW t \in Threads, NEW tm \in Timers, NEW d \in Delays,
             RIL_requestTimedCallback(t, tm, d)
      PROVE  Inv'
  <2>1. /\ ril_timer_add([ev |-> tm, timeout |-> now + d])
        /\ now' = now /\ pending_list' = pending_list
        /\ tpc' = [tpc EXCEPT ![t] = "triggerEvLoop"]
    BY <1>7 DEF RIL_requestTimedCallback, AfterTimerAdd
  <2>2. \A p \in 1..Len(pending_list') :
          \E o \in 1..Len(pending_list) : pending_list'[p] = pending_list[o]
    BY <2>1
  <2>3. timer_list' \in Seq(Entry) /\ FiresInOrder'
    <3>1. PendingSorted'
      BY <1>0, <2>1 DEF FiresInOrder, PendingSorted
    <3> QED BY <1>0, <2>1, <2>2, <3>1, AddPreserves
  <2>4. TypeInv' /\ PipeInv'
    BY <1>0, <1>7, <2>1, <2>3 DEF TypeInv, PipeInv, RIL_requestTimedCallback
  <2>5. tpc'[t] = "triggerEvLoop"
    BY <1>0, <2>1 DEF TypeInv
  <2> QED BY <2>3, <2>4, <2>5 DEF Inv, NoOversleep, WakeupOnItsWay
<1>8. ASSUME NEW t \in Threads, triggerEvLoop(t)
      PROVE  Inv'
  <2>1. TypeInv' /\ PipeInv' /\ UNCHANGED lists /\ now' = now
    BY <1>0, <1>8 DEF TypeInv, PipeInv, triggerEvLoop, lists
  <2>2. lpc' = "select" => wake' = 1
    BY <1>0, <1>8 DEF PipeInv, triggerEvLoop, WriteByte
  <2> QED BY <1>0, <2>1, <2>2, ListsUnchanged DEF Inv, NoOversleep, WakeupOnItsWay
<1>9. CASE Tick
  <2>1. /\ UNCHANGED lists /\ now' = now + 1 /\ now \in Nat
        /\ UNCHANGED <<lpc, until, wake, tpc, piped, n>>
    BY <1>0, <1>9 DEF Tick, TypeInv
  <2>2. TypeInv' /\ PipeInv'
    BY <1>0, <2>1 DEF TypeInv, PipeInv, lists
  <2>3. FiresInOrder'
    <3>1. timer_list' = timer_list /\ pending_list' = pending_list
      BY <2>1 DEF lists
    <3>2. ASSUME NEW p \in 1..Len(pending_list), pending_list[p] # Wakeup
          PROVE  pending_list[p].timeout < now + 1
      <4>1. pending_list[p] \in Entry
        BY <1>0, <3>2 DEF TypeInv
      <4>2. pending_list[p].timeout \in Nat
        BY <4>1 DEF Entry
      <4>3. pending_list[p].timeout < now
        BY <1>0, <3>2 DEF FiresInOrder
      <4> QED BY <2>1, <4>2, <4>3
    <3> QED BY <1>0, <2>1, <3>1, <3>2 DEF FiresInOrder, Sorted, PendingSorted
  <2>4. NoOversleep'
    <3>1. until \in Int
      BY <1>0 DEF TypeInv
    <3>2. timer_list' = timer_list /\ (until <= now => until' <= now')
      BY <2>1, <3>1, SMTT(60) DEF lists
    <3> QED BY <1>0, <2>1, <3>2 DEF NoOversleep, WakeupOnItsWay, BLOCK
  <2> QED BY <2>2, <2>3, <2>4 DEF Inv
<1>10. CASE UNCHANGED vars
  BY <1>0, <1>10, ZenonT(60) DEF Inv, TypeInv, PipeInv, FiresInOrder, Sorted, PendingSorted,
                     NoOversleep, WakeupOnItsWay, vars, lists
<1> QED
  BY <1>1, <1>2, <1>3, <1>4, <1>5, <1>6, <1>7, <1>8, <1>9, <1>10 DEF Next, LoopStep

-----------------------------------------------------------------------------
(* The invariant.                                                          *)
THEOREM Invariant == Spec => []Inv
BY InvInit, InvStep, PTL DEF Spec

(* The event loop never sleeps past a timer that another thread added      *)
(* after calcNextTimeout had looked at the list without listMutex.         *)
THEOREM NeverOversleeps == Spec => []NoOversleep
<1>1. Inv => NoOversleep
  BY DEF Inv
<1> QED BY <1>1, Invariant, PTL

(* Callbacks run in the order of their times: of the expired ones that     *)
(* wait in pending_list the earliest is at the head, and none of them is   *)
(* due after a timer that threads or running callbacks have added.         *)
THEOREM TimersFireInOrder == Spec => []FiresInOrder
<1>1. Inv => FiresInOrder
  BY ZenonT(60) DEF Inv
<1> QED BY <1>1, Invariant, PTL

(* The small variables of eventLoop and of the threads that ask it, which  *)
(* the invariant does not need.                                            *)
SmallTypes ==
  /\ watched \in {0, 1} /\ piped \in {0, 1} /\ s_started \in {0, 1} /\ wake \in {0, 1}
  /\ lpc \in {"eventLoop", "pipe", "ril_event_add", "copyFds", "calcNextTimeout", "select",
              "processTimeouts", "processReadReadies", "firePending"}
  /\ rfds \in {0, 1} /\ until \in Nat \cup {BLOCK}
  /\ tpc \in [Threads -> {"idle", "triggerEvLoop"}]
  /\ asked \subseteq Timers /\ fired \subseteq Timers
  /\ now \in 0..MaxTime

(* Every step keeps them; what fires is a timer because pending_list holds *)
(* entries and the wakeup only.                                            *)
LEMMA SmallStep == Inv /\ SmallTypes /\ [Next]_vars => SmallTypes'
<1> SUFFICES ASSUME Inv, SmallTypes, [Next]_vars
             PROVE  SmallTypes'
  OBVIOUS
<1> USE EventAssumption DEF SmallTypes, lists, setup, loop, hist
<1>1. ASSUME NEW t \in Threads, NEW tm \in Timers, NEW d \in Delays,
             RIL_requestTimedCallback(t, tm, d)
      PROVE  SmallTypes'
  BY <1>1 DEF RIL_requestTimedCallback, AfterTimerAdd
<1>2. ASSUME NEW t \in Threads, triggerEvLoop(t)
      PROVE  SmallTypes'
  BY <1>2 DEF triggerEvLoop, WriteByte
<1>3. CASE StartLoop \/ CreatePipe \/ ril_event_add \/ CopyFds
  BY <1>3 DEF StartLoop, CreatePipe, ril_event_add, CopyFds
<1>4. CASE calcNextTimeout
  <2>1. timer_list # <<>> => Head(timer_list) \in Entry
    BY DEF Inv, TypeInv
  <2>2. NextTimeout \in Nat \cup {BLOCK}
    BY <2>1, SMTT(60) DEF NextTimeout, Entry
  <2> QED
    BY <1>4, <2>2 DEF calcNextTimeout
<1>5. CASE SelectReturns \/ SelectInterrupted \/ processTimeouts \/ processReadReadies
  BY <1>5, ZenonT(60) DEF SelectReturns, SelectInterrupted, processTimeouts, processReadReadies
<1>6. CASE FireWakeup \/ FirePendingDone
  BY <1>6 DEF FireWakeup, FirePendingDone
<1>7. CASE FireTimer
  <2>1. Head(pending_list) \in Entry
    <3>1. pending_list \in Seq(Entry \cup {Wakeup}) /\ pending_list # <<>>
      BY <1>7 DEF Inv, TypeInv, FireTimer
    <3>2. Head(pending_list) \in Entry \cup {Wakeup}
      BY <3>1
    <3> QED
      BY <1>7, <3>2 DEF FireTimer
  <2>2. fired' \subseteq Timers
    BY <1>7, <2>1 DEF FireTimer, Entry
  <2>3. asked' \subseteq Timers
    BY <1>7, ZenonT(60) DEF FireTimer
  <2> QED
    BY <1>7, <2>2, <2>3 DEF FireTimer
<1>8. CASE Tick
  BY <1>8 DEF Tick
<1>9. CASE UNCHANGED vars
  BY <1>9 DEF vars
<1> QED
  BY <1>1, <1>2, <1>3, <1>4, <1>5, <1>6, <1>7, <1>8, <1>9, ZenonT(60) DEF Next, LoopStep

(* Every variable of the event loop keeps its type, the lists of timers    *)
(* included, for any number of timers, threads and delays.                 *)
THEOREM TypeCorrect == Spec => []TypeOK
<1>1. Init => SmallTypes
  BY EventAssumption DEF Init, SmallTypes
<1>2. Inv /\ SmallTypes => TypeOK
  BY DEF Inv, TypeInv, SmallTypes, TypeOK
<1> QED
  BY <1>1, <1>2, SmallStep, Invariant, PTL DEF Spec

-----------------------------------------------------------------------------
(* The wake lock.                                                         *)

\* What a sequence without repetitions holds after an append.
LEMMA RangeOfAppend ==
  ASSUME NEW S, NEW s \in Seq(S), NEW e \in S
  PROVE  /\ Append(s, e) \in Seq(S)
         /\ Range(Append(s, e)) = Range(s) \cup {e}
         /\ IsInjective(s) /\ e \notin Range(s) => IsInjective(Append(s, e))
<1>1. /\ Append(s, e) \in Seq(S) /\ Len(Append(s, e)) = Len(s) + 1
      /\ DOMAIN s = 1..Len(s) /\ DOMAIN Append(s, e) = 1..(Len(s) + 1)
      /\ \A i \in 1..Len(s) : Append(s, e)[i] = s[i]
      /\ Append(s, e)[Len(s) + 1] = e
  OBVIOUS
<1>2. Range(Append(s, e)) = Range(s) \cup {e}
  BY <1>1, SMTT(60) DEF Range
<1>3. ASSUME IsInjective(s), e \notin Range(s)
      PROVE  IsInjective(Append(s, e))
  BY <1>1, <1>3 DEF Range, IsInjective
<1> QED
  BY <1>1, <1>2, <1>3

\* What it holds after its head is taken.
LEMMA RangeOfTail ==
  ASSUME NEW S, NEW s \in Seq(S), s # <<>>, IsInjective(s)
  PROVE  /\ Head(s) \in S /\ Tail(s) \in Seq(S)
         /\ Range(s) = Range(Tail(s)) \cup {Head(s)}
         /\ Head(s) \notin Range(Tail(s))
         /\ IsInjective(Tail(s))
<1>1. /\ Len(s) \in Nat \ {0} /\ Head(s) = s[1] /\ Head(s) \in S
      /\ Tail(s) \in Seq(S) /\ DOMAIN Tail(s) = 1..(Len(s) - 1)
      /\ DOMAIN s = 1..Len(s)
      /\ \A i \in 1..(Len(s) - 1) : Tail(s)[i] = s[i + 1]
  OBVIOUS
<1>2. \A i \in 1..Len(s) : i = 1 \/ i - 1 \in 1..(Len(s) - 1)
  BY <1>1
<1>3. Range(s) = Range(Tail(s)) \cup {Head(s)}
  <2>1. ASSUME NEW x \in Range(s) PROVE x \in Range(Tail(s)) \cup {Head(s)}
    <3>1. PICK i \in 1..Len(s) : x = s[i]
      BY <1>1 DEF Range
    <3>2. CASE i = 1
      BY <3>1, <3>2, <1>1
    <3>3. CASE i - 1 \in 1..(Len(s) - 1)
      <4>1. x = Tail(s)[i - 1]
        BY <3>1, <3>3, <1>1
      <4> QED
        BY <4>1, <3>3, <1>1, ZenonT(60) DEF Range
    <3> QED
      BY <3>2, <3>3, <1>2
  <2>2. ASSUME NEW x \in Range(Tail(s)) PROVE x \in Range(s)
    BY <1>1 DEF Range
  <2>3. Head(s) \in Range(s)
    BY <1>1 DEF Range
  <2> QED
    BY <2>1, <2>2, <2>3
<1>4. Head(s) \notin Range(Tail(s))
  BY <1>1 DEF Range, IsInjective
<1>5. IsInjective(Tail(s))
  BY <1>1 DEF IsInjective
<1> QED
  BY <1>1, <1>3, <1>4, <1>5

\* A timer is in the list or being run, never both, and the loop runs none
\* while it sleeps.
WakeTypes ==
  /\ WakeTypeOK /\ userParam \subseteq TimeoutInfos
  /\ loopAt = "select" <=> firing = NULL
  /\ firing \notin Range(wakeTimers)

\* s_last_wake_timeout_info is never the address of a timer that was freed.
Remembered ==
  /\ s_last_wake_timeout_info \in Allocated \cup {NULL}
  /\ loopAt = "free" => s_last_wake_timeout_info # firing

\* The timer a thread has just set runs and is not the one to cancel.
NewTimers ==
  \A t \in Reporters : Cancelling(t) =>
    /\ p_info[t] \in Range(wakeTimers)
    /\ p_info[t] # s_last_wake_timeout_info
    /\ reporting[t] = "cancel" => p_info[t] # previous[t]
    /\ \A u \in Reporters : Cancelling(u) /\ u # t => p_info[u] # p_info[t]

\* While no two threads do so at once, it is not cancelled.
OneAtATime ==
  ~overlapped => \A t \in Reporters : Cancelling(t) =>
                   /\ p_info[t] \notin userParam
                   /\ \A u \in Reporters : Cancelling(u) => u = t

WakeInv == WakeTypes /\ Remembered /\ NewTimers /\ OneAtATime /\ HeldUntilTimeout

LEMMA InitWakeInv == WakeInit => WakeInv
<1> SUFFICES ASSUME WakeInit PROVE WakeInv
  OBVIOUS
<1> USE DEF WakeInit
<1>1. wakeTimers \in Seq(TimeoutInfos) /\ Range(wakeTimers) = {} /\ IsInjective(wakeTimers)
  BY DEF Range, IsInjective
<1>2. 0 \in Nat /\ 0 \in 0..ResponsesMax
  BY WakeBounds
<1> QED
  BY <1>1, <1>2, ZenonT(60) DEF WakeInv, WakeTypes, WakeTypeOK, Remembered, NewTimers, OneAtATime,
     HeldUntilTimeout, Cancelling, Allocated

\* A thread sets a timer: the address is not in use.
LEMMA TimerSet ==
  ASSUME WakeInv, NEW t \in Reporters, internalRequestTimedCallback(t),
         ~Cancelling(t), reporting' = [reporting EXCEPT ![t] = "read"],
         held' \in BOOLEAN, s_wakelock_count' \in Nat, acks' \in 0..ResponsesMax,
         UNCHANGED <<version, s_last_wake_timeout_info, previous, loopVars>>
  PROVE  WakeInv'
<1> USE WakeBounds
<1>t. WakeTypes /\ WakeTypeOK
  BY DEF WakeInv, WakeTypes
<1>1. PICK i \in TimeoutInfos \ Allocated :
        /\ wakeTimers' = Append(wakeTimers, i)
        /\ userParam' = userParam \ {i}
        /\ p_info' = [p_info EXCEPT ![t] = i]
        /\ overlapped' = (overlapped \/ ~mutexFree)
  BY ZenonT(60) DEF internalRequestTimedCallback
<1>2. /\ wakeTimers' \in Seq(TimeoutInfos) /\ IsInjective(wakeTimers')
      /\ Range(wakeTimers') = Range(wakeTimers) \cup {i}
      /\ i \notin Range(wakeTimers) /\ i # firing /\ i # NULL
  BY <1>1, <1>t, RangeOfAppend DEF Allocated, WakeTypeOK
<1>3. /\ p_info'[t] = i /\ reporting'[t] = "read"
      /\ \A u \in Reporters \ {t} : p_info'[u] = p_info[u] /\ reporting'[u] = reporting[u]
  BY <1>1, <1>t, SMTT(60) DEF WakeTypeOK
<1>4. WakeTypeOK'
  BY <1>1, <1>2, <1>t DEF WakeTypeOK, Allocated, loopVars, mutexFree
<1>5. WakeTypes'
  BY <1>1, <1>2, <1>4, <1>t DEF WakeTypes, loopVars
<1>6. Remembered' /\ s_last_wake_timeout_info # i
  BY <1>1, <1>2, ZenonT(60) DEF WakeInv, Remembered, Allocated, loopVars
<1>7. NewTimers'
  <2>1. NewTimers
    BY ZenonT(60) DEF WakeInv
  <2> QED
    BY <1>2, <1>3, <1>6, <2>1, ZenonT(60) DEF NewTimers, Cancelling
<1>8. OneAtATime'
  <2>1. SUFFICES ASSUME ~overlapped' PROVE
          \A u \in Reporters : (u = t => p_info'[u] \notin userParam')
                              /\ (u # t => reporting'[u] \notin {"read", "cancel", "set"})
    BY DEF OneAtATime, Cancelling
  <2>2. \A u \in Reporters : ~Cancelling(u)
    BY <1>1, <2>1, ZenonT(60) DEF mutexFree
  <2> QED
    BY <1>1, <1>3, <2>2 DEF Cancelling
<1>9. WillRelease'
  BY <1>1, <1>2 DEF WillRelease
<1> QED
  BY <1>5, <1>6, <1>7, <1>8, <1>9 DEF WakeInv, HeldUntilTimeout

LEMMA StepWakeInv == WakeInv /\ [WakeNext]_wakeVars => WakeInv'
<1> SUFFICES ASSUME WakeInv, [WakeNext]_wakeVars PROVE WakeInv'
  OBVIOUS
<1> USE WakeBounds
<1>t. WakeTypes /\ WakeTypeOK /\ Remembered /\ NewTimers /\ OneAtATime /\ HeldUntilTimeout
  BY ZenonT(60) DEF WakeInv, WakeTypes
<1>1. CASE UNCHANGED wakeVars
  BY <1>1, ZenonT(60) DEF WakeInv, wakeVars, WakeTypes, WakeTypeOK, Remembered, NewTimers, OneAtATime,
     HeldUntilTimeout, WillRelease, Cancelling, Allocated
<1>2. ASSUME NEW t \in Reporters, grabPartialWakeLock(t) PROVE WakeInv'
  <2>0. ~Cancelling(t)
    BY <1>2 DEF grabPartialWakeLock, Cancelling
  <2>1. CASE UNCHANGED <<s_wakelock_count, wakeTimers, userParam, p_info, overlapped>>
    <3>0. /\ UNCHANGED <<version, s_last_wake_timeout_info, previous, loopAt, firing, param, acks,
                         s_wakelock_count, wakeTimers, userParam, p_info, overlapped>>
          /\ reporting' = [reporting EXCEPT ![t] = "deliver"]
          /\ held' = FALSE \/ (held' = TRUE /\ version < 13)
      BY <1>2, <2>1 DEF grabPartialWakeLock, loopVars, internalRequestTimedCallback
    <3>1. reporting'[t] = "deliver" /\ \A u \in Reporters \ {t} : reporting'[u] = reporting[u]
      BY <3>0, <1>t DEF WakeTypeOK
    <3>2. WakeTypes'
      BY <3>0, <1>t, ZenonT(60) DEF WakeTypes, WakeTypeOK, Allocated
    <3>3. Remembered'
      BY <3>0, <1>t, ZenonT(60) DEF Remembered, Allocated
    <3>4. NewTimers' /\ OneAtATime'
      BY <2>0, <3>0, <3>1, <1>t DEF NewTimers, OneAtATime, Cancelling
    <3> QED
      BY <3>0, <3>1, <3>2, <3>3, <3>4 DEF WakeInv, HeldUntilTimeout
  <2>2. CASE internalRequestTimedCallback(t) /\ reporting' = [reporting EXCEPT ![t] = "read"]
             /\ held' = TRUE /\ s_wakelock_count' = s_wakelock_count + 1
    <3>1. s_wakelock_count' \in Nat /\ acks' \in 0..ResponsesMax /\ held' \in BOOLEAN
      BY <1>2, <2>2, <1>t DEF WakeTypeOK, grabPartialWakeLock
    <3> QED
      BY <2>0, <2>2, <3>1, <1>2, TimerSet, ZenonT(60) DEF grabPartialWakeLock
  <2> QED
    BY <1>2, <2>1, <2>2, ZenonT(60) DEF grabPartialWakeLock
<1>3. ASSUME NEW t \in Reporters, deliverResponse(t) PROVE WakeInv'
  <2>0. ~Cancelling(t) /\ acks' \in 0..ResponsesMax
    BY <1>3, <1>t, ZenonT(60) DEF deliverResponse, Cancelling, WakeTypeOK
  <2>1. CASE UNCHANGED <<wakeTimers, userParam, p_info, overlapped>>
    <3>0. /\ UNCHANGED <<version, s_last_wake_timeout_info, previous, loopAt, firing, param,
                         s_wakelock_count, wakeTimers, userParam, p_info, overlapped>>
          /\ reporting' = [reporting EXCEPT ![t] = "idle"]
          /\ held' = FALSE \/ (held' = held /\ version >= 13)
      BY <1>3, <2>1, <1>t, RangeOfAppend DEF deliverResponse, loopVars, internalRequestTimedCallback,
         WakeTypeOK
    <3>1. reporting'[t] = "idle" /\ \A u \in Reporters \ {t} : reporting'[u] = reporting[u]
      BY <3>0, <1>t DEF WakeTypeOK
    <3>2. WakeTypes'
      BY <2>0, <3>0, <1>t, ZenonT(60) DEF WakeTypes, WakeTypeOK, Allocated
    <3>3. Remembered'
      BY <3>0, <1>t DEF Remembered, Allocated
    <3>4. NewTimers' /\ OneAtATime'
      BY <2>0, <3>0, <3>1, <1>t, ZenonT(60) DEF NewTimers, OneAtATime, Cancelling
    <3>5. version >= 13 => ~(version < 13)
      BY <1>t DEF WakeTypeOK
    <3> QED
      BY <3>0, <3>1, <3>2, <3>3, <3>4, <3>5, <1>t, SMTT(60) DEF WakeInv, HeldUntilTimeout, WillRelease
  <2>2. CASE internalRequestTimedCallback(t) /\ reporting' = [reporting EXCEPT ![t] = "read"]
             /\ UNCHANGED <<held, acks>>
    <3>1. s_wakelock_count' \in Nat /\ held' \in BOOLEAN
      BY <1>3, <2>2, <1>t, ZenonT(60) DEF WakeTypeOK, deliverResponse
    <3> QED
      BY <2>0, <2>2, <3>1, <1>3, TimerSet, ZenonT(60) DEF deliverResponse
  <2> QED
    BY <1>3, <2>1, <2>2, ZenonT(60) DEF deliverResponse
<1>4. ASSUME NEW t \in Reporters, readPrevious(t) PROVE WakeInv'
  <2>0. /\ UNCHANGED <<version, held, s_wakelock_count, wakeTimers, userParam,
                 s_last_wake_timeout_info, p_info, loopAt, firing, param, acks, overlapped>>
        /\ reporting'[t] = "cancel" /\ reporting[t] = "read"
        /\ previous'[t] = s_last_wake_timeout_info
        /\ \A u \in Reporters \ {t} : reporting'[u] = reporting[u] /\ previous'[u] = previous[u]
        /\ reporting' \in [Reporters -> {"idle", "deliver", "read", "cancel", "set"}]
        /\ previous' \in [Reporters -> TimeoutInfos \cup {NULL}]
    BY <1>4, <1>t, ZenonT(60) DEF readPrevious, loopVars, WakeTypeOK
  <2>1. WakeTypes' /\ Remembered'
    BY <2>0, <1>t, ZenonT(60) DEF WakeTypes, WakeTypeOK, Remembered, Allocated
  <2>2. NewTimers'
    <3>1. \A u \in Reporters : Cancelling(u)' <=> Cancelling(u)
      BY <2>0, ZenonT(60) DEF Cancelling
    <3>2. p_info[t] # previous'[t]
      BY <2>0, <1>t, ZenonT(60) DEF NewTimers, Cancelling
    <3>3. \A u \in Reporters : reporting'[u] = "cancel" => p_info[u] # previous'[u] \/ ~Cancelling(u)
      BY <2>0, <3>2, <1>t, ZenonT(60) DEF NewTimers
    <3> QED
      BY <2>0, <3>1, <3>3, <1>t, ZenonT(60) DEF NewTimers
  <2>4. OneAtATime'
    BY <2>0, <1>t, ZenonT(60) DEF OneAtATime, Cancelling
  <2>3. HeldUntilTimeout'
    BY <2>0, <1>t, ZenonT(60) DEF HeldUntilTimeout, WillRelease
  <2> QED
    BY <2>1, <2>2, <2>3, <2>4 DEF WakeInv
<1>5. ASSUME NEW t \in Reporters, cancelPrevious(t) PROVE WakeInv'
  <2>0. /\ UNCHANGED <<version, held, s_wakelock_count, wakeTimers,
                 s_last_wake_timeout_info, p_info, loopAt, firing, param, acks, overlapped>>
        /\ reporting'[t] = "set" /\ reporting[t] = "cancel"
        /\ \A u \in Reporters \ {t} : reporting'[u] = reporting[u] /\ previous'[u] = previous[u]
        /\ reporting' \in [Reporters -> {"idle", "deliver", "read", "cancel", "set"}]
        /\ previous' \in [Reporters -> TimeoutInfos \cup {NULL}]
        /\ userParam' = userParam \cup ({previous[t]} \cap Allocated \cap TimeoutInfos)
    BY <1>5, <1>t, ZenonT(60) DEF cancelPrevious, loopVars, WakeTypeOK
  <2>1. WakeTypes' /\ Remembered'
    BY <2>0, <1>t, ZenonT(60) DEF WakeTypes, WakeTypeOK, Remembered, Allocated
  <2>2. NewTimers'
    <3>1. \A u \in Reporters : Cancelling(u)' <=> Cancelling(u)
      BY <2>0, ZenonT(60) DEF Cancelling
    <3>2. \A u \in Reporters : reporting'[u] = "cancel" => reporting[u] = "cancel" /\ previous'[u] = previous[u]
      BY <2>0, ZenonT(60)
    <3> QED
      BY <2>0, <3>1, <3>2, <1>t, ZenonT(60) DEF NewTimers
  <2>3. OneAtATime'
    BY <2>0, <1>t, ZenonT(60) DEF NewTimers, OneAtATime, Cancelling
  <2>4. HeldUntilTimeout'
    BY <2>0, <2>2, <2>3, ZenonT(60) DEF HeldUntilTimeout, WillRelease, NewTimers, OneAtATime, Cancelling
  <2> QED
    BY <2>1, <2>2, <2>3, <2>4 DEF WakeInv
<1>6. ASSUME NEW t \in Reporters, setLast(t) PROVE WakeInv'
  <2>0. /\ UNCHANGED <<version, held, s_wakelock_count, wakeTimers, userParam,
                 previous, loopAt, firing, param, acks, overlapped>>
        /\ reporting'[t] \in {"idle", "deliver"} /\ reporting[t] = "set"
        /\ \A u \in Reporters \ {t} : reporting'[u] = reporting[u] /\ p_info'[u] = p_info[u]
        /\ reporting' \in [Reporters -> {"idle", "deliver", "read", "cancel", "set"}]
        /\ p_info' \in [Reporters -> TimeoutInfos \cup {NULL}]
        /\ s_last_wake_timeout_info' = p_info[t]
    BY <1>6, <1>t DEF setLast, loopVars, WakeTypeOK
  <2>1. p_info[t] \in Range(wakeTimers) /\ (~overlapped => p_info[t] \notin userParam)
    BY <2>0, <1>t, ZenonT(60) DEF NewTimers, OneAtATime, Cancelling
  <2>2. WakeTypes' /\ Remembered'
    BY <2>0, <2>1, <1>t DEF WakeTypes, WakeTypeOK, Remembered, Allocated
  <2>3. NewTimers' /\ OneAtATime'
    BY <2>0, <1>t, ZenonT(60) DEF NewTimers, OneAtATime, Cancelling
  <2>4. HeldUntilTimeout'
    BY <2>0, <2>1, ZenonT(60) DEF HeldUntilTimeout, WillRelease
  <2> QED
    BY <2>2, <2>3, <2>4, ZenonT(60) DEF WakeInv
<1>7. CASE releaseWakeLock
  <2>0. /\ UNCHANGED <<version, wakeTimers, s_last_wake_timeout_info, reporting,
                 p_info, previous, loopAt, firing, param, overlapped>>
        /\ s_wakelock_count' \in Nat /\ acks' \in 0..ResponsesMax /\ held' \in BOOLEAN
        /\ held' = FALSE \/ (held' = held /\ userParam' = userParam)
        /\ userParam \subseteq userParam'
        /\ userParam' \subseteq
             userParam \cup ({s_last_wake_timeout_info} \cap Allocated \cap TimeoutInfos)
    <3>1. s_wakelock_count' \in Nat /\ acks' \in 0..ResponsesMax
      BY <1>7, <1>t, SMTT(60) DEF releaseWakeLock, WakeTypeOK
    <3> QED
      BY <3>1, <1>7, <1>t, ZenonT(60) DEF releaseWakeLock, loopVars, WakeTypeOK
  <2>1. WakeTypes' /\ Remembered'
    BY <2>0, <1>t DEF WakeTypes, WakeTypeOK, Remembered, Allocated
  <2>2. NewTimers' /\ OneAtATime'
    BY <2>0, <1>t, ZenonT(60) DEF NewTimers, OneAtATime, Cancelling
  <2>4. HeldUntilTimeout'
    BY <2>0, <1>t, ZenonT(60) DEF HeldUntilTimeout, WillRelease
  <2> QED
    BY <2>1, <2>2, <2>4 DEF WakeInv
<1>8. CASE userTimerCallback
  <2>0. /\ UNCHANGED <<version, held, s_wakelock_count, userParam,
                 s_last_wake_timeout_info, reporting, p_info, previous, acks, overlapped>>
        /\ loopAt = "select" /\ loopAt' = "callback" /\ firing = NULL
        /\ firing' = Head(wakeTimers) /\ wakeTimers' = Tail(wakeTimers)
        /\ param' = (Head(wakeTimers) \in userParam)
        /\ \A t \in Reporters : p_info[t] # Head(wakeTimers)
    BY <1>8, <1>t, ZenonT(60) DEF userTimerCallback, InTime, WakeTypes
  <2>1. /\ Head(wakeTimers) \in TimeoutInfos /\ wakeTimers' \in Seq(TimeoutInfos)
        /\ Range(wakeTimers) = Range(wakeTimers') \cup {firing'}
        /\ firing' \notin Range(wakeTimers')
        /\ IsInjective(wakeTimers')
    <3>1. wakeTimers \in Seq(TimeoutInfos) /\ wakeTimers # <<>> /\ IsInjective(wakeTimers)
      BY <1>8, <1>t, ZenonT(60) DEF userTimerCallback, WakeTypeOK
    <3> QED
      BY <2>0, <3>1, RangeOfTail, ZenonT(60)
  <2>2. WakeTypes' /\ Remembered'
    BY <2>0, <2>1, <1>t DEF WakeTypes, WakeTypeOK, Remembered, Allocated
  <2>3. NewTimers' /\ OneAtATime'
    BY <2>0, <2>1, <1>t, ZenonT(60) DEF NewTimers, OneAtATime, Cancelling
  <2>4. HeldUntilTimeout'
    BY <2>0, <2>1, <1>t, ZenonT(60) DEF HeldUntilTimeout, WillRelease
  <2> QED
    BY <2>2, <2>3, <2>4 DEF WakeInv
<1>9. CASE wakeTimeoutCallback
  <2>0. /\ UNCHANGED <<version, wakeTimers, userParam, s_last_wake_timeout_info,
                 reporting, p_info, previous, firing, acks, overlapped>>
        /\ s_wakelock_count' \in Nat
        /\ loopAt = "callback" /\ loopAt' = "test" /\ param' = FALSE
        /\ held' = FALSE \/ (held' = held /\ param)
    BY <1>9, <1>t DEF wakeTimeoutCallback, WakeTypeOK
  <2>1. WakeTypes' /\ Remembered'
    BY <2>0, <1>t, ZenonT(60) DEF WakeTypes, WakeTypeOK, Remembered, Allocated
  <2>2. NewTimers' /\ OneAtATime'
    BY <2>0, <1>t, ZenonT(60) DEF NewTimers, OneAtATime, Cancelling
  <2>4. HeldUntilTimeout'
    BY <2>0, <1>t, ZenonT(60) DEF HeldUntilTimeout, WillRelease
  <2> QED
    BY <2>1, <2>2, <2>4 DEF WakeInv
<1>10. CASE testLast
  <2>1. WakeTypes' /\ Remembered'
    BY <1>10, <1>t, ZenonT(60) DEF testLast, WakeTypes, WakeTypeOK, Remembered, Allocated
  <2>2. NewTimers' /\ OneAtATime'
    BY <1>10, <1>t, ZenonT(60) DEF testLast, NewTimers, OneAtATime, Cancelling
  <2>4. HeldUntilTimeout'
    BY <1>10, <1>t DEF testLast, HeldUntilTimeout, WillRelease
  <2> QED
    BY <2>1, <2>2, <2>4 DEF WakeInv
<1>11. CASE freeInfo
  <2>0. /\ UNCHANGED <<version, held, s_wakelock_count, wakeTimers, reporting,
                       p_info, previous, param, acks, overlapped>>
        /\ userParam' = userParam \ {firing} /\ firing' = NULL /\ loopAt' = "select"
        /\ loopAt \in {"clear", "free"}
        /\ \/ s_last_wake_timeout_info' = NULL
           \/ loopAt = "free" /\ s_last_wake_timeout_info' = s_last_wake_timeout_info
    BY <1>11, ZenonT(60) DEF freeInfo
  <2>1. NULL \notin Range(wakeTimers)
    BY <1>t, SMTT(60) DEF WakeTypeOK, Range
  <2>2. WakeTypes' /\ Remembered'
    BY <2>0, <2>1, <1>t DEF WakeTypes, WakeTypeOK, Remembered, Allocated
  <2>3. NewTimers' /\ OneAtATime'
    BY <2>0, <2>1, <1>t, ZenonT(60) DEF NewTimers, OneAtATime, Cancelling
  <2>4. HeldUntilTimeout'
    BY <2>0, <1>t DEF HeldUntilTimeout, WillRelease
  <2> QED
    BY <2>2, <2>3, <2>4 DEF WakeInv
<1> QED
  BY <1>1, <1>2, <1>3, <1>4, <1>5, <1>6, <1>7, <1>8, <1>9, <1>10, <1>11 DEF WakeNext

\* Whatever the threads, the version and the number of timers: while the wake
\* lock is held a timer that was not cancelled will give it back, or a thread of
\* version 12 is about to set one, unless two threads have cancelled at once.
THEOREM LockIsGivenBack == WakeSpec => []HeldUntilTimeout
<1>1. WakeInv => HeldUntilTimeout
  BY DEF WakeInv
<1> QED
  BY <1>1, InitWakeInv, StepWakeInv, PTL DEF WakeSpec

\* The variables of the wake lock have their types.
THEOREM WakeLockTypes == WakeSpec => []WakeTypeOK
<1>1. WakeInv => WakeTypeOK
  BY DEF WakeInv, WakeTypes
<1> QED
  BY <1>1, InitWakeInv, StepWakeInv, PTL DEF WakeSpec
=============================================================================
