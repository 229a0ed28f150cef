-------------------------- MODULE SctpSession_proofs --------------------------
(***************************************************************************)
(* Theorems about SctpSession, for any number of sessions and any bounds.  *)
(* No callback meets a session whose receiver is gone: a session the timer *)
(* thread has looked up cannot get past usrsctp_close, and only behind     *)
(* that its channel is dropped.  And the queues of a session that is       *)
(* polled hold exactly what is under way, in its order: that is an         *)
(* invariant on what Numbers picks from a channel, which grows at the end  *)
(* with every callback and loses its head with every poll.                 *)
(***************************************************************************)
EXTENDS SctpSession, TLAPS, NaturalsInduction, WellFoundedInduction

USE DEF table, task, queues, counts

StageOK == stage \in [Sessions -> {"none", "failed", "live", "destroyed", "closed", "gone"}]

\* A position of address_ids stands for the session of that id.
InStep == address_ids = address_instances

\* A callback under way has a session of its own that is still open, or found none.
Calling ==
  timer # Idle =>
    /\ timer.kind \in TimerKinds /\ timer.of \in Sessions
    /\ timer.target \in {timer.of, Nobody}
    /\ stage[timer.of] \in {"live", "destroyed"}

Inv == StageOK /\ InStep /\ Calling /\ NoAbort

\* The callbacks of the timer thread only send (usrsctp_write_callback).
SendsOnly == TimerKinds \subseteq {"MessageSend"}

-----------------------------------------------------------------------------
LEMMA InitInv == Init => Inv
  BY DEF Init, EmptyTable, Each, Inv, StageOK, InStep, Calling, NoAbort

\* find_address finds the session of that id, or nobody.
LEMMA FindAddressFinds ==
  ASSUME InStep, NEW s \in Sessions
  PROVE  FindAddress(s) \in {s, Nobody}
<1>1. CASE s \in ToSet(address_ids)
  <2>1. \E i \in DOMAIN address_ids : address_ids[i] = s
    BY <1>1 DEF ToSet
  <2>2. address_ids[CHOOSE i \in DOMAIN address_ids : address_ids[i] = s] = s
    BY <2>1
  <2> QED
    BY <1>1, <2>2 DEF FindAddress, InStep
<1>2. CASE s \notin ToSet(address_ids)
  BY <1>2 DEF FindAddress
<1> QED
  BY <1>1, <1>2

-----------------------------------------------------------------------------
LEMMA CreateSessionInv == ASSUME Inv, NEW s \in Sessions, CreateSession(s) PROVE Inv'
<1>1. InStep'
  BY DEF Inv, CreateSession, CreateAddress, InStep
<1>2. StageOK' /\ \A r \in Sessions : stage[r] \in {"live", "destroyed"} => stage'[r] = stage[r]
  BY DEF Inv, StageOK, CreateSession
<1> QED
  BY <1>1, <1>2 DEF Inv, CreateSession, Calling, NoAbort

LEMMA PollInv == ASSUME Inv, NEW s \in Sessions, Poll(s) \/ Notify(s) PROVE Inv'
<1>1. UNCHANGED <<address_ids, address_instances, stage, timer, aborted>>
  BY DEF Poll, PollBegin, TakePacket, TakeMessage, ChannelPending, FeedDatagram, ReadBlocks,
         WritePackets, ExecuteAction, ActionsPending, HandleData, TaskSleeps, Notify
<1> QED
  BY <1>1 DEF Inv, StageOK, InStep, Calling, NoAbort

\* The session leaves the table before anything else; a callback may still be
\* under way.
LEMMA DropSessionInv == ASSUME Inv, NEW s \in Sessions, DropSession(s) PROVE Inv'
<1>1. InStep'
  BY DEF Inv, DropSession, DestroyAddress, InStep
<1>2. StageOK' /\ \A r \in Sessions : stage'[r] = IF r = s THEN "destroyed" ELSE stage[r]
  BY DEF Inv, StageOK, DropSession
<1> QED
  BY <1>1, <1>2 DEF Inv, DropSession, Calling, NoAbort

\* usrsctp_close waits for the callback of its socket.
LEMMA CloseSocketInv == ASSUME Inv, NEW s \in Sessions, CloseSocket(s) PROVE Inv'
<1>1. StageOK' /\ \A r \in Sessions : r # s => stage'[r] = stage[r]
  BY DEF Inv, StageOK, CloseSocket
<1> QED
  BY <1>1 DEF Inv, CloseSocket, InStep, Calling, NoAbort

\* The receiver goes last, when no callback knows the session any more.
LEMMA DropChannelInv == ASSUME Inv, NEW s \in Sessions, DropChannel(s) PROVE Inv'
<1>1. StageOK' /\ \A r \in Sessions : stage[r] # "closed" => stage'[r] = stage[r]
  BY DEF Inv, StageOK, DropChannel
<1> QED
  BY <1>1 DEF Inv, DropChannel, InStep, Calling, NoAbort

LEMMA TimerFindInv == ASSUME Inv, NEW s \in Sessions, TimerFind(s) PROVE Inv'
<1>1. PICK kind \in TimerKinds : timer' = [kind |-> kind, of |-> s, target |-> FindAddress(s)]
  BY DEF TimerFind
<1>2. FindAddress(s) \in {s, Nobody} /\ stage[s] \in {"live", "destroyed"}
  BY FindAddressFinds DEF Inv, TimerFind
<1>3. Calling'
  BY <1>1, <1>2 DEF TimerFind, Calling
<1> QED
  BY <1>3 DEF Inv, TimerFind, StageOK, InStep, NoAbort

\* What was found is still there when the event is sent, and a packet that
\* found nobody is dropped.
LEMMA TimerSendInv == ASSUME Inv, SendsOnly, TimerSend PROVE Inv'
<1>1. timer.kind = "MessageSend" /\ timer.target \in {timer.of, Nobody}
  BY DEF Inv, Calling, SendsOnly, TimerSend
<1>2. timer.target # Nobody => stage[timer.target] # "gone"
  BY <1>1 DEF Inv, Calling, TimerSend
<1>3. ~aborted'
  <2>1. CASE timer.target = Nobody
    BY <1>1, <2>1, Zenon DEF Inv, NoAbort, TimerSend
  <2>2. CASE timer.target # Nobody
    BY <1>2, <2>2, Zenon DEF Inv, NoAbort, TimerSend
  <2> QED
    BY <2>1, <2>2
<1>4. timer' = Idle /\ UNCHANGED <<address_ids, address_instances, stage>>
  BY DEF TimerSend
<1> QED
  BY <1>3, <1>4 DEF Inv, StageOK, InStep, Calling, NoAbort

-----------------------------------------------------------------------------
LEMMA NextInv == ASSUME SendsOnly PROVE Inv /\ [Next]_vars => Inv'
<1> SUFFICES ASSUME Inv, [Next]_vars PROVE Inv'
  OBVIOUS
<1>1. ASSUME NEW s \in Sessions, CreateSession(s) PROVE Inv'
  BY <1>1, CreateSessionInv
<1>2. ASSUME NEW s \in Sessions, Poll(s) \/ Notify(s) PROVE Inv'
  BY <1>2, PollInv
<1>3. ASSUME NEW s \in Sessions, Drop(s) PROVE Inv'
  BY <1>3, DropSessionInv, CloseSocketInv, DropChannelInv DEF Drop
<1>4. ASSUME NEW s \in Sessions, TimerFind(s) PROVE Inv'
  BY <1>4, TimerFindInv
<1>5. CASE TimerSend
  BY <1>5, TimerSendInv
<1>6. CASE UNCHANGED vars
  BY <1>6 DEF vars, Inv, StageOK, InStep, Calling, NoAbort
<1> QED
  BY <1>1, <1>2, <1>3, <1>4, <1>5, <1>6 DEF Next

\* As long as the timer thread only sends, no callback panics, in whatever
\* order sessions are made, polled and dropped (sctp/mod.rs:142-151, 207-268,
\* 513-517).
THEOREM NoCallbackAborts == ASSUME SendsOnly PROVE Spec => []NoAbort
<1>1. Inv => NoAbort
  BY DEF Inv
<1> QED
  BY <1>1, InitInv, NextInv, PTL DEF Spec
-----------------------------------------------------------------------------
(***************************************************************************)
(* What Numbers picks from the events of a channel.  Induction over their  *)
(* number is an argument by the least one there is a counterexample at.    *)
(***************************************************************************)
Before == {p \in Nat \X Nat : p[1] < p[2]}

LEMMA LeastMember ==
  ASSUME NEW T \in SUBSET Nat, T # {}
  PROVE  \E n \in T : \A m \in T : n <= m
<1>1. IsWellFoundedOn(Before, Nat)
  BY NatLessThanWellFounded DEF OpToRel, Before
<1>2. PICK n \in T : \A m \in T : ~ (<<m, n>> \in Before)
  BY <1>1, WFMin, Zenon
<1>3. ASSUME NEW m \in T PROVE n <= m
  <2>1. m \in Nat /\ n \in Nat
    OBVIOUS
  <2>2. <<m, n>> \in Nat \X Nat /\ <<m, n>>[1] = m /\ <<m, n>>[2] = n
    BY <2>1
  <2>3. ~ (m < n)
    BY <1>2, <2>2 DEF Before
  <2> QED BY <2>1, <2>3
<1> QED BY <1>2, <1>3

Kinds  == {"MessageSend", "MessageReceived"}
Events == [kind : Kinds, of : Sessions, number : Nat]
Pairs  == Sessions \X Nat

Pair(event) == <<event.of, event.number>>

\* f picks from the first n events of v, one after the other.
Picking(f, v, kind, n) ==
  f = [k \in 0 .. n |->
         IF k = 0 THEN <<>>
         ELSE IF v[k].kind = kind THEN Append(f[k - 1], <<v[k].of, v[k].number>>) ELSE f[k - 1]]

\* The same as facts about its values, all of them sequences of pairs.
Picked(f, v, kind) ==
  /\ f[0] = <<>>
  /\ \A k \in 1 .. Len(v) :
       f[k] = IF v[k].kind = kind THEN Append(f[k - 1], Pair(v[k])) ELSE f[k - 1]
  /\ \A k \in 0 .. Len(v) : f[k] \in Seq(Pairs)

LEMMA PickingExtends ==
  ASSUME NEW v, NEW kind, NEW n \in Nat, NEW f, Picking(f, v, kind, n)
  PROVE  \E g : Picking(g, v, kind, n + 1)
<1> DEFINE last == IF v[n + 1].kind = kind
                   THEN Append(f[n], <<v[n + 1].of, v[n + 1].number>>) ELSE f[n]
           g == [k \in 0 .. n + 1 |-> IF k = n + 1 THEN last ELSE f[k]]
<1>1. \A k \in 0 .. n :
        f[k] = IF k = 0 THEN <<>>
               ELSE IF v[k].kind = kind THEN Append(f[k - 1], <<v[k].of, v[k].number>>) ELSE f[k - 1]
  BY DEF Picking
<1>2. ASSUME NEW k \in 0 .. n + 1
      PROVE  g[k] = IF k = 0 THEN <<>>
                    ELSE IF v[k].kind = kind
                         THEN Append(g[k - 1], <<v[k].of, v[k].number>>) ELSE g[k - 1]
  <2>1. CASE k = n + 1
    <3>1. k # 0 /\ k - 1 = n /\ n \in 0 .. n + 1 /\ n # n + 1
      BY <2>1
    <3>2. g[n] = f[n] /\ g[k] = last
      BY <2>1, <3>1
    <3> QED BY <2>1, <3>1, <3>2
  <2>2. CASE k # n + 1
    <3>1. k \in 0 .. n /\ g[k] = f[k] /\ (k # 0 => g[k - 1] = f[k - 1])
      BY <2>2
    <3> QED BY <1>1, <3>1
  <2> QED BY <2>1, <2>2
<1>3. g = [k \in 0 .. n + 1 |-> g[k]]
  OBVIOUS
<1> HIDE DEF g
<1>4. Picking(g, v, kind, n + 1)
  BY <1>2, <1>3 DEF Picking
<1> QED BY <1>4

LEMMA PickingExists ==
  ASSUME NEW v, NEW kind, NEW n \in Nat
  PROVE  \E f : Picking(f, v, kind, n)
<1> DEFINE T == {k \in Nat : ~ \E f : Picking(f, v, kind, k)}
<1>1. T = {}
  <2> SUFFICES ASSUME T # {} PROVE FALSE
    OBVIOUS
  <2>1. PICK k \in T : \A m \in T : k <= m
    <3>1. T \in SUBSET Nat
      OBVIOUS
    <3> HIDE DEF T
    <3> QED BY <3>1, LeastMember
  <2>2. k # 0
    <3>1. Picking([j \in 0 .. 0 |-> <<>>], v, kind, 0)
      BY DEF Picking
    <3> QED BY <3>1
  <2>3. k - 1 \in Nat /\ k - 1 \notin T
    BY <2>1, <2>2
  <2>4. PICK f : Picking(f, v, kind, k - 1)
    BY <2>3
  <2>5. \E g : Picking(g, v, kind, (k - 1) + 1)
    BY <2>3, <2>4, PickingExtends
  <2>6. (k - 1) + 1 = k
    OBVIOUS
  <2> QED BY <2>5, <2>6
<1> QED BY <1>1

LEMMA PairOf ==
  ASSUME NEW v \in Seq(Events), NEW k \in 1 .. Len(v)
  PROVE  Pair(v[k]) \in Pairs /\ v[k].kind \in Kinds
<1>1. v[k] \in Events
  OBVIOUS
<1> QED BY <1>1 DEF Events, Pairs, Pair

LEMMA NumbersPicked ==
  ASSUME NEW v \in Seq(Events), NEW kind
  PROVE  \E f : Picked(f, v, kind) /\ Numbers(v, kind) = f[Len(v)]
<1> DEFINE f == CHOOSE f : Picking(f, v, kind, Len(v))
<1>1. Numbers(v, kind) = f[Len(v)]
  BY DEF Numbers, Picking
<1>2. Picking(f, v, kind, Len(v)) /\ Len(v) \in Nat
  <2>1. Len(v) \in Nat
    OBVIOUS
  <2>2. \E g : Picking(g, v, kind, Len(v))
    BY <2>1, PickingExists
  <2>3. Picking(f, v, kind, Len(v))
    BY <2>2, Zenon
  <2> QED BY <2>1, <2>3
<1> HIDE DEF f
<1>3. /\ f[0] = <<>>
      /\ \A k \in 1 .. Len(v) :
           f[k] = IF v[k].kind = kind THEN Append(f[k - 1], Pair(v[k])) ELSE f[k - 1]
  <2>1. \A k \in 0 .. Len(v) :
          f[k] = IF k = 0 THEN <<>>
                 ELSE IF v[k].kind = kind
                      THEN Append(f[k - 1], <<v[k].of, v[k].number>>) ELSE f[k - 1]
    BY <1>2 DEF Picking
  <2>2. 0 \in 0 .. Len(v) /\ \A k \in 1 .. Len(v) : k \in 0 .. Len(v) /\ k # 0
    BY <1>2
  <2> QED BY <2>1, <2>2 DEF Pair
<1> DEFINE T == {k \in Nat : k <= Len(v) /\ f[k] \notin Seq(Pairs)}
<1>4. T = {}
  <2> SUFFICES ASSUME T # {} PROVE FALSE
    OBVIOUS
  <2>1. PICK k \in T : \A m \in T : k <= m
    <3>1. T \in SUBSET Nat
      OBVIOUS
    <3> HIDE DEF T
    <3> QED BY <3>1, LeastMember
  <2>2. k # 0
    <3>1. <<>> \in Seq(Pairs)
      OBVIOUS
    <3>2. f[k] \notin Seq(Pairs)
      OBVIOUS
    <3> QED BY <1>3, <3>1, <3>2
  <2>3. k \in 1 .. Len(v) /\ k - 1 \in Nat /\ k - 1 \notin T /\ k - 1 <= Len(v)
    BY <1>2, <2>1, <2>2
  <2>4. f[k - 1] \in Seq(Pairs)
    BY <2>3
  <2>5. f[k] \in Seq(Pairs)
    <3>1. Pair(v[k]) \in Pairs
      BY <2>3, PairOf
    <3>2. Append(f[k - 1], Pair(v[k])) \in Seq(Pairs)
      BY <2>4, <3>1
    <3> HIDE DEF T
    <3> QED BY <1>3, <2>3, <2>4, <3>2
  <2> QED BY <2>1, <2>5
<1>5. Picked(f, v, kind)
  BY <1>2, <1>3, <1>4 DEF Picked
<1> QED BY <1>1, <1>5

\* There is one way to pick.
LEMMA PickedOnce ==
  ASSUME NEW v \in Seq(Events), NEW kind, NEW f, NEW g, Picked(f, v, kind), Picked(g, v, kind)
  PROVE  f[Len(v)] = g[Len(v)]
<1> DEFINE T == {k \in Nat : k <= Len(v) /\ f[k] # g[k]}
<1>0. Len(v) \in Nat
  OBVIOUS
<1>1. T = {}
  <2> SUFFICES ASSUME T # {} PROVE FALSE
    OBVIOUS
  <2>1. PICK k \in T : \A m \in T : k <= m
    <3>1. T \in SUBSET Nat
      OBVIOUS
    <3> HIDE DEF T
    <3> QED BY <3>1, LeastMember
  <2>2. k # 0
    BY <2>1 DEF Picked
  <2>3. k \in 1 .. Len(v) /\ k - 1 \in Nat /\ k - 1 \notin T /\ k - 1 <= Len(v)
    BY <1>0, <2>1, <2>2
  <2>4. f[k - 1] = g[k - 1]
    BY <2>3
  <2>5. f[k] = g[k]
    BY <2>3, <2>4 DEF Picked
  <2> QED BY <2>1, <2>5
<1> QED BY <1>0, <1>1

LEMMA AppendConcat ==
  ASSUME NEW S, NEW a \in Seq(S), NEW b \in Seq(S), NEW x \in S
  PROVE  a \o Append(b, x) = Append(a \o b, x)
OBVIOUS

\* The numbers of two channels one behind the other.
LEMMA NumbersConcat ==
  ASSUME NEW a \in Seq(Events), NEW b \in Seq(Events), NEW kind
  PROVE  /\ Numbers(a \o b, kind) = Numbers(a, kind) \o Numbers(b, kind)
         /\ a \o b \in Seq(Events)
         /\ Numbers(a, kind) \in Seq(Pairs) /\ Numbers(b, kind) \in Seq(Pairs)
<1> DEFINE c == a \o b
<1>1. /\ c \in Seq(Events) /\ Len(c) = Len(a) + Len(b) /\ Len(a) \in Nat /\ Len(b) \in Nat
      /\ \A k \in 1 .. Len(a) : c[k] = a[k]
      /\ \A k \in 1 .. Len(b) : c[Len(a) + k] = b[k]
  OBVIOUS
<1> HIDE DEF c
<1>2. PICK f : Picked(f, a, kind) /\ Numbers(a, kind) = f[Len(a)]
  BY NumbersPicked
<1>3. PICK g : Picked(g, b, kind) /\ Numbers(b, kind) = g[Len(b)]
  BY NumbersPicked
<1>4. f[Len(a)] \in Seq(Pairs) /\ \A k \in 0 .. Len(b) : g[k] \in Seq(Pairs)
  BY <1>1, <1>2, <1>3 DEF Picked
<1> DEFINE h == [k \in 0 .. Len(c) |-> IF k <= Len(a) THEN f[k] ELSE f[Len(a)] \o g[k - Len(a)]]
<1>5. \A k \in 0 .. Len(b) : h[Len(a) + k] = f[Len(a)] \o g[k]
  <2> SUFFICES ASSUME NEW k \in 0 .. Len(b) PROVE h[Len(a) + k] = f[Len(a)] \o g[k]
    OBVIOUS
  <2>1. Len(a) + k \in 0 .. Len(c) /\ (Len(a) + k) - Len(a) = k
    BY <1>1
  <2>2. CASE k = 0
    <3>1. g[0] = <<>> /\ h[Len(a) + k] = f[Len(a)]
      BY <1>1, <1>3, <2>1, <2>2 DEF Picked
    <3> QED BY <1>4, <2>2, <3>1
  <2>3. CASE k # 0
    <3>1. ~ (Len(a) + k <= Len(a))
      BY <1>1, <2>3
    <3>2. h[Len(a) + k] = f[Len(a)] \o g[(Len(a) + k) - Len(a)]
      BY <2>1, <3>1
    <3> QED BY <2>1, <3>2
  <2> QED BY <2>2, <2>3
<1>6. \A k \in 0 .. Len(a) : h[k] = f[k]
  BY <1>1
<1> HIDE DEF h
<1>7. ASSUME NEW k \in 1 .. Len(c)
      PROVE  h[k] = IF c[k].kind = kind THEN Append(h[k - 1], Pair(c[k])) ELSE h[k - 1]
  <2>1. CASE k <= Len(a)
    <3>1. k \in 1 .. Len(a) /\ k \in 0 .. Len(a) /\ k - 1 \in 0 .. Len(a)
      BY <1>1, <2>1
    <3>2. h[k] = f[k] /\ h[k - 1] = f[k - 1] /\ c[k] = a[k]
      BY <1>1, <1>6, <3>1
    <3> QED BY <1>2, <3>1, <3>2 DEF Picked
  <2>2. CASE ~ (k <= Len(a))
    <3> DEFINE j == k - Len(a)
    <3>1. /\ j \in 1 .. Len(b) /\ j \in 0 .. Len(b) /\ j - 1 \in 0 .. Len(b)
          /\ Len(a) + j = k /\ Len(a) + (j - 1) = k - 1
      BY <1>1, <2>2
    <3> HIDE DEF j
    <3>2. h[k] = f[Len(a)] \o g[j] /\ h[k - 1] = f[Len(a)] \o g[j - 1] /\ c[k] = b[j]
      BY <1>1, <1>5, <3>1
    <3>3. g[j] = IF b[j].kind = kind THEN Append(g[j - 1], Pair(b[j])) ELSE g[j - 1]
      BY <1>3, <3>1 DEF Picked
    <3>4. Pair(b[j]) \in Pairs /\ g[j - 1] \in Seq(Pairs)
      BY <1>4, <3>1, PairOf
    <3>5. f[Len(a)] \o Append(g[j - 1], Pair(b[j])) = Append(f[Len(a)] \o g[j - 1], Pair(b[j]))
      <4> DEFINE x == f[Len(a)]
                 y == g[j - 1]
                 z == Pair(b[j])
      <4>1. x \in Seq(Pairs) /\ y \in Seq(Pairs) /\ z \in Pairs
        BY <1>4, <3>4
      <4> HIDE DEF x, y, z
      <4>2. x \o Append(y, z) = Append(x \o y, z)
        BY <4>1, AppendConcat
      <4> QED BY <4>2 DEF x, y, z
    <3> QED BY <3>2, <3>3, <3>5
  <2> QED BY <2>1, <2>2
<1>8. ASSUME NEW k \in 0 .. Len(c) PROVE h[k] \in Seq(Pairs)
  <2>1. CASE k <= Len(a)
    <3>1. k \in 0 .. Len(a)
      BY <1>1, <2>1
    <3> QED BY <1>2, <1>6, <3>1 DEF Picked
  <2>2. CASE ~ (k <= Len(a))
    <3>1. k - Len(a) \in 0 .. Len(b) /\ Len(a) + (k - Len(a)) = k
      BY <1>1, <2>2
    <3>2. h[k] = f[Len(a)] \o g[k - Len(a)]
      BY <1>5, <3>1
    <3> QED BY <1>4, <3>1, <3>2
  <2> QED BY <2>1, <2>2
<1>9. h[0] = <<>>
  BY <1>1, <1>2, <1>6 DEF Picked
<1>10. Picked(h, c, kind)
  BY <1>7, <1>8, <1>9 DEF Picked
<1>11. Numbers(c, kind) = h[Len(c)]
  <2>1. PICK e : Picked(e, c, kind) /\ Numbers(c, kind) = e[Len(c)]
    BY <1>1, NumbersPicked
  <2> QED BY <1>1, <1>10, <2>1, PickedOnce
<1>12. h[Len(c)] = f[Len(a)] \o g[Len(b)]
  <2>1. Len(b) \in 0 .. Len(b)
    BY <1>1
  <2>2. h[Len(a) + Len(b)] = f[Len(a)] \o g[Len(b)]
    BY <1>5, <2>1
  <2> QED BY <1>1, <2>2
<1>13. g[Len(b)] \in Seq(Pairs)
  BY <1>1, <1>4
<1> QED BY <1>1, <1>2, <1>3, <1>4, <1>11, <1>12, <1>13 DEF c

LEMMA NumbersOfOne ==
  ASSUME NEW e \in Events, NEW kind
  PROVE  /\ Numbers(<<e>>, kind) = IF e.kind = kind THEN <<Pair(e)>> ELSE <<>>
         /\ Numbers(<<>>, kind) = <<>>
         /\ <<e>> \in Seq(Events)
<1>1. <<e>> \in Seq(Events) /\ <<>> \in Seq(Events) /\ Len(<<e>>) = 1 /\ Len(<<>>) = 0
  OBVIOUS
<1>2. PICK f : Picked(f, <<>>, kind) /\ Numbers(<<>>, kind) = f[0]
  BY <1>1, NumbersPicked
<1>3. PICK g : Picked(g, <<e>>, kind) /\ Numbers(<<e>>, kind) = g[1]
  BY <1>1, NumbersPicked
<1>4. Numbers(<<>>, kind) = <<>>
  BY <1>2 DEF Picked
<1>5. g[1] = IF e.kind = kind THEN Append(<<>>, Pair(e)) ELSE <<>>
  <2> DEFINE v == <<e>>
  <2>1. 1 \in 1 .. Len(v) /\ v[1] = e /\ 1 - 1 = 0
    BY <1>1
  <2>2. Picked(g, v, kind)
    BY <1>3
  <2> HIDE DEF v
  <2>3. g[1] = IF v[1].kind = kind THEN Append(g[1 - 1], Pair(v[1])) ELSE g[1 - 1]
    BY <2>1, <2>2 DEF Picked
  <2>4. g[0] = <<>>
    BY <2>2 DEF Picked
  <2> QED BY <2>1, <2>3, <2>4
<1>6. Append(<<>>, Pair(e)) = <<Pair(e)>>
  OBVIOUS
<1> QED BY <1>1, <1>3, <1>4, <1>5, <1>6

LEMMA SameSequence ==
  ASSUME NEW S, NEW a \in Seq(S), NEW b \in Seq(S), Len(a) = Len(b),
         \A i \in 1 .. Len(a) : a[i] = b[i]
  PROVE  a = b
OBVIOUS

LEMMA ConcatOfOne ==
  ASSUME NEW S, NEW a \in Seq(S), NEW e \in S
  PROVE  /\ a \o <<e>> \in Seq(S) /\ Len(a \o <<e>>) = Len(a) + 1
         /\ \A i \in 1 .. Len(a) : (a \o <<e>>)[i] = a[i]
         /\ (a \o <<e>>)[Len(a) + 1] = e
OBVIOUS

LEMMA EmptyConcat ==
  ASSUME NEW S, NEW a \in Seq(S)
  PROVE  a \o <<>> = a /\ <<>> \o a = a
OBVIOUS

LEMMA NumbersAfter ==
  ASSUME NEW a \in Seq(Events), NEW e \in Events, NEW kind
  PROVE  /\ Numbers(a \o <<e>>, kind) =
              IF e.kind = kind THEN Numbers(a, kind) \o <<Pair(e)>> ELSE Numbers(a, kind)
         /\ Numbers(a, kind) \in Seq(Pairs) /\ a \o <<e>> \in Seq(Events)
<1> DEFINE b == <<e>>
<1>1. /\ b \in Seq(Events)
      /\ Numbers(b, kind) = IF e.kind = kind THEN <<Pair(e)>> ELSE <<>>
  BY NumbersOfOne
<1> HIDE DEF b
<1>2. /\ Numbers(a \o b, kind) = Numbers(a, kind) \o Numbers(b, kind)
      /\ a \o b \in Seq(Events) /\ Numbers(a, kind) \in Seq(Pairs)
  BY <1>1, NumbersConcat
<1>3. Numbers(a, kind) \o <<>> = Numbers(a, kind)
  BY <1>2, EmptyConcat
<1> QED BY <1>1, <1>2, <1>3 DEF b

LEMMA NumbersBefore ==
  ASSUME NEW a \in Seq(Events), NEW e \in Events, NEW kind
  PROVE  /\ Numbers(<<e>> \o a, kind) =
              IF e.kind = kind THEN <<Pair(e)>> \o Numbers(a, kind) ELSE Numbers(a, kind)
         /\ Numbers(a, kind) \in Seq(Pairs)
<1> DEFINE b == <<e>>
<1>1. /\ b \in Seq(Events)
      /\ Numbers(b, kind) = IF e.kind = kind THEN <<Pair(e)>> ELSE <<>>
  BY NumbersOfOne
<1> HIDE DEF b
<1>2. /\ Numbers(b \o a, kind) = Numbers(b, kind) \o Numbers(a, kind)
      /\ Numbers(a, kind) \in Seq(Pairs)
  BY <1>1, NumbersConcat
<1>3. <<>> \o Numbers(a, kind) = Numbers(a, kind)
  BY <1>2, EmptyConcat
<1> QED BY <1>1, <1>2, <1>3 DEF b
-----------------------------------------------------------------------------
(***************************************************************************)
(* The queues of one session s, as values: the packets w in write_queue    *)
(* and those in the channel c are the ones after number from up to number  *)
(* to, the messages in c and the datagrams in q likewise.                  *)
(***************************************************************************)
Sends(s, w, c, from, to) ==
  /\ from + Len(w) <= to
  /\ \A i \in 1 .. Len(w) : w[i] = Packet(s, from + i)
  /\ Numbers(c, "MessageSend") = Rest(s, from + Len(w), to)

Receives(s, c, from, to) ==
  /\ from <= to
  /\ Numbers(c, "MessageReceived") = Rest(s, from, to)

Reads(q, from, to) ==
  /\ from <= to
  /\ q = [i \in 1 .. (to - from) |-> from + i]

LEMMA RestGrows ==
  ASSUME NEW s \in Sessions, NEW from \in Nat, NEW to \in Nat, from <= to
  PROVE  Rest(s, from, to) \o <<<<s, to + 1>>>> = Rest(s, from, to + 1)
<1> DEFINE x == Rest(s, from, to)
           z == Rest(s, from, to + 1)
           n == to - from
           y == <<s, to + 1>>
<1>1. n \in Nat /\ from + (n + 1) = to + 1 /\ (to + 1) - from = n + 1
  OBVIOUS
<1>2. /\ x \in Seq(Pairs) /\ Len(x) = n /\ \A i \in 1 .. n : x[i] = <<s, from + i>>
  BY <1>1 DEF Rest, Pairs
<1>3. /\ z \in Seq(Pairs) /\ Len(z) = n + 1 /\ \A i \in 1 .. n + 1 : z[i] = <<s, from + i>>
  BY <1>1 DEF Rest, Pairs
<1>4. y \in Pairs
  BY DEF Pairs
<1> HIDE DEF x, y, z, n
<1> DEFINE v == x \o <<y>>
<1>5. /\ v \in Seq(Pairs) /\ Len(v) = n + 1
      /\ \A i \in 1 .. n : v[i] = x[i]
      /\ v[n + 1] = y
  <2>1. /\ v \in Seq(Pairs) /\ Len(v) = Len(x) + 1
        /\ \A i \in 1 .. Len(x) : v[i] = x[i]
        /\ v[Len(x) + 1] = y
    BY <1>2, <1>4, ConcatOfOne
  <2> HIDE DEF v
  <2> QED BY <1>2, <2>1
<1> HIDE DEF v
<1>6. ASSUME NEW i \in 1 .. n + 1 PROVE v[i] = z[i]
  <2>1. i \in 1 .. n \/ i = n + 1
    BY <1>1
  <2>2. CASE i \in 1 .. n
    <3>1. i \in 1 .. n + 1
      OBVIOUS
    <3> QED BY <1>2, <1>3, <1>5, <2>2, <3>1
  <2>3. CASE i = n + 1
    <3>1. v[i] = <<s, to + 1>>
      BY <1>5, <2>3 DEF y
    <3>2. z[i] = <<s, from + (n + 1)>>
      BY <1>3, <2>3
    <3> QED BY <1>1, <3>1, <3>2
  <2> QED BY <2>1, <2>2, <2>3
<1>7. v = z
  <2>1. Len(v) = Len(z) /\ \A i \in 1 .. Len(v) : v[i] = z[i]
    BY <1>3, <1>5, <1>6
  <2> QED BY <1>3, <1>5, <2>1, SameSequence
<1> QED BY <1>7 DEF x, y, z, v

LEMMA RestDrops ==
  ASSUME NEW s \in Sessions, NEW from \in Nat, NEW to \in Nat, from <= to,
         NEW p \in Pairs, NEW r \in Seq(Pairs), <<p>> \o r = Rest(s, from, to)
  PROVE  p = <<s, from + 1>> /\ from + 1 <= to /\ r = Rest(s, from + 1, to)
<1> DEFINE x == Rest(s, from, to)
           z == Rest(s, from + 1, to)
           y == <<p>> \o r
<1>1. /\ y \in Seq(Pairs) /\ Len(y) = Len(r) + 1 /\ Len(r) \in Nat
      /\ y[1] = p /\ \A i \in 1 .. Len(r) : y[i + 1] = r[i]
  OBVIOUS
<1>2. Len(x) = to - from /\ \A i \in 1 .. to - from : x[i] = <<s, from + i>>
  BY DEF Rest
<1>3. x = y
  OBVIOUS
<1> HIDE DEF x, y
<1>4. Len(r) = to - (from + 1) /\ from + 1 <= to /\ p = <<s, from + 1>>
  <2>1. Len(r) + 1 = to - from
    BY <1>1, <1>2, <1>3
  <2>2. 1 \in 1 .. to - from
    BY <1>1, <2>1
  <2>3. p = <<s, from + 1>>
    BY <1>1, <1>2, <1>3, <2>2
  <2> QED BY <1>1, <2>1, <2>3
<1>5. /\ z \in Seq(Pairs) /\ Len(z) = to - (from + 1)
      /\ \A i \in 1 .. to - (from + 1) : z[i] = <<s, (from + 1) + i>>
  <2>1. to - (from + 1) \in Nat
    BY <1>4
  <2> QED BY <2>1 DEF Rest, Pairs
<1> HIDE DEF z
<1>6. ASSUME NEW i \in 1 .. Len(r) PROVE r[i] = z[i]
  <2>1. /\ i + 1 \in 1 .. to - from /\ i \in 1 .. to - (from + 1)
        /\ from + (i + 1) = (from + 1) + i
    BY <1>1, <1>4
  <2>2. r[i] = x[i + 1] /\ x[i + 1] = <<s, from + (i + 1)>>
    BY <1>1, <1>2, <1>3, <2>1
  <2> QED BY <1>5, <2>1, <2>2
<1>7. r = z
  BY <1>4, <1>5, <1>6, SameSequence
<1> QED BY <1>4, <1>7 DEF z

LEMMA PacketIsEvent ==
  ASSUME NEW s \in Sessions, NEW n \in Nat
  PROVE  /\ Packet(s, n) \in Events /\ Packet(s, n).kind = "MessageSend"
         /\ Pair(Packet(s, n)) = <<s, n>>
         /\ Message(s, n) \in Events /\ Message(s, n).kind = "MessageReceived"
         /\ Pair(Message(s, n)) = <<s, n>>
BY DEF Packet, Message, Events, Kinds, Pair

\* usrsctp calls back with a packet: it is the next one.
LEMMA OnePacketMore ==
  ASSUME NEW s \in Sessions, NEW w \in Seq(Events), NEW c \in Seq(Events),
         NEW from \in Nat, NEW to \in Nat, NEW a \in Nat, NEW b \in Nat,
         Sends(s, w, c, from, to), Receives(s, c, a, b)
  PROVE  LET d == c \o <<Packet(s, to + 1)>>
         IN  d \in Seq(Events) /\ Sends(s, w, d, from, to + 1) /\ Receives(s, d, a, b)
<1> DEFINE e == Packet(s, to + 1)
           d == c \o <<e>>
<1>1. e \in Events /\ e.kind = "MessageSend" /\ Pair(e) = <<s, to + 1>>
  BY PacketIsEvent
<1> HIDE DEF e
<1>2. /\ d \in Seq(Events)
      /\ Numbers(d, "MessageSend") = Numbers(c, "MessageSend") \o <<Pair(e)>>
      /\ Numbers(d, "MessageReceived") = Numbers(c, "MessageReceived")
  <2>1. \A kind : /\ Numbers(c \o <<e>>, kind) =
                       IF e.kind = kind THEN Numbers(c, kind) \o <<Pair(e)>> ELSE Numbers(c, kind)
                  /\ c \o <<e>> \in Seq(Events)
    BY <1>1, NumbersAfter, Zenon
  <2>2. "MessageSend" # "MessageReceived"
    OBVIOUS
  <2> HIDE DEF d
  <2>3. c \o <<e>> = d
    BY DEF d
  <2> QED BY <1>1, <2>1, <2>2, <2>3
<1> HIDE DEF d
<1>3. from + Len(w) \in Nat /\ from + Len(w) <= to /\ from + Len(w) <= to + 1
  BY DEF Sends
<1>4. Numbers(c, "MessageSend") = Rest(s, from + Len(w), to)
  BY DEF Sends
<1>5. Rest(s, from + Len(w), to) \o <<Pair(e)>> = Rest(s, from + Len(w), to + 1)
  BY <1>1, <1>3, RestGrows
<1> QED BY <1>2, <1>3, <1>4, <1>5 DEF Sends, Receives, e, d

\* It calls back with a message.
LEMMA OneMessageMore ==
  ASSUME NEW s \in Sessions, NEW w \in Seq(Events), NEW c \in Seq(Events),
         NEW from \in Nat, NEW to \in Nat, NEW a \in Nat, NEW b \in Nat,
         Sends(s, w, c, from, to), Receives(s, c, a, b)
  PROVE  LET d == c \o <<Message(s, b + 1)>>
         IN  d \in Seq(Events) /\ Sends(s, w, d, from, to) /\ Receives(s, d, a, b + 1)
<1> DEFINE e == Message(s, b + 1)
           d == c \o <<e>>
<1>1. e \in Events /\ e.kind = "MessageReceived" /\ Pair(e) = <<s, b + 1>>
  BY PacketIsEvent
<1> HIDE DEF e
<1>2. /\ d \in Seq(Events)
      /\ Numbers(d, "MessageReceived") = Numbers(c, "MessageReceived") \o <<Pair(e)>>
      /\ Numbers(d, "MessageSend") = Numbers(c, "MessageSend")
  <2>1. \A kind : /\ Numbers(c \o <<e>>, kind) =
                       IF e.kind = kind THEN Numbers(c, kind) \o <<Pair(e)>> ELSE Numbers(c, kind)
                  /\ c \o <<e>> \in Seq(Events)
    BY <1>1, NumbersAfter, Zenon
  <2>2. "MessageSend" # "MessageReceived"
    OBVIOUS
  <2> HIDE DEF d
  <2>3. c \o <<e>> = d
    BY DEF d
  <2> QED BY <1>1, <2>1, <2>2, <2>3
<1> HIDE DEF d
<1>3. a <= b /\ a <= b + 1 /\ Numbers(c, "MessageReceived") = Rest(s, a, b)
  BY DEF Receives
<1>4. Rest(s, a, b) \o <<Pair(e)>> = Rest(s, a, b + 1)
  BY <1>1, <1>3, RestGrows
<1> QED BY <1>2, <1>3, <1>4 DEF Sends, Receives, e, d

LEMMA HeadAndTail ==
  ASSUME NEW S, NEW c \in Seq(S), c # <<>>
  PROVE  Head(c) \in S /\ Tail(c) \in Seq(S) /\ c = <<Head(c)>> \o Tail(c)
OBVIOUS

\* The session takes a packet from its channel and writes it.
LEMMA PacketTaken ==
  ASSUME NEW s \in Sessions, NEW w \in Seq(Events), NEW c \in Seq(Events), c # <<>>,
         NEW from \in Nat, NEW to \in Nat, NEW a \in Nat, NEW b \in Nat,
         Head(c).kind = "MessageSend",
         Sends(s, w, c, from, to), Receives(s, c, a, b)
  PROVE  /\ Sends(s, Append(w, Head(c)), Tail(c), from, to) /\ Receives(s, Tail(c), a, b)
         /\ Append(w, Head(c)) \in Seq(Events) /\ Tail(c) \in Seq(Events)
<1> DEFINE e == Head(c)
           d == Tail(c)
           v == Append(w, e)
<1>1. e \in Events /\ d \in Seq(Events) /\ c = <<e>> \o d
  BY HeadAndTail
<1>2. e.kind = "MessageSend" /\ Pair(e) \in Pairs
  BY <1>1 DEF Events, Pairs, Pair
<1>3. /\ v \in Seq(Events) /\ Len(v) = Len(w) + 1 /\ Len(w) \in Nat
      /\ \A i \in 1 .. Len(w) : v[i] = w[i]
      /\ v[Len(w) + 1] = e
  BY <1>1
<1> HIDE DEF e, d, v
<1>4. /\ Numbers(c, "MessageSend") = <<Pair(e)>> \o Numbers(d, "MessageSend")
      /\ Numbers(d, "MessageSend") \in Seq(Pairs)
      /\ Numbers(c, "MessageReceived") = Numbers(d, "MessageReceived")
  BY <1>1, <1>2, NumbersBefore
<1>5. from + Len(w) \in Nat /\ from + Len(w) <= to
  BY <1>3 DEF Sends
<1>6. <<Pair(e)>> \o Numbers(d, "MessageSend") = Rest(s, from + Len(w), to)
  BY <1>4 DEF Sends
<1>7. /\ Pair(e) = <<s, (from + Len(w)) + 1>> /\ (from + Len(w)) + 1 <= to
      /\ Numbers(d, "MessageSend") = Rest(s, (from + Len(w)) + 1, to)
  <2> DEFINE x == Pair(e)
             y == Numbers(d, "MessageSend")
             n == from + Len(w)
  <2>1. x \in Pairs /\ y \in Seq(Pairs) /\ n \in Nat /\ n <= to /\ <<x>> \o y = Rest(s, n, to)
    BY <1>2, <1>4, <1>5, <1>6
  <2> HIDE DEF x, y, n
  <2>2. x = <<s, n + 1>> /\ n + 1 <= to /\ y = Rest(s, n + 1, to)
    BY <2>1, RestDrops, ZenonT(30)
  <2> QED BY <2>2 DEF x, y, n
<1>8. e = Packet(s, (from + Len(w)) + 1)
  BY <1>1, <1>2, <1>7 DEF Events, Pair, Packet
<1>9. (from + Len(w)) + 1 = from + Len(v) /\ from + (Len(w) + 1) = (from + Len(w)) + 1
  BY <1>3
<1>10. ASSUME NEW i \in 1 .. Len(v) PROVE v[i] = Packet(s, from + i)
  <2>1. i \in 1 .. Len(w) \/ i = Len(w) + 1
    BY <1>3
  <2>2. CASE i \in 1 .. Len(w)
    BY <1>3, <2>2 DEF Sends
  <2>3. CASE i = Len(w) + 1
    BY <1>3, <1>8, <1>9, <2>3
  <2> QED BY <2>1, <2>2, <2>3
<1>11. Sends(s, v, d, from, to)
  BY <1>7, <1>9, <1>10 DEF Sends
<1>12. Receives(s, d, a, b)
  BY <1>4 DEF Receives
<1> QED BY <1>1, <1>3, <1>11, <1>12 DEF e, d, v

\* The session takes a message from its channel.
LEMMA MessageTaken ==
  ASSUME NEW s \in Sessions, NEW w \in Seq(Events), NEW c \in Seq(Events), c # <<>>,
         NEW from \in Nat, NEW to \in Nat, NEW a \in Nat, NEW b \in Nat,
         Head(c).kind = "MessageReceived",
         Sends(s, w, c, from, to), Receives(s, c, a, b)
  PROVE  /\ Sends(s, w, Tail(c), from, to) /\ Receives(s, Tail(c), a + 1, b)
         /\ Tail(c) \in Seq(Events)
<1> DEFINE e == Head(c)
           d == Tail(c)
<1>1. e \in Events /\ d \in Seq(Events) /\ c = <<e>> \o d
  BY HeadAndTail
<1>2. e.kind = "MessageReceived" /\ Pair(e) \in Pairs
  BY <1>1 DEF Events, Pairs, Pair
<1> HIDE DEF e, d
<1>3. /\ Numbers(c, "MessageReceived") = <<Pair(e)>> \o Numbers(d, "MessageReceived")
      /\ Numbers(d, "MessageReceived") \in Seq(Pairs)
      /\ Numbers(c, "MessageSend") = Numbers(d, "MessageSend")
  BY <1>1, <1>2, NumbersBefore
<1>4. a <= b /\ <<Pair(e)>> \o Numbers(d, "MessageReceived") = Rest(s, a, b)
  BY <1>3 DEF Receives
<1>5. a + 1 <= b /\ Numbers(d, "MessageReceived") = Rest(s, a + 1, b)
  <2> DEFINE x == Pair(e)
             y == Numbers(d, "MessageReceived")
  <2>1. x \in Pairs /\ y \in Seq(Pairs) /\ a <= b /\ <<x>> \o y = Rest(s, a, b)
    BY <1>2, <1>3, <1>4
  <2> HIDE DEF x, y
  <2>2. a + 1 <= b /\ y = Rest(s, a + 1, b)
    BY <2>1, RestDrops, ZenonT(30)
  <2> QED BY <2>2 DEF y
<1> QED BY <1>1, <1>3, <1>5 DEF Sends, Receives, d

\* All that was written goes to the transport.
LEMMA AllWritten ==
  ASSUME NEW s \in Sessions, NEW w \in Seq(Events), NEW c, NEW from \in Nat, NEW to \in Nat,
         Sends(s, w, c, from, to)
  PROVE  Sends(s, <<>>, c, from + Len(w), to)
<1>1. Len(<<>>) = 0 /\ Len(w) \in Nat /\ (from + Len(w)) + 0 = from + Len(w)
  OBVIOUS
<1> QED BY <1>1 DEF Sends

LEMMA DatagramsQueued ==
  ASSUME NEW q \in Seq(Nat), NEW from \in Nat, NEW to \in Nat, Reads(q, from, to)
  PROVE  /\ Reads(Append(q, to + 1), from, to + 1)
         /\ q # <<>> => Reads(Tail(q), from + 1, to)
<1>1. /\ Len(q) = to - from /\ to - from \in Nat /\ \A i \in 1 .. to - from : q[i] = from + i
      /\ from <= to
  BY DEF Reads
<1> DEFINE t == Append(q, to + 1)
           u == Tail(q)
<1>2. /\ t \in Seq(Nat) /\ Len(t) = (to - from) + 1 /\ \A i \in 1 .. to - from : t[i] = q[i]
      /\ t[(to - from) + 1] = to + 1
  BY <1>1
<1>3. q # <<>> => /\ u \in Seq(Nat) /\ Len(u) = (to - from) - 1 /\ Len(u) \in Nat
                  /\ \A i \in 1 .. (to - from) - 1 : u[i] = q[i + 1]
  BY <1>1
<1> HIDE DEF t, u
<1>4. Reads(t, from, to + 1)
  <2>1. (to + 1) - from = (to - from) + 1 /\ from + ((to - from) + 1) = to + 1 /\ from <= to + 1
    BY <1>1
  <2>2. ASSUME NEW i \in 1 .. (to - from) + 1 PROVE t[i] = from + i
    <3>1. i \in 1 .. to - from \/ i = (to - from) + 1
      BY <1>1
    <3> QED BY <1>1, <1>2, <2>1, <3>1
  <2>3. t = [i \in 1 .. (to - from) + 1 |-> from + i]
    BY <1>2, <2>2
  <2> QED BY <2>1, <2>3 DEF Reads
<1>5. ASSUME q # <<>> PROVE Reads(u, from + 1, to)
  <2>1. to - (from + 1) = (to - from) - 1 /\ from + 1 <= to /\ (to - from) - 1 \in Nat
    BY <1>1, <1>3, <1>5
  <2>2. ASSUME NEW i \in 1 .. (to - from) - 1 PROVE u[i] = (from + 1) + i
    <3>1. i + 1 \in 1 .. to - from /\ from + (i + 1) = (from + 1) + i
      BY <1>1
    <3> QED BY <1>1, <1>3, <1>5, <3>1
  <2>3. u = [i \in 1 .. (to - from) - 1 |-> (from + 1) + i]
    BY <1>3, <1>5, <2>2
  <2> QED BY <2>1, <2>3 DEF Reads
<1> QED BY <1>4, <1>5 DEF t, u

LEMMA Associative ==
  ASSUME NEW a \in Seq(Events), NEW b \in Seq(Events), NEW c \in Seq(Events)
  PROVE  a \o (b \o c) = (a \o b) \o c
OBVIOUS

\* usrsctp calls back with a message, a packet, both or nothing.
LEMMA CalledBack ==
  ASSUME NEW s \in Sessions, NEW w \in Seq(Events), NEW c \in Seq(Events),
         NEW from \in Nat, NEW to \in Nat, NEW a \in Nat, NEW b \in Nat,
         NEW out \in 0 .. 1, NEW up \in 0 .. 1,
         Sends(s, w, c, from, to), Receives(s, c, a, b)
  PROVE  LET d == c \o ((IF up = 1 THEN <<Message(s, b + 1)>> ELSE <<>>)
                        \o (IF out = 1 THEN <<Packet(s, to + 1)>> ELSE <<>>))
         IN  d \in Seq(Events) /\ Sends(s, w, d, from, to + out) /\ Receives(s, d, a, b + up)
<1> DEFINE x == IF up = 1 THEN <<Message(s, b + 1)>> ELSE <<>>
           y == IF out = 1 THEN <<Packet(s, to + 1)>> ELSE <<>>
           e == c \o x
           d == e \o y
<1>1. x \in Seq(Events) /\ y \in Seq(Events)
  <2>1. /\ <<Message(s, b + 1)>> \in Seq(Events) /\ <<Packet(s, to + 1)>> \in Seq(Events)
        /\ <<>> \in Seq(Events)
    BY PacketIsEvent
  <2> QED BY <2>1
<1>2. e \in Seq(Events) /\ Sends(s, w, e, from, to) /\ Receives(s, e, a, b + up)
  <2>1. CASE up = 1
    BY <2>1, OneMessageMore
  <2>2. CASE up = 0
    <3>1. e = c /\ b + up = b
      BY <2>2, EmptyConcat
    <3> HIDE DEF e
    <3> QED BY <3>1
  <2> QED BY <2>1, <2>2
<1>3. d \in Seq(Events) /\ Sends(s, w, d, from, to + out) /\ Receives(s, d, a, b + up)
  <2> DEFINE n == b + up
  <2>0. n \in Nat
    OBVIOUS
  <2>1. CASE out = 1
    <3> HIDE DEF e, n
    <3> QED BY <1>2, <2>0, <2>1, OnePacketMore DEF n
  <2>2. CASE out = 0
    <3> HIDE DEF e, n
    <3>1. d = e /\ to + out = to
      BY <1>2, <2>2, EmptyConcat
    <3> HIDE DEF d
    <3> QED BY <1>2, <3>1
  <2> QED BY <2>1, <2>2
<1>4. c \o (x \o y) = d
  <2> HIDE DEF x, y
  <2>1. c \o (x \o y) = (c \o x) \o y
    BY <1>1, Associative
  <2> QED BY <2>1
<1> QED BY <1>3, <1>4

\* The packets that were written are those after number from.
LEMMA NumbersWritten ==
  ASSUME NEW s \in Sessions, NEW w \in Seq(Events), NEW from \in Nat,
         \A i \in 1 .. Len(w) : w[i] = Packet(s, from + i)
  PROVE  Numbers(w, "MessageSend") = Rest(s, from, from + Len(w))
<1> DEFINE kind == "MessageSend"
<1>0. Len(w) \in Nat
  OBVIOUS
<1>1. PICK f : Picked(f, w, kind) /\ Numbers(w, kind) = f[Len(w)]
  BY NumbersPicked
<1> DEFINE T == {k \in Nat : k <= Len(w) /\ f[k] # Rest(s, from, from + k)}
<1>2. T = {}
  <2> SUFFICES ASSUME T # {} PROVE FALSE
    OBVIOUS
  <2>1. PICK k \in T : \A m \in T : k <= m
    <3>1. T \in SUBSET Nat
      OBVIOUS
    <3> HIDE DEF T
    <3> QED BY <3>1, LeastMember
  <2>2. k # 0
    <3>1. Rest(s, from, from + 0) = <<>>
      BY DEF Rest
    <3> QED BY <1>1, <3>1 DEF Picked
  <2>3. k \in 1 .. Len(w) /\ k - 1 \in Nat /\ k - 1 \notin T /\ k - 1 <= Len(w)
    BY <1>0, <2>1, <2>2
  <2>4. f[k - 1] = Rest(s, from, from + (k - 1))
    BY <2>3
  <2>5. w[k].kind = "MessageSend" /\ Pair(w[k]) = <<s, from + k>>
    BY <2>3, PacketIsEvent
  <2>6. f[k] = Append(f[k - 1], Pair(w[k]))
    BY <1>1, <2>3, <2>5 DEF Picked
  <2>7. f[k] = Rest(s, from, from + k)
    <3> DEFINE to == from + (k - 1)
               r == Rest(s, from, to)
               p == <<s, to + 1>>
    <3>1. to \in Nat /\ from <= to /\ to + 1 = from + k
      BY <2>3
    <3>2. r \in Seq(Pairs) /\ p \in Pairs
      <4>1. f[k - 1] \in Seq(Pairs)
        BY <1>1, <2>3 DEF Picked
      <4> QED BY <2>4, <3>1, <4>1 DEF Pairs
    <3> HIDE DEF to
    <3>3. r \o <<p>> = Rest(s, from, to + 1)
      BY <3>1, RestGrows
    <3> HIDE DEF r, p
    <3>4. Append(r, p) = r \o <<p>>
      BY <3>2
    <3>5. f[k - 1] = r /\ Pair(w[k]) = p
      BY <2>4, <2>5, <3>1 DEF r, p, to
    <3> QED BY <2>6, <3>1, <3>3, <3>4, <3>5
  <2> QED BY <2>1, <2>7
<1> QED BY <1>0, <1>1, <1>2

LEMMA AppendOf ==
  ASSUME NEW S, NEW a \in Seq(S), NEW e \in S
  PROVE  /\ Append(a, e) \in Seq(S) /\ Len(Append(a, e)) = Len(a) + 1 /\ Len(a) \in Nat
         /\ \A i \in 1 .. Len(a) : Append(a, e)[i] = a[i]
         /\ Append(a, e)[Len(a) + 1] = e
OBVIOUS

LEMMA DomainOf ==
  ASSUME NEW S, NEW a \in Seq(S)
  PROVE  DOMAIN a = 1 .. Len(a)
OBVIOUS

LEMMA ConcatOf ==
  ASSUME NEW S, NEW a \in Seq(S), NEW b \in Seq(S)
  PROVE  /\ a \o b \in Seq(S) /\ Len(a \o b) = Len(a) + Len(b)
         /\ \A i \in 1 .. Len(a) : (a \o b)[i] = a[i]
         /\ \A i \in 1 .. Len(b) : (a \o b)[Len(a) + i] = b[i]
OBVIOUS

LEMMA RestOfRest ==
  ASSUME NEW s \in Sessions, NEW a \in Nat, NEW b \in Nat, NEW c \in Nat, a <= b, b <= c
  PROVE  Rest(s, a, b) \o Rest(s, b, c) = Rest(s, a, c)
<1> DEFINE x == Rest(s, a, b)
           y == Rest(s, b, c)
           z == Rest(s, a, c)
           v == x \o y
<1>1. /\ x \in Seq(Pairs) /\ Len(x) = b - a /\ b - a \in Nat
      /\ \A i \in 1 .. b - a : x[i] = <<s, a + i>>
  BY DEF Rest, Pairs
<1>2. /\ y \in Seq(Pairs) /\ Len(y) = c - b /\ c - b \in Nat
      /\ \A i \in 1 .. c - b : y[i] = <<s, b + i>>
  BY DEF Rest, Pairs
<1>3. /\ z \in Seq(Pairs) /\ Len(z) = c - a
      /\ \A i \in 1 .. c - a : z[i] = <<s, a + i>>
  <2>1. c - a \in Nat
    OBVIOUS
  <2> QED BY <2>1 DEF Rest, Pairs
<1> HIDE DEF x, y, z
<1>4. /\ v \in Seq(Pairs) /\ Len(v) = Len(x) + Len(y)
      /\ \A i \in 1 .. Len(x) : v[i] = x[i]
      /\ \A i \in 1 .. Len(y) : v[Len(x) + i] = y[i]
  <2>1. x \in Seq(Pairs) /\ y \in Seq(Pairs)
    BY <1>1, <1>2
  <2> QED BY <2>1, ConcatOf
<1> HIDE DEF v
<1>5. ASSUME NEW i \in 1 .. c - a PROVE v[i] = z[i]
  <2>1. CASE i <= b - a
    <3>1. i \in 1 .. b - a
      BY <2>1
    <3> QED BY <1>1, <1>3, <1>4, <3>1
  <2>2. CASE ~ (i <= b - a)
    <3>1. i - (b - a) \in 1 .. c - b /\ (b - a) + (i - (b - a)) = i /\ b + (i - (b - a)) = a + i
      BY <2>2
    <3>2. v[(b - a) + (i - (b - a))] = y[i - (b - a)]
      BY <1>1, <1>2, <1>4, <3>1
    <3> QED BY <1>2, <1>3, <3>1, <3>2
  <2> QED BY <2>1, <2>2
<1>6. Len(v) = c - a
  BY <1>1, <1>2, <1>4
<1>7. v = z
  BY <1>3, <1>4, <1>5, <1>6, SameSequence
<1> QED BY <1>7 DEF x, y, z, v
-----------------------------------------------------------------------------
(***************************************************************************)
(* The invariant behind Conveyed.                                          *)
(***************************************************************************)
Stages == {"idle", "session", "input", "output", "actions", "transports"}

Typed ==
  /\ StageOK
  /\ pc \in [Sessions -> Stages]
  /\ wake \in [Sessions -> BOOLEAN] /\ listening \in [Sessions -> BOOLEAN]
  /\ poll_waker \in [Sessions -> BOOLEAN] /\ aborted \in BOOLEAN
  /\ address_ids \in Seq(Sessions)
  /\ channel \in [Sessions -> Seq(Events)] /\ write_queue \in [Sessions -> Seq(Events)]
  /\ read_queue \in [Sessions -> Seq(Nat)]
  /\ produced \in [Sessions -> Nat] /\ sent \in [Sessions -> Nat]
  /\ arrived \in [Sessions -> Nat] /\ fed \in [Sessions -> Nat]
  /\ raised \in [Sessions -> Nat] /\ handed \in [Sessions -> Nat]

\* A session that is polled is on the table: what usrsctp calls back with finds it.
InTable == \A s \in Sessions : stage[s] = "live" => s \in ToSet(address_ids)

\* What the queues of a session hold is what the counts say is under way.
InOrder(s) ==
  /\ Sends(s, write_queue[s], channel[s], sent[s], produced[s])
  /\ Receives(s, channel[s], handed[s], raised[s])
  /\ Reads(read_queue[s], fed[s], arrived[s])

Open(s) == stage[s] \in {"none", "live"}

Carried == \A s \in Sessions : Open(s) => InOrder(s)

Base == Typed /\ InStep /\ Calling /\ InTable

\* A step leaves what belongs to session r as it is.
Still(r) ==
  /\ write_queue'[r] = write_queue[r] /\ channel'[r] = channel[r] /\ read_queue'[r] = read_queue[r]
  /\ produced'[r] = produced[r] /\ sent'[r] = sent[r] /\ arrived'[r] = arrived[r]
  /\ fed'[r] = fed[r] /\ raised'[r] = raised[r] /\ handed'[r] = handed[r]

LEMMA OthersStill ==
  ASSUME Carried, NEW s \in Sessions,
         \A r \in Sessions : Open(r)' => Open(r),
         \A r \in Sessions : r # s => Still(r),
         Open(s)' => InOrder(s)'
  PROVE  Carried'
<1>1. ASSUME NEW r \in Sessions, r # s, Open(r)' PROVE InOrder(r)'
  BY <1>1 DEF Carried, InOrder, Still
<1> QED BY <1>1 DEF Carried

LEMMA AllStill ==
  ASSUME Carried, \A r \in Sessions : Open(r)' => Open(r) /\ Still(r)
  PROVE  Carried'
<1>1. ASSUME NEW r \in Sessions, Open(r)' PROVE InOrder(r)'
  BY <1>1 DEF Carried, InOrder, Still
<1> QED BY <1>1 DEF Carried

LEMMA InitCarried == Init => Base /\ Carried
<1> SUFFICES ASSUME Init PROVE Base /\ Carried
  OBVIOUS
<1> USE DEF Init, EmptyTable, Each
<1>1. Typed
  <2>1. <<>> \in Seq(Sessions) /\ <<>> \in Seq(Events) /\ <<>> \in Seq(Nat)
    OBVIOUS
  <2> QED BY <2>1 DEF Typed, StageOK, Stages
<1>2. InStep /\ Calling /\ InTable
  BY DEF InStep, Calling, InTable
<1>3. ASSUME NEW s \in Sessions PROVE InOrder(s)
  <2>1. Rest(s, 0, 0) = <<>> /\ Len(<<>>) = 0 /\ [i \in 1 .. (0 - 0) |-> 0 + i] = <<>>
    BY DEF Rest
  <2>2. Numbers(<<>>, "MessageSend") = <<>> /\ Numbers(<<>>, "MessageReceived") = <<>>
    <3>1. Packet(s, 0) \in Events
      BY PacketIsEvent
    <3> QED BY <3>1, NumbersOfOne
  <2>3. /\ write_queue[s] = <<>> /\ channel[s] = <<>> /\ read_queue[s] = <<>>
        /\ produced[s] = 0 /\ sent[s] = 0 /\ arrived[s] = 0
        /\ fed[s] = 0 /\ raised[s] = 0 /\ handed[s] = 0
    OBVIOUS
  <2>4. Sends(s, <<>>, <<>>, 0, 0) /\ Receives(s, <<>>, 0, 0) /\ Reads(<<>>, 0, 0)
    BY <2>1, <2>2 DEF Sends, Receives, Reads
  <2> QED BY <2>3, <2>4 DEF InOrder
<1> QED BY <1>1, <1>2, <1>3 DEF Base, Carried

LEMMA FindAddressFindsLive ==
  ASSUME InStep, InTable, NEW s \in Sessions, stage[s] = "live"
  PROVE  FindAddress(s) = s
<1>1. s \in ToSet(address_ids)
  BY DEF InTable
<1>2. \E i \in DOMAIN address_ids : address_ids[i] = s
  BY <1>1 DEF ToSet
<1>3. address_ids[CHOOSE i \in DOMAIN address_ids : address_ids[i] = s] = s
  BY <1>2
<1> QED
  BY <1>1, <1>3 DEF FindAddress, InStep
-----------------------------------------------------------------------------
(* The table and the timer thread.                                         *)

LEMMA CreateSessionCarried ==
  ASSUME Base, Carried, NEW s \in Sessions, CreateSession(s)
  PROVE  Base' /\ Carried'
<1> USE DEF Base
<1>1. PICK created \in BOOLEAN :
        /\ stage' = [stage EXCEPT ![s] = IF created THEN "live" ELSE "failed"]
        /\ wake' = [wake EXCEPT ![s] = created]
  BY DEF CreateSession
<1>2. /\ stage[s] = "none" /\ address_ids' = Append(address_ids, s)
      /\ address_instances' = Append(address_instances, s)
      /\ UNCHANGED <<timer, aborted, pc, poll_waker, channel, listening, queues, counts>>
  BY DEF CreateSession, CreateAddress
<1>3. Typed'
  <2>1. StageOK' /\ wake' \in [Sessions -> BOOLEAN]
    BY <1>1 DEF Typed, StageOK
  <2>2. address_ids' \in Seq(Sessions)
    BY <1>2 DEF Typed
  <2> QED BY <1>2, <2>1, <2>2 DEF Typed
<1>4. InStep' /\ Calling'
  <2>1. \A r \in Sessions : stage[r] \in {"live", "destroyed"} => stage'[r] = stage[r]
    BY <1>1, <1>2 DEF Typed, StageOK
  <2> QED BY <1>2, <2>1 DEF InStep, Calling
<1>5. InTable'
  <2> SUFFICES ASSUME NEW r \in Sessions, stage'[r] = "live" PROVE r \in ToSet(address_ids')
    BY DEF InTable
  <2> DEFINE a == address_ids
             b == Append(a, s)
  <2>0. /\ Len(b) = Len(a) + 1 /\ Len(a) \in Nat /\ DOMAIN a = 1 .. Len(a) /\ DOMAIN b = 1 .. Len(b)
        /\ \A i \in 1 .. Len(a) : b[i] = a[i]
        /\ b[Len(a) + 1] = s
    <3>1. a \in Seq(Sessions)
      BY DEF Typed
    <3> QED BY <3>1, AppendOf, DomainOf
  <2>1. \E i \in DOMAIN address_ids' : address_ids'[i] = r
    <3>1. CASE r = s
      BY <1>2, <2>0, <3>1
    <3>2. CASE r # s
      <4>1. PICK i \in DOMAIN address_ids : address_ids[i] = r
        BY <1>1, <3>2 DEF InTable, ToSet, Typed, StageOK
      <4> QED BY <1>2, <2>0, <4>1
    <3> QED BY <3>1, <3>2
  <2> QED BY <2>1 DEF ToSet
<1>6. \A r \in Sessions : Open(r)' => Open(r) /\ Still(r)
  BY <1>1, <1>2 DEF Open, Still, Typed, StageOK
<1> QED BY <1>3, <1>4, <1>5, <1>6, AllStill

\* The position of an id, and the table without it.
LEMMA TableShrinks ==
  ASSUME NEW v \in Seq(Sessions), NEW s \in Sessions, s \in ToSet(v)
  PROVE  LET position == CHOOSE i \in DOMAIN v : v[i] = s
         IN  position \in 1 .. Len(v) /\ v[position] = s /\ RemoveAt(v, position) \in Seq(Sessions)
<1> DEFINE position == CHOOSE i \in DOMAIN v : v[i] = s
<1>1. position \in DOMAIN v /\ v[position] = s
  <2>1. \E i \in DOMAIN v : v[i] = s
    BY DEF ToSet
  <2> QED BY <2>1
<1>2. position \in 1 .. Len(v)
  BY <1>1
<1> HIDE DEF position
<1>3. SubSeq(v, 1, position - 1) \in Seq(Sessions) /\ SubSeq(v, position + 1, Len(v)) \in Seq(Sessions)
  BY <1>2
<1>4. RemoveAt(v, position) \in Seq(Sessions)
  BY <1>3, ConcatOf DEF RemoveAt
<1> QED BY <1>1, <1>2, <1>4 DEF position

\* Removing the position of one id keeps all the others.
LEMMA OthersStayOnTable ==
  ASSUME NEW v \in Seq(Sessions), NEW s \in Sessions, s \in ToSet(v),
         NEW r \in Sessions, r # s, r \in ToSet(v)
  PROVE  LET position == CHOOSE i \in DOMAIN v : v[i] = s
         IN  r \in ToSet(RemoveAt(v, position))
<1> DEFINE position == CHOOSE i \in DOMAIN v : v[i] = s
           a == SubSeq(v, 1, position - 1)
           b == SubSeq(v, position + 1, Len(v))
           u == a \o b
<1>1. position \in 1 .. Len(v) /\ v[position] = s
  BY TableShrinks
<1>2. PICK j \in 1 .. Len(v) : v[j] = r
  BY DEF ToSet
<1> HIDE DEF position
<1>3. /\ a \in Seq(Sessions) /\ Len(a) = position - 1
      /\ \A i \in 1 .. position - 1 : a[i] = v[i]
  BY <1>1
<1>4. /\ b \in Seq(Sessions) /\ Len(b) = Len(v) - position
      /\ \A i \in 1 .. Len(v) - position : b[i] = v[position + i]
  BY <1>1
<1> HIDE DEF a, b
<1>5. /\ u \in Seq(Sessions) /\ Len(u) = Len(a) + Len(b)
      /\ \A i \in 1 .. Len(a) : u[i] = a[i]
      /\ \A i \in 1 .. Len(b) : u[Len(a) + i] = b[i]
  <2>1. a \in Seq(Sessions) /\ b \in Seq(Sessions)
    BY <1>3, <1>4
  <2> QED BY <2>1, ConcatOf
<1> HIDE DEF u
<1>6. \E i \in DOMAIN u : u[i] = r
  <2>1. j # position
    BY <1>1, <1>2
  <2>2. CASE j < position
    <3>1. j \in 1 .. position - 1 /\ j \in 1 .. Len(u)
      BY <1>1, <1>3, <1>4, <1>5, <2>2
    <3>2. u[j] = r
      BY <1>2, <1>3, <1>5, <3>1
    <3> QED BY <1>5, <3>1, <3>2
  <2>3. CASE j > position
    <3>1. /\ j - position \in 1 .. Len(v) - position /\ position + (j - position) = j
          /\ (position - 1) + (j - position) \in 1 .. Len(u)
      BY <1>1, <1>3, <1>4, <1>5, <2>3
    <3>2. u[(position - 1) + (j - position)] = r
      BY <1>2, <1>3, <1>4, <1>5, <3>1
    <3> QED BY <1>5, <3>1, <3>2
  <2> QED BY <1>1, <2>1, <2>2, <2>3
<1> QED BY <1>5, <1>6 DEF ToSet, RemoveAt, u, a, b, position

LEMMA DropSessionCarried ==
  ASSUME Base, Carried, NEW s \in Sessions, DropSession(s)
  PROVE  Base' /\ Carried'
<1> USE DEF Base
<1>1. /\ stage[s] = "live" /\ stage' = [stage EXCEPT ![s] = "destroyed"]
      /\ UNCHANGED <<timer, aborted, task, channel, listening, queues, counts>>
  BY DEF DropSession
<1> DEFINE position == CHOOSE i \in DOMAIN address_ids : address_ids[i] = s
<1>2. /\ address_ids' = RemoveAt(address_ids, position)
      /\ address_instances' = RemoveAt(address_instances, position)
  BY DEF DropSession, DestroyAddress, InStep
<1>3. s \in ToSet(address_ids)
  BY <1>1 DEF InTable
<1>4. address_ids' \in Seq(Sessions)
  <2>1. address_ids \in Seq(Sessions)
    BY DEF Typed
  <2> QED BY <1>2, <1>3, <2>1, TableShrinks
<1>5. InTable'
  <2> SUFFICES ASSUME NEW r \in Sessions, stage'[r] = "live" PROVE r \in ToSet(address_ids')
    BY DEF InTable
  <2>1. r # s /\ stage[r] = "live"
    BY <1>1 DEF Typed, StageOK
  <2> QED BY <1>2, <1>3, <2>1, OthersStayOnTable DEF InTable, Typed
<1>6. Typed' /\ InStep'
  <2> HIDE DEF position
  <2> QED BY <1>1, <1>2, <1>4 DEF Typed, StageOK, InStep
<1>7. Calling'
  BY <1>1 DEF Calling, Typed, StageOK
<1>8. \A r \in Sessions : Open(r)' => Open(r) /\ Still(r)
  BY <1>1 DEF Open, Still, Typed, StageOK
<1> QED BY <1>5, <1>6, <1>7, <1>8, AllStill

LEMMA CloseSocketCarried ==
  ASSUME Base, Carried, NEW s \in Sessions, CloseSocket(s) \/ DropChannel(s)
  PROVE  Base' /\ Carried'
<1> USE DEF Base
<1>1. /\ stage[s] \in {"destroyed", "closed"}
      /\ \E end \in {"closed", "gone"} : stage' = [stage EXCEPT ![s] = end]
      /\ timer = Idle \/ timer.of # s
      /\ UNCHANGED <<table, timer, aborted, task, listening, queues, counts>>
  BY DEF CloseSocket, DropChannel, Calling
<1>2. channel' = channel \/ channel' = [channel EXCEPT ![s] = <<>>]
  BY DEF CloseSocket, DropChannel
<1>3. Typed'
  <2>1. <<>> \in Seq(Events)
    OBVIOUS
  <2>2. channel' \in [Sessions -> Seq(Events)]
    BY <1>2, <2>1 DEF Typed
  <2> QED BY <1>1, <2>2 DEF Typed, StageOK
<1>4. InStep' /\ Calling' /\ InTable'
  BY <1>1 DEF InStep, Calling, InTable, Typed, StageOK
<1>5. \A r \in Sessions : Open(r)' => Open(r) /\ Still(r)
  BY <1>1, <1>2 DEF Open, Still, Typed, StageOK
<1> QED BY <1>3, <1>4, <1>5, AllStill

LEMMA TimerFindCarried ==
  ASSUME Base, Carried, NEW s \in Sessions, TimerFind(s)
  PROVE  Base' /\ Carried'
<1> USE DEF Base
<1>1. PICK kind \in TimerKinds : timer' = [kind |-> kind, of |-> s, target |-> FindAddress(s)]
  BY DEF TimerFind
<1>2. FindAddress(s) \in {s, Nobody} /\ stage[s] \in {"live", "destroyed"}
  BY FindAddressFinds DEF TimerFind
<1>3. UNCHANGED <<table, stage, aborted, task, channel, listening, queues, counts>>
  BY DEF TimerFind
<1>4. Calling'
  BY <1>1, <1>2, <1>3 DEF Calling
<1>5. \A r \in Sessions : Open(r)' => Open(r) /\ Still(r)
  BY <1>3 DEF Open, Still
<1> QED BY <1>3, <1>4, <1>5, AllStill DEF Typed, StageOK, InStep, InTable

\* What an event of usrsctp does to the session it is for.
LEMMA SendConveys ==
  ASSUME Typed, NEW s \in Sessions, NEW c \in Seq(Events), NEW n, n = channel[s] \o c,
         n \in Seq(Events), Send(s, c)
  PROVE  /\ channel' = [channel EXCEPT ![s] = n]
         /\ wake' \in [Sessions -> BOOLEAN] /\ listening' \in [Sessions -> BOOLEAN]
         /\ channel' \in [Sessions -> Seq(Events)]
<1>1. channel' = [channel EXCEPT ![s] = n]
  BY DEF Send
<1>2. wake' \in [Sessions -> BOOLEAN] /\ listening' \in [Sessions -> BOOLEAN]
  BY DEF Send, Typed
<1> QED BY <1>1, <1>2 DEF Typed

LEMMA TimerSendCarried ==
  ASSUME Base, Carried, NEW s \in Sessions, timer.of = s, TimerSend
  PROVE  Base' /\ Carried'
<1> USE DEF Base
<1> DEFINE t == timer.target
           up == timer.kind = "MessageReceived"
<1>1. t \in {s, Nobody} /\ timer' = Idle
  BY DEF Calling, TimerSend
<1>2. UNCHANGED <<address_ids, address_instances, stage, pc, poll_waker, write_queue, read_queue,
                  sent, arrived, fed, handed>>
  BY DEF TimerSend
<1>3. aborted' \in BOOLEAN
  BY DEF TimerSend, Typed
<1>4. InStep' /\ Calling' /\ InTable'
  BY <1>1, <1>2 DEF InStep, Calling, InTable
<1>5. \A r \in Sessions : Open(r)' => Open(r)
  BY <1>2 DEF Open
<1>6. CASE t = Nobody \/ stage[t] = "gone"
  <2>1. UNCHANGED <<channel, listening, wake, produced, raised>>
    BY <1>6 DEF TimerSend
  <2>2. \A r \in Sessions : Still(r)
    BY <1>2, <2>1 DEF Still
  <2> QED BY <1>2, <1>3, <1>4, <1>5, <2>1, <2>2, AllStill DEF Typed, StageOK
<1>7. CASE ~ (t = Nobody \/ stage[t] = "gone")
  <2>1. t = s
    BY <1>1, <1>7
  <2>2. /\ write_queue[s] \in Seq(Events) /\ channel[s] \in Seq(Events)
        /\ sent[s] \in Nat /\ produced[s] \in Nat /\ handed[s] \in Nat /\ raised[s] \in Nat
        /\ Packet(s, produced[s] + 1) \in Events /\ Message(s, raised[s] + 1) \in Events
    BY <1>1, PacketIsEvent DEF Typed
  <2>3. CASE up
    <3> DEFINE e == Message(s, raised[s] + 1)
               n == channel[s] \o <<e>>
    <3>1. /\ raised' = [raised EXCEPT ![s] = @ + 1] /\ produced' = produced
          /\ Send(s, <<e>>)
      BY <1>7, <2>1, <2>3 DEF TimerSend
    <3>2. <<e>> \in Seq(Events) /\ n \in Seq(Events)
      BY <2>2
    <3>3. Open(s) => Sends(s, write_queue[s], n, sent[s], produced[s])
                     /\ Receives(s, n, handed[s], raised[s] + 1)
      BY <1>1, <2>2, OneMessageMore DEF Carried, InOrder
    <3> HIDE DEF e
    <3>4. /\ channel' = [channel EXCEPT ![s] = n] /\ channel' \in [Sessions -> Seq(Events)]
          /\ wake' \in [Sessions -> BOOLEAN] /\ listening' \in [Sessions -> BOOLEAN]
      <4> HIDE DEF t, up
      <4>1. Typed
        OBVIOUS
      <4>2. n = channel[s] \o <<e>>
        OBVIOUS
      <4> HIDE DEF n
      <4> QED BY <1>1, <3>1, <3>2, <4>1, <4>2, SendConveys
    <3> HIDE DEF n, t, up
    <3>5. Typed'
      <4>1. produced' \in [Sessions -> Nat] /\ raised' \in [Sessions -> Nat]
        BY <3>1 DEF Typed
      <4> QED BY <1>2, <1>3, <3>4, <4>1 DEF Typed, StageOK
    <3>6. \A r \in Sessions : r # s => Still(r)
      BY <1>1, <1>2, <3>1, <3>4 DEF Still, Typed
    <3>7. Open(s)' => InOrder(s)'
      <4>1. /\ channel'[s] = n /\ raised'[s] = raised[s] + 1 /\ produced'[s] = produced[s]
            /\ Open(s)' => Open(s)
        BY <1>1, <1>5, <3>1, <3>4 DEF Typed
      <4> QED BY <1>1, <1>2, <3>3, <4>1 DEF InOrder, Carried
    <3> QED BY <1>1, <1>4, <1>5, <3>5, <3>6, <3>7, OthersStill
  <2>4. CASE ~ up
    <3> DEFINE e == Packet(s, produced[s] + 1)
               n == channel[s] \o <<e>>
    <3>1. /\ produced' = [produced EXCEPT ![s] = @ + 1] /\ raised' = raised
          /\ Send(s, <<e>>)
      BY <1>7, <2>1, <2>4 DEF TimerSend
    <3>2. <<e>> \in Seq(Events) /\ n \in Seq(Events)
      BY <2>2
    <3>3. Open(s) => Sends(s, write_queue[s], n, sent[s], produced[s] + 1)
                     /\ Receives(s, n, handed[s], raised[s])
      BY <1>1, <2>2, OnePacketMore DEF Carried, InOrder
    <3> HIDE DEF e
    <3>4. /\ channel' = [channel EXCEPT ![s] = n] /\ channel' \in [Sessions -> Seq(Events)]
          /\ wake' \in [Sessions -> BOOLEAN] /\ listening' \in [Sessions -> BOOLEAN]
      <4> HIDE DEF t, up
      <4>1. Typed
        OBVIOUS
      <4>2. n = channel[s] \o <<e>>
        OBVIOUS
      <4> HIDE DEF n
      <4> QED BY <1>1, <3>1, <3>2, <4>1, <4>2, SendConveys
    <3> HIDE DEF n, t, up
    <3>5. Typed'
      <4>1. produced' \in [Sessions -> Nat] /\ raised' \in [Sessions -> Nat]
        BY <3>1 DEF Typed
      <4> QED BY <1>2, <1>3, <3>4, <4>1 DEF Typed, StageOK
    <3>6. \A r \in Sessions : r # s => Still(r)
      BY <1>1, <1>2, <3>1, <3>4 DEF Still, Typed
    <3>7. Open(s)' => InOrder(s)'
      <4>1. /\ channel'[s] = n /\ raised'[s] = raised[s] /\ produced'[s] = produced[s] + 1
            /\ Open(s)' => Open(s)
        BY <1>1, <1>5, <3>1, <3>4 DEF Typed
      <4> QED BY <1>1, <1>2, <3>3, <4>1 DEF InOrder, Carried
    <3> QED BY <1>1, <1>4, <1>5, <3>5, <3>6, <3>7, OthersStill
  <2> QED BY <2>3, <2>4
<1> QED BY <1>6, <1>7
-----------------------------------------------------------------------------
(* A poll.  Its steps leave the table, the stages and the timer thread.    *)

LEMMA TableStill ==
  ASSUME InStep, Calling, InTable, UNCHANGED <<address_ids, address_instances, stage, timer>>
  PROVE  InStep' /\ Calling' /\ InTable' /\ \A r \in Sessions : Open(r)' <=> Open(r)
BY DEF InStep, Calling, InTable, Open

\* The steps that only move the task on.
LEMMA TaskMovesCarried ==
  ASSUME Base, Carried, NEW s \in Sessions,
         \/ PollBegin(s) \/ ChannelPending(s) \/ ReadBlocks(s)
         \/ ActionsPending(s) \/ TaskSleeps(s) \/ Notify(s)
  PROVE  Base' /\ Carried'
<1> USE DEF Base
<1>1. /\ UNCHANGED <<table, stage, timer, aborted, channel, queues, counts>>
      /\ pc' = pc \/ \E step \in Stages : pc' = [pc EXCEPT ![s] = step]
      /\ wake' = wake \/ \E b \in BOOLEAN : wake' = [wake EXCEPT ![s] = b]
      /\ poll_waker' = poll_waker \/ \E b \in BOOLEAN : poll_waker' = [poll_waker EXCEPT ![s] = b]
      /\ listening' = listening \/ \E b \in BOOLEAN : listening' = [listening EXCEPT ![s] = b]
  BY DEF PollBegin, ChannelPending, ReadBlocks, ActionsPending, TaskSleeps, Notify, Go, Stages
<1>2. Typed'
  BY <1>1 DEF Typed, StageOK
<1>3. \A r \in Sessions : Still(r)
  BY <1>1 DEF Still
<1> QED BY <1>1, <1>2, <1>3, TableStill, AllStill

LEMMA TakePacketCarried ==
  ASSUME Base, Carried, NEW s \in Sessions, TakePacket(s)
  PROVE  Base' /\ Carried'
<1> USE DEF Base
<1> DEFINE c == channel[s]
           w == write_queue[s]
<1>1. /\ stage[s] = "live" /\ c # <<>> /\ Head(c).kind = "MessageSend"
      /\ channel' = [channel EXCEPT ![s] = Tail(c)]
      /\ write_queue' = [write_queue EXCEPT ![s] = Append(w, Head(c))]
      /\ UNCHANGED <<table, stage, timer, aborted, task, listening, read_queue, counts>>
  BY DEF TakePacket, At, Write
<1>2. /\ Sends(s, Append(w, Head(c)), Tail(c), sent[s], produced[s])
      /\ Receives(s, Tail(c), handed[s], raised[s])
      /\ Append(w, Head(c)) \in Seq(Events) /\ Tail(c) \in Seq(Events)
  <2>1. /\ w \in Seq(Events) /\ c \in Seq(Events) /\ sent[s] \in Nat /\ produced[s] \in Nat
        /\ handed[s] \in Nat /\ raised[s] \in Nat
    BY DEF Typed
  <2>2. Sends(s, w, c, sent[s], produced[s]) /\ Receives(s, c, handed[s], raised[s])
    BY <1>1 DEF Carried, Open, InOrder
  <2> HIDE DEF c, w
  <2> QED BY <1>1, <2>1, <2>2, PacketTaken
<1> DEFINE d == Tail(c)
           v == Append(w, Head(c))
<1> HIDE DEF d, v
<1>3. channel' = [channel EXCEPT ![s] = d] /\ write_queue' = [write_queue EXCEPT ![s] = v]
  BY <1>1 DEF d, v
<1>4. /\ Sends(s, v, d, sent[s], produced[s]) /\ Receives(s, d, handed[s], raised[s])
      /\ v \in Seq(Events) /\ d \in Seq(Events)
  BY <1>2 DEF d, v
<1>5. Typed'
  BY <1>1, <1>3, <1>4 DEF Typed, StageOK
<1>6. \A r \in Sessions : r # s => Still(r)
  BY <1>1, <1>3 DEF Still, Typed
<1>7. InOrder(s)'
  <2>1. channel'[s] = d /\ write_queue'[s] = v
    BY <1>3 DEF Typed
  <2> QED BY <1>1, <1>4, <2>1 DEF InOrder, Carried, Open
<1> QED BY <1>1, <1>5, <1>6, <1>7, TableStill, OthersStill

\* A message that is taken may be answered with a packet.
LEMMA TakeMessageCarried ==
  ASSUME Base, Carried, NEW s \in Sessions, TakeMessage(s)
  PROVE  Base' /\ Carried'
<1> USE DEF Base
<1> DEFINE c == channel[s]
           w == write_queue[s]
<1>1. /\ stage[s] = "live" /\ c # <<>> /\ Head(c).kind = "MessageReceived"
      /\ handed' = [handed EXCEPT ![s] = @ + 1]
      /\ UNCHANGED <<table, stage, timer, aborted, poll_waker, listening, queues, sent, arrived,
                     fed, raised>>
  BY DEF TakeMessage, At
<1>2. PICK item \in BOOLEAN, answer \in BOOLEAN :
        /\ produced' = [produced EXCEPT ![s] = @ + (IF answer THEN 1 ELSE 0)]
        /\ channel' = [channel EXCEPT ![s] =
                         Tail(@) \o (IF answer THEN <<Packet(s, produced[s] + 1)>> ELSE <<>>)]
        /\ pc' = [pc EXCEPT ![s] = IF item THEN "idle" ELSE "session"]
        /\ wake' = [wake EXCEPT ![s] = @ \/ item]
  BY DEF TakeMessage, Go
<1>3. /\ w \in Seq(Events) /\ c \in Seq(Events) /\ sent[s] \in Nat /\ produced[s] \in Nat
      /\ handed[s] \in Nat /\ raised[s] \in Nat /\ handed[s] + 1 \in Nat
  BY DEF Typed
<1>4. /\ Sends(s, w, Tail(c), sent[s], produced[s]) /\ Receives(s, Tail(c), handed[s] + 1, raised[s])
      /\ Tail(c) \in Seq(Events)
  <2>1. Sends(s, w, c, sent[s], produced[s]) /\ Receives(s, c, handed[s], raised[s])
    BY <1>1 DEF Carried, Open, InOrder
  <2> HIDE DEF c, w
  <2> QED BY <1>1, <1>3, <2>1, MessageTaken
<1> DEFINE d == Tail(c) \o (IF answer THEN <<Packet(s, produced[s] + 1)>> ELSE <<>>)
           more == IF answer THEN 1 ELSE 0
<1>5. /\ d \in Seq(Events) /\ Sends(s, w, d, sent[s], produced[s] + more)
      /\ Receives(s, d, handed[s] + 1, raised[s])
  <2> DEFINE e == Tail(c)
  <2>1. /\ e \in Seq(Events) /\ Sends(s, w, e, sent[s], produced[s])
        /\ Receives(s, e, handed[s] + 1, raised[s])
    BY <1>4
  <2>2. CASE answer
    <3>1. d = e \o <<Packet(s, produced[s] + 1)>> /\ more = 1
      BY <2>2
    <3> HIDE DEF w, e, d, more
    <3> QED BY <1>3, <2>1, <3>1, OnePacketMore
  <2>3. CASE ~ answer
    <3>1. d = e \o <<>> /\ more = 0
      BY <2>3
    <3> HIDE DEF w, c, e, d, more
    <3>2. d = e /\ produced[s] + more = produced[s]
      BY <1>3, <2>1, <3>1, EmptyConcat
    <3> QED BY <2>1, <3>2
  <2> QED BY <2>2, <2>3
<1>6. channel' = [channel EXCEPT ![s] = d] /\ produced' = [produced EXCEPT ![s] = @ + more]
  BY <1>2
<1>7. more \in 0 .. 1
  OBVIOUS
<1> HIDE DEF c, d, more
<1>8. Typed'
  <2>1. pc' \in [Sessions -> Stages] /\ wake' \in [Sessions -> BOOLEAN]
    BY <1>2 DEF Typed, Stages
  <2>2. channel' \in [Sessions -> Seq(Events)]
    BY <1>5, <1>6 DEF Typed
  <2>3. produced' \in [Sessions -> Nat] /\ handed' \in [Sessions -> Nat]
    BY <1>1, <1>6, <1>7 DEF Typed
  <2> QED BY <1>1, <2>1, <2>2, <2>3 DEF Typed, StageOK
<1>9. \A r \in Sessions : r # s => Still(r)
  BY <1>1, <1>6 DEF Still, Typed
<1>10. InOrder(s)'
  <2>1. channel'[s] = d /\ produced'[s] = produced[s] + more /\ handed'[s] = handed[s] + 1
    BY <1>1, <1>6 DEF Typed
  <2> QED BY <1>1, <1>5, <2>1 DEF InOrder, Carried, Open
<1> QED BY <1>1, <1>8, <1>9, <1>10, TableStill, OthersStill

\* Callbacks while the owner of a session is in usrsctp find the session.
LEMMA UpcallsConvey ==
  ASSUME Base, Carried, NEW s \in Sessions, stage[s] = "live",
         NEW out \in 0 .. 1, NEW up \in 0 .. 1, Upcalls(s, out, up)
  PROVE  \E n \in Seq(Events) :
           /\ channel' = [channel EXCEPT ![s] = n]
           /\ channel' \in [Sessions -> Seq(Events)]
           /\ wake' \in [Sessions -> BOOLEAN] /\ listening' \in [Sessions -> BOOLEAN]
           /\ produced' = [produced EXCEPT ![s] = @ + out]
           /\ raised' = [raised EXCEPT ![s] = @ + up]
           /\ Sends(s, write_queue[s], n, sent[s], produced[s] + out)
           /\ Receives(s, n, handed[s], raised[s] + up)
<1> USE DEF Base
<1> DEFINE x == IF up = 1 THEN <<Message(s, raised[s] + 1)>> ELSE <<>>
           y == IF out = 1 THEN <<Packet(s, produced[s] + 1)>> ELSE <<>>
           e == x \o y
           n == channel[s] \o e
<1>1. FindAddress(s) = s
  BY FindAddressFindsLive
<1>2. /\ Send(s, e)
      /\ produced' = [produced EXCEPT ![s] = @ + out]
      /\ raised' = [raised EXCEPT ![s] = @ + up]
  BY <1>1 DEF Upcalls
<1>3. /\ write_queue[s] \in Seq(Events) /\ channel[s] \in Seq(Events)
      /\ sent[s] \in Nat /\ produced[s] \in Nat /\ handed[s] \in Nat /\ raised[s] \in Nat
  BY DEF Typed
<1>4. /\ n \in Seq(Events) /\ Sends(s, write_queue[s], n, sent[s], produced[s] + out)
      /\ Receives(s, n, handed[s], raised[s] + up)
  <2>1. /\ Sends(s, write_queue[s], channel[s], sent[s], produced[s])
        /\ Receives(s, channel[s], handed[s], raised[s])
    BY DEF Carried, InOrder, Open
  <2> QED BY <1>3, <2>1, CalledBack
<1>5. e \in Seq(Events)
  <2>1. /\ <<Message(s, raised[s] + 1)>> \in Seq(Events) /\ <<>> \in Seq(Events)
        /\ <<Packet(s, produced[s] + 1)>> \in Seq(Events)
    BY <1>3, PacketIsEvent
  <2>2. x \in Seq(Events) /\ y \in Seq(Events)
    BY <2>1
  <2> HIDE DEF x, y
  <2> QED BY <2>2
<1> HIDE DEF e
<1>6. n = channel[s] \o e
  OBVIOUS
<1> HIDE DEF n
<1>7. /\ channel' = [channel EXCEPT ![s] = n] /\ channel' \in [Sessions -> Seq(Events)]
      /\ wake' \in [Sessions -> BOOLEAN] /\ listening' \in [Sessions -> BOOLEAN]
  BY <1>2, <1>4, <1>5, <1>6, SendConveys
<1> QED BY <1>2, <1>4, <1>7

LEMMA ExecuteActionCarried ==
  ASSUME Base, Carried, NEW s \in Sessions, ExecuteAction(s)
  PROVE  Base' /\ Carried'
<1> USE DEF Base
<1>1. /\ stage[s] = "live" /\ Upcalls(s, 1, 0)
      /\ UNCHANGED <<table, stage, timer, aborted, pc, poll_waker, queues, sent, arrived, fed, handed>>
  BY DEF ExecuteAction, At
<1>2. PICK n \in Seq(Events) :
        /\ channel' = [channel EXCEPT ![s] = n]
        /\ channel' \in [Sessions -> Seq(Events)]
        /\ wake' \in [Sessions -> BOOLEAN] /\ listening' \in [Sessions -> BOOLEAN]
        /\ produced' = [produced EXCEPT ![s] = @ + 1]
        /\ raised' = [raised EXCEPT ![s] = @ + 0]
        /\ Sends(s, write_queue[s], n, sent[s], produced[s] + 1)
        /\ Receives(s, n, handed[s], raised[s] + 0)
  <2>1. 1 \in 0 .. 1 /\ 0 \in 0 .. 1
    OBVIOUS
  <2> QED BY <1>1, <2>1, UpcallsConvey
<1>3. Typed'
  BY <1>1, <1>2 DEF Typed, StageOK
<1>4. \A r \in Sessions : r # s => Still(r)
  BY <1>1, <1>2 DEF Still, Typed
<1>5. InOrder(s)'
  <2>1. channel'[s] = n /\ produced'[s] = produced[s] + 1 /\ raised'[s] = raised[s] + 0
    BY <1>2 DEF Typed
  <2> QED BY <1>1, <1>2, <2>1 DEF InOrder, Carried, Open
<1> QED BY <1>1, <1>3, <1>4, <1>5, TableStill, OthersStill

LEMMA FeedDatagramCarried ==
  ASSUME Base, Carried, NEW s \in Sessions, FeedDatagram(s)
  PROVE  Base' /\ Carried'
<1> USE DEF Base
<1>1. /\ stage[s] = "live" /\ read_queue[s] # <<>>
      /\ read_queue' = [read_queue EXCEPT ![s] = Tail(read_queue[s])]
      /\ fed' = [fed EXCEPT ![s] = @ + 1]
      /\ UNCHANGED <<table, stage, timer, aborted, pc, poll_waker, write_queue, sent, arrived, handed>>
  BY DEF FeedDatagram, At, Read
<1>2. PICK out \in 0 .. 1, up \in 0 .. 1 : Upcalls(s, out, up)
  BY DEF FeedDatagram
<1>3. PICK n \in Seq(Events) :
        /\ channel' = [channel EXCEPT ![s] = n]
        /\ channel' \in [Sessions -> Seq(Events)]
        /\ wake' \in [Sessions -> BOOLEAN] /\ listening' \in [Sessions -> BOOLEAN]
        /\ produced' = [produced EXCEPT ![s] = @ + out]
        /\ raised' = [raised EXCEPT ![s] = @ + up]
        /\ Sends(s, write_queue[s], n, sent[s], produced[s] + out)
        /\ Receives(s, n, handed[s], raised[s] + up)
  BY <1>1, <1>2, UpcallsConvey
<1> DEFINE q == Tail(read_queue[s])
<1>4. q \in Seq(Nat) /\ Reads(q, fed[s] + 1, arrived[s])
  <2>1. read_queue[s] \in Seq(Nat) /\ fed[s] \in Nat /\ arrived[s] \in Nat
    BY DEF Typed
  <2>2. Reads(read_queue[s], fed[s], arrived[s])
    BY <1>1 DEF Carried, Open, InOrder
  <2>3. q \in Seq(Nat)
    BY <1>1, <2>1
  <2> QED BY <1>1, <2>1, <2>2, <2>3, DatagramsQueued
<1> HIDE DEF q
<1>5. read_queue' = [read_queue EXCEPT ![s] = q]
  BY <1>1 DEF q
<1>6. Typed'
  <2>1. read_queue' \in [Sessions -> Seq(Nat)]
    BY <1>4, <1>5 DEF Typed
  <2>2. fed' \in [Sessions -> Nat]
    BY <1>1 DEF Typed
  <2>3. produced' \in [Sessions -> Nat]
    <3>1. produced[s] + out \in Nat
      BY DEF Typed
    <3> QED BY <1>3, <3>1 DEF Typed
  <2>4. raised' \in [Sessions -> Nat]
    <3>1. raised[s] + up \in Nat
      BY DEF Typed
    <3> QED BY <1>3, <3>1 DEF Typed
  <2> QED BY <1>1, <1>3, <2>1, <2>2, <2>3, <2>4 DEF Typed, StageOK
<1>7. \A r \in Sessions : r # s => Still(r)
  BY <1>1, <1>3, <1>5 DEF Still, Typed
<1>8. InOrder(s)'
  <2>1. /\ channel'[s] = n /\ produced'[s] = produced[s] + out /\ raised'[s] = raised[s] + up
        /\ read_queue'[s] = q /\ fed'[s] = fed[s] + 1
    BY <1>1, <1>3, <1>5 DEF Typed
  <2> QED BY <1>1, <1>3, <1>4, <2>1 DEF InOrder, Carried, Open
<1> QED BY <1>1, <1>6, <1>7, <1>8, TableStill, OthersStill

LEMMA WritePacketsCarried ==
  ASSUME Base, Carried, NEW s \in Sessions, WritePackets(s)
  PROVE  Base' /\ Carried'
<1> USE DEF Base
<1>1. /\ stage[s] = "live" /\ pc' = [pc EXCEPT ![s] = "actions"]
      /\ sent' = [sent EXCEPT ![s] = @ + Len(write_queue[s])]
      /\ write_queue' = [write_queue EXCEPT ![s] = <<>>]
      /\ UNCHANGED <<table, stage, timer, aborted, wake, poll_waker, channel, listening, read_queue,
                     produced, arrived, fed, raised, handed>>
  BY DEF WritePackets, At, Go
<1>2. /\ write_queue[s] \in Seq(Events) /\ sent[s] \in Nat /\ produced[s] \in Nat
      /\ Len(write_queue[s]) \in Nat /\ <<>> \in Seq(Events)
  <2>1. write_queue[s] \in Seq(Events) /\ sent[s] \in Nat /\ produced[s] \in Nat
    BY DEF Typed
  <2> QED BY <2>1
<1>3. Sends(s, <<>>, channel[s], sent[s] + Len(write_queue[s]), produced[s])
  <2>1. Sends(s, write_queue[s], channel[s], sent[s], produced[s])
    BY <1>1 DEF Carried, Open, InOrder
  <2> QED BY <1>2, <2>1, AllWritten
<1>4. Typed'
  <2>1. pc' \in [Sessions -> Stages] /\ write_queue' \in [Sessions -> Seq(Events)]
    BY <1>1, <1>2 DEF Typed, Stages
  <2>2. sent' \in [Sessions -> Nat]
    BY <1>1, <1>2 DEF Typed
  <2> QED BY <1>1, <2>1, <2>2 DEF Typed, StageOK
<1>5. \A r \in Sessions : r # s => Still(r)
  BY <1>1 DEF Still, Typed
<1>6. InOrder(s)'
  <2>1. write_queue'[s] = <<>> /\ sent'[s] = sent[s] + Len(write_queue[s])
    BY <1>1 DEF Typed
  <2> QED BY <1>1, <1>3, <2>1 DEF InOrder, Carried, Open
<1> QED BY <1>1, <1>4, <1>5, <1>6, TableStill, OthersStill

LEMMA HandleDataCarried ==
  ASSUME Base, Carried, NEW s \in Sessions, HandleData(s)
  PROVE  Base' /\ Carried'
<1> USE DEF Base
<1> DEFINE q == Append(read_queue[s], arrived[s] + 1)
<1>1. /\ stage[s] = "live" /\ arrived' = [arrived EXCEPT ![s] = @ + 1]
      /\ read_queue' = [read_queue EXCEPT ![s] = q]
      /\ wake' = [wake EXCEPT ![s] = @ \/ poll_waker[s]]
      /\ UNCHANGED <<table, stage, timer, aborted, pc, poll_waker, channel, listening, write_queue,
                     produced, sent, fed, raised, handed>>
  BY DEF HandleData, At
<1>2. q \in Seq(Nat) /\ Reads(q, fed[s], arrived[s] + 1)
  <2>1. read_queue[s] \in Seq(Nat) /\ fed[s] \in Nat /\ arrived[s] \in Nat
    BY DEF Typed
  <2>2. Reads(read_queue[s], fed[s], arrived[s])
    BY <1>1 DEF Carried, Open, InOrder
  <2>3. q \in Seq(Nat)
    BY <2>1
  <2> QED BY <2>1, <2>2, <2>3, DatagramsQueued
<1> HIDE DEF q
<1>3. Typed'
  <2>1. wake' \in [Sessions -> BOOLEAN] /\ read_queue' \in [Sessions -> Seq(Nat)]
    BY <1>1, <1>2 DEF Typed
  <2>2. arrived' \in [Sessions -> Nat]
    BY <1>1 DEF Typed
  <2> QED BY <1>1, <2>1, <2>2 DEF Typed, StageOK
<1>4. \A r \in Sessions : r # s => Still(r)
  BY <1>1 DEF Still, Typed
<1>5. InOrder(s)'
  <2>1. read_queue'[s] = q /\ arrived'[s] = arrived[s] + 1
    BY <1>1 DEF Typed
  <2> QED BY <1>1, <1>2, <2>1 DEF InOrder, Carried, Open
<1> QED BY <1>1, <1>3, <1>4, <1>5, TableStill, OthersStill
-----------------------------------------------------------------------------
LEMMA NextCarried == Base /\ Carried /\ [Next]_vars => (Base /\ Carried)'
<1> SUFFICES ASSUME Base, Carried, [Next]_vars PROVE Base' /\ Carried'
  OBVIOUS
<1>1. ASSUME NEW s \in Sessions, CreateSession(s) PROVE Base' /\ Carried'
  BY <1>1, CreateSessionCarried
<1>2. ASSUME NEW s \in Sessions, Poll(s) \/ Notify(s) PROVE Base' /\ Carried'
  BY <1>2, TaskMovesCarried, TakePacketCarried, TakeMessageCarried, FeedDatagramCarried,
     WritePacketsCarried, ExecuteActionCarried, HandleDataCarried DEF Poll
<1>3. ASSUME NEW s \in Sessions, Drop(s) PROVE Base' /\ Carried'
  BY <1>3, DropSessionCarried, CloseSocketCarried DEF Drop
<1>4. ASSUME NEW s \in Sessions, TimerFind(s) PROVE Base' /\ Carried'
  BY <1>4, TimerFindCarried
<1>5. CASE TimerSend
  <2>1. timer.of \in Sessions
    BY <1>5 DEF TimerSend, Base, Calling
  <2> QED BY <1>5, <2>1, TimerSendCarried
<1>6. CASE UNCHANGED vars
  <2>1. Base'
    BY <1>6 DEF vars, Base, Typed, StageOK, InStep, Calling, InTable
  <2>2. \A r \in Sessions : Open(r)' => Open(r) /\ Still(r)
    BY <1>6 DEF vars, Open, Still
  <2> QED BY <2>1, <2>2, AllStill
<1> QED
  BY <1>1, <1>2, <1>3, <1>4, <1>5, <1>6 DEF Next

LEMMA CarriedIsConveyed == Base /\ Carried => Conveyed
<1> SUFFICES ASSUME Base, Carried PROVE Conveyed
  OBVIOUS
<1>1. TypeOK
  BY DEF Base, Typed, StageOK, InStep, TypeOK, Stages
<1>2. ASSUME NEW s \in Sessions, stage[s] = "live"
      PROVE  /\ Numbers(write_queue[s] \o channel[s], "MessageSend") = Rest(s, sent[s], produced[s])
             /\ Numbers(channel[s], "MessageReceived") = Rest(s, handed[s], raised[s])
             /\ read_queue[s] = [i \in 1 .. (arrived[s] - fed[s]) |-> fed[s] + i]
  <2> DEFINE w == write_queue[s]
             c == channel[s]
             from == sent[s]
             to == produced[s]
             middle == from + Len(w)
  <2>1. /\ w \in Seq(Events) /\ c \in Seq(Events) /\ from \in Nat /\ to \in Nat
    BY DEF Base, Typed
  <2>2. /\ Sends(s, w, c, from, to) /\ Receives(s, c, handed[s], raised[s])
        /\ Reads(read_queue[s], fed[s], arrived[s])
    BY <1>2 DEF Carried, Open, InOrder
  <2> HIDE DEF w, c, from, to
  <2>3. Numbers(w \o c, "MessageSend") = Numbers(w, "MessageSend") \o Numbers(c, "MessageSend")
    BY <2>1, NumbersConcat
  <2>4. Numbers(w, "MessageSend") = Rest(s, from, middle)
    BY <2>1, <2>2, NumbersWritten DEF Sends
  <2>5. Numbers(c, "MessageSend") = Rest(s, middle, to)
    BY <2>2 DEF Sends
  <2>6. middle \in Nat /\ from <= middle /\ middle <= to
    <3>1. Len(w) \in Nat
      BY <2>1
    <3> QED BY <2>1, <2>2, <3>1 DEF Sends
  <2> HIDE DEF middle
  <2>7. Rest(s, from, middle) \o Rest(s, middle, to) = Rest(s, from, to)
    BY <2>1, <2>6, RestOfRest
  <2> QED BY <2>2, <2>3, <2>4, <2>5, <2>7 DEF Receives, Reads, w, c, from, to
<1> QED BY <1>1, <1>2 DEF Conveyed

\* Between usrsctp, the session and the transport every packet, message and
\* datagram of a session that is polled is in one place and in its order, with
\* any number of sessions and whatever the timer thread calls back with
\* (sctp/mod.rs:186-200, 522-574).
THEOREM EventsConveyed == Spec => []Conveyed
<1> QED
  BY InitCarried, NextCarried, CarriedIsConveyed, PTL DEF Spec
=============================================================================
