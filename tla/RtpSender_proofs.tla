-------------------------- MODULE RtpSender_proofs --------------------------
(***************************************************************************)
(* Theorems about RtpSender, for every size of the history, width of the   *)
(* sequence numbers and bound: its types, and that no two packets of the   *)
(* history have the same sequence number.  The history is always a run of  *)
(* packets in the order they were sent in, with at most failures numbers   *)
(* missing between two of them; a number repeats only after Modulus.       *)
(***************************************************************************)
EXTENDS RtpSender, TLAPS, NaturalsInduction, WellFoundedInduction

\* The bounds under which a history cannot span a lap of the numbers.
LapWide == MaxSavedPackets + MaxFailures <= Modulus

\* b was numbered after a, and by wrapping increments only.
Follows(a, b) ==
  /\ a.nr < b.nr
  /\ b.nr - a.nr < Modulus => b.sequence = WrappingAdd(a.sequence, b.nr - a.nr)

Upcoming == [nr |-> next, sequence |-> current_sequence_number]

\* The packets p of the history, the messages c behind them and the number up
\* that comes next are in the order of their numbers.
Ordered(p, c, up) ==
  /\ \A i, j \in 1 .. Len(p) : i < j => Follows(p[i], p[j])
  /\ \A i \in 1 .. Len(p), k \in 1 .. Len(c) : Follows(p[i], c[k])
  /\ \A k, l \in 1 .. Len(c) : k < l => Follows(c[k], c[l])
  /\ \A i \in 1 .. Len(p) : Follows(p[i], up)
  /\ \A k \in 1 .. Len(c) : Follows(c[k], up)

\* The control channel holds the last numbers given out, none left out.
Queued(c, n) ==
  /\ Len(c) <= n
  /\ \A k \in 1 .. Len(c) : c[k].nr = n - Len(c) + k - 1

\* At most f numbers are missing between two packets, and between a packet and
\* the number n handled next.
Spaced(p, f) ==
  \A i, j \in 1 .. Len(p) : i < j => p[j].nr - p[i].nr <= j - i + f
Reaches(p, n, f) ==
  \A i \in 1 .. Len(p) : n - p[i].nr <= Len(p) + 1 - i + f

Handled == next - Len(control)

Inv ==
  /\ TypeOK
  /\ ~ renumbered => Ordered(packets, control, Upcoming)
  /\ Queued(control, next)
  /\ backend = "absent" => packets = << >>
  /\ backend = "present" => Reaches(packets, Handled, failures)
  /\ Spaced(packets, failures)
  /\ Len(packets) <= MaxSavedPackets

\* t is s without its first k members.
Dropped(s, t, k) ==
  /\ k \in 0 .. Len(s) /\ t \in Seq(Packets) /\ Len(t) = Len(s) - k
  /\ \A i \in 1 .. Len(t) : t[i] = s[i + k]
\* The members of t have the numbers of those of s from the k-th on.
SameNumbers(s, t, k) ==
  /\ k \in 0 .. Len(s) /\ t \in Seq(Packets) /\ Len(t) = Len(s) - k
  /\ \A i \in 1 .. Len(t) : t[i].nr = s[i + k].nr /\ t[i].sequence = s[i + k].sequence
-----------------------------------------------------------------------------
LEMMA WrappingIsId ==
  ASSUME NEW a \in Ids, NEW b \in Ids
  PROVE  WrappingAdd(a, b) \in Ids
BY ModulusAssumption DEF WrappingAdd, Ids, MaxValue

LEMMA PoppedDrops ==
  ASSUME NEW s \in Seq(Packets), NEW bytes, NEW k \in 0 .. Len(s)
  PROVE  Dropped(s, Popped([packets |-> s, bytes |-> bytes], k).packets, k)
<1>1. Popped([packets |-> s, bytes |-> bytes], k).packets = SubSeq(s, k + 1, Len(s))
  BY DEF Popped
<1>2. SubSeq(s, k + 1, Len(s)) \in Seq(Packets)
  OBVIOUS
<1>3. Len(SubSeq(s, k + 1, Len(s))) = Len(s) - k
  OBVIOUS
<1>4. \A i \in 1 .. Len(s) - k : SubSeq(s, k + 1, Len(s))[i] = s[i + k]
  OBVIOUS
<1> QED BY <1>1, <1>2, <1>3, <1>4 DEF Dropped

LEMMA DroppedTwice ==
  ASSUME NEW s \in Seq(Packets), NEW t, NEW u, NEW j, NEW k,
         Dropped(s, t, j), Dropped(t, u, k)
  PROVE  Dropped(s, u, j + k)
<1>1. /\ Len(u) = Len(s) - (j + k) /\ j + k \in 0 .. Len(s) /\ u \in Seq(Packets)
  BY DEF Dropped
<1>2. ASSUME NEW i \in 1 .. Len(u) PROVE u[i] = s[i + (j + k)]
  <2>1. i + k \in 1 .. Len(t) /\ (i + k) + j = i + (j + k)
    BY DEF Dropped
  <2>2. u[i] = t[i + k]
    BY DEF Dropped
  <2>3. t[i + k] = s[(i + k) + j]
    BY <2>1 DEF Dropped
  <2> QED BY <2>1, <2>2, <2>3
<1> QED BY <1>1, <1>2 DEF Dropped

\* Whatever the clean up pops, it pops from the front, and not too little.
LEMMA CleanupDrops ==
  ASSUME NEW s \in Seq(Packets), NEW bytes,
         Cleanup([packets |-> s, bytes |-> bytes])
  PROVE  /\ \E k : Dropped(s, packets', k)
         /\ Len(packets') <= MaxSavedPackets
<1> DEFINE h == [packets |-> s, bytes |-> bytes]
<1>1. PICK a \in After(h, TooManyBytes) : \E b \in After(a, FrontTooOld) :
        \E c \in After(b, TooManyPackets) :
          packets' = c.packets /\ current_byte_count' = c.bytes
  BY DEF Cleanup
<1>2. PICK b \in After(a, FrontTooOld) : \E c \in After(b, TooManyPackets) :
          packets' = c.packets /\ current_byte_count' = c.bytes
  BY <1>1
<1>3. PICK c \in After(b, TooManyPackets) : packets' = c.packets
  BY <1>2
<1>4. PICK i \in 0 .. Len(h.packets) : a = Popped(h, i)
  BY DEF After
<1>5. Dropped(s, a.packets, i) /\ a = [packets |-> a.packets, bytes |-> a.bytes]
  BY <1>4, PoppedDrops DEF Popped
<1>6. a.packets \in Seq(Packets)
  BY <1>5 DEF Dropped
<1>7. PICK j \in 0 .. Len(a.packets) : b = Popped(a, j)
  BY DEF After
<1>8. Dropped(a.packets, b.packets, j) /\ b = [packets |-> b.packets, bytes |-> b.bytes]
  BY <1>5, <1>6, <1>7, PoppedDrops DEF Popped
<1>9. b.packets \in Seq(Packets)
  BY <1>8 DEF Dropped
<1>10. PICK k \in 0 .. Len(b.packets) : c = Popped(b, k) /\ ~ TooManyPackets(c)
  BY DEF After
<1>11. Dropped(b.packets, c.packets, k)
  BY <1>8, <1>9, <1>10, PoppedDrops
<1>12. Dropped(s, c.packets, (i + j) + k)
  BY <1>5, <1>8, <1>11, DroppedTwice
<1>13. Len(c.packets) \in Nat /\ Len(c.packets) <= MaxSavedPackets
  <2>1. Len(c.packets) \in Nat
    BY <1>11 DEF Dropped
  <2>2. ~ (Len(c.packets) > MaxSavedPackets)
    BY <1>10 DEF TooManyPackets
  <2> QED BY <2>1, <2>2, SenderAssumption
<1> QED BY <1>3, <1>12, <1>13

\* What holds of the numbers of a history holds of what is left of it.
LEMMA NumbersKept ==
  ASSUME NEW s \in Seq(Packets), NEW t, NEW k, SameNumbers(s, t, k),
         NEW c, NEW up, NEW n \in Int, NEW f \in Nat
  PROVE  /\ Ordered(s, c, up) => Ordered(t, c, up)
         /\ Spaced(s, f) => Spaced(t, f)
         /\ Reaches(s, n, f) => Reaches(t, n, f)
<1>1. /\ k \in Nat /\ Len(s) \in Nat /\ Len(t) = Len(s) - k /\ Len(t) \in Nat
      /\ \A i \in 1 .. Len(t) : i + k \in 1 .. Len(s)
      /\ \A i \in 1 .. Len(t) : t[i].nr = s[i + k].nr /\ t[i].sequence = s[i + k].sequence
  <2>1. k \in 0 .. Len(s) /\ Len(s) \in Nat /\ t \in Seq(Packets) /\ Len(t) = Len(s) - k
    BY DEF SameNumbers
  <2>2. k \in Nat /\ Len(t) \in Nat
    BY <2>1
  <2>3. ASSUME NEW i \in 1 .. Len(t) PROVE i + k \in 1 .. Len(s)
    BY <2>1, <2>2
  <2>4. \A i \in 1 .. Len(t) : t[i].nr = s[i + k].nr /\ t[i].sequence = s[i + k].sequence
    BY Zenon DEF SameNumbers
  <2> QED BY <2>1, <2>2, <2>3, <2>4
<1>2. ASSUME NEW i \in 1 .. Len(s) PROVE s[i].nr \in Nat
  <2>1. s[i] \in Packets
    OBVIOUS
  <2> QED BY <2>1 DEF Packets
<1>3. ASSUME Ordered(s, c, up) PROVE Ordered(t, c, up)
  <2>1. ASSUME NEW i \in 1 .. Len(t), NEW j \in 1 .. Len(t), i < j
        PROVE  Follows(t[i], t[j])
    <3>1. i + k < j + k /\ i + k \in 1 .. Len(s) /\ j + k \in 1 .. Len(s)
      BY <1>1, <2>1
    <3>2. Follows(s[i + k], s[j + k])
      BY <1>3, <3>1 DEF Ordered
    <3> QED BY <1>1, <3>2 DEF Follows
  <2>2. ASSUME NEW i \in 1 .. Len(t), NEW l \in 1 .. Len(c) PROVE Follows(t[i], c[l])
    <3>1. Follows(s[i + k], c[l])
      BY <1>1, <1>3 DEF Ordered
    <3> QED BY <1>1, <3>1 DEF Follows
  <2>3. ASSUME NEW i \in 1 .. Len(t) PROVE Follows(t[i], up)
    <3>1. Follows(s[i + k], up)
      BY <1>1, <1>3 DEF Ordered
    <3> QED BY <1>1, <3>1 DEF Follows
  <2> QED BY <1>3, <2>1, <2>2, <2>3 DEF Ordered
<1>4. ASSUME Spaced(s, f) PROVE Spaced(t, f)
  <2> SUFFICES ASSUME NEW i \in 1 .. Len(t), NEW j \in 1 .. Len(t), i < j
               PROVE  t[j].nr - t[i].nr <= j - i + f
    BY DEF Spaced
  <2>1. s[j + k].nr - s[i + k].nr <= (j + k) - (i + k) + f
    BY <1>1, <1>4 DEF Spaced
  <2>2. (j + k) - (i + k) + f = j - i + f
    BY <1>1
  <2>3. t[i].nr = s[i + k].nr /\ t[j].nr = s[j + k].nr
    BY <1>1
  <2> QED BY <2>1, <2>2, <2>3
<1>5. ASSUME Reaches(s, n, f) PROVE Reaches(t, n, f)
  <2> SUFFICES ASSUME NEW i \in 1 .. Len(t)
               PROVE  n - t[i].nr <= Len(t) + 1 - i + f
    BY DEF Reaches
  <2>1. n - s[i + k].nr <= Len(s) + 1 - (i + k) + f
    BY <1>1, <1>5 DEF Reaches
  <2>2. Len(s) + 1 - (i + k) + f = Len(t) + 1 - i + f
    BY <1>1
  <2>3. t[i].nr = s[i + k].nr
    BY <1>1
  <2> QED BY <2>1, <2>2, <2>3
<1> QED BY <1>3, <1>4, <1>5

LEMMA DroppedNumbers ==
  ASSUME NEW s \in Seq(Packets), NEW t, NEW k, Dropped(s, t, k)
  PROVE  SameNumbers(s, t, k)
BY DEF Dropped, SameNumbers
-----------------------------------------------------------------------------
\* One number more: an entry e behind all others, handled at once or queued.
LEMMA OneMorePacket ==
  ASSUME NEW s \in Seq(Packets), NEW e \in Packets, NEW c, Len(c) \in Nat \ {0},
         NEW up, NEW f \in Nat, NEW n \in Nat, c[1].nr = n, e.nr = n,
         e.sequence = c[1].sequence, Queued(c, n + Len(c)), Tail(c) \in Seq([nr : Nat, sequence : Ids]),
         Len(Tail(c)) = Len(c) - 1,
         \A k \in 1 .. Len(c) - 1 : Tail(c)[k] = c[k + 1]
  PROVE  /\ Append(s, e) \in Seq(Packets)
         /\ Ordered(s, c, up) => Ordered(Append(s, e), Tail(c), up)
         /\ Spaced(s, f) /\ Reaches(s, n, f) =>
              Spaced(Append(s, e), f) /\ Reaches(Append(s, e), n + 1, f)
<1> DEFINE t == Append(s, e)
<1>1. /\ t \in Seq(Packets) /\ Len(t) = Len(s) + 1 /\ Len(s) \in Nat
      /\ \A i \in 1 .. Len(s) : t[i] = s[i]
      /\ t[Len(s) + 1] = e
  OBVIOUS
<1>2. ASSUME NEW i \in 1 .. Len(s) PROVE s[i].nr \in Nat
  <2>1. s[i] \in Packets
    OBVIOUS
  <2> QED BY <2>1 DEF Packets
<1> HIDE DEF t
<1>3. ASSUME Ordered(s, c, up) PROVE Ordered(t, Tail(c), up)
  <2>0. 1 \in 1 .. Len(c)
    OBVIOUS
  <2>1. ASSUME NEW i \in 1 .. Len(t), NEW j \in 1 .. Len(t), i < j
        PROVE  Follows(t[i], t[j])
    <3>0. /\ i \in 1 .. Len(s) /\ t[i] = s[i]
          /\ j \in 1 .. Len(s) \/ j = Len(s) + 1
      <4>1. i \in Int /\ j \in Int /\ 1 <= i /\ i < j /\ j <= Len(s) + 1
        BY <1>1, <2>1
      <4>2. i \in 1 .. Len(s) /\ (j \in 1 .. Len(s) \/ j = Len(s) + 1)
        BY <1>1, <4>1
      <4> QED BY <1>1, <4>2
    <3>1. CASE j \in 1 .. Len(s)
      <4>1. t[j] = s[j]
        BY <1>1, <3>1
      <4> QED BY <1>3, <2>1, <3>0, <3>1, <4>1 DEF Ordered
    <3>2. CASE j = Len(s) + 1
      <4>1. t[j] = e
        BY <1>1, <3>2
      <4>2. Follows(s[i], c[1])
        BY <1>3, <2>0, <3>0 DEF Ordered
      <4> QED BY <3>0, <4>1, <4>2 DEF Follows
    <3> QED BY <3>0, <3>1, <3>2
  <2>2. ASSUME NEW i \in 1 .. Len(t), NEW k \in 1 .. Len(Tail(c))
        PROVE  Follows(t[i], Tail(c)[k])
    <3>0. Tail(c)[k] = c[k + 1] /\ k + 1 \in 1 .. Len(c) /\ 1 < k + 1
      OBVIOUS
    <3>1. CASE i \in 1 .. Len(s)
      BY <1>1, <1>3, <3>0, <3>1 DEF Ordered
    <3>2. CASE i = Len(s) + 1
      <4>1. Follows(c[1], c[k + 1])
        BY <1>3, <2>0, <3>0 DEF Ordered
      <4> QED BY <1>1, <3>0, <3>2, <4>1 DEF Follows
    <3> QED BY <1>1, <3>1, <3>2
  <2>3. ASSUME NEW k \in 1 .. Len(Tail(c)), NEW l \in 1 .. Len(Tail(c)), k < l
        PROVE  Follows(Tail(c)[k], Tail(c)[l])
    <3>1. /\ Tail(c)[k] = c[k + 1] /\ Tail(c)[l] = c[l + 1] /\ k + 1 < l + 1
          /\ k + 1 \in 1 .. Len(c) /\ l + 1 \in 1 .. Len(c)
      BY <2>3
    <3> QED BY <1>3, <3>1 DEF Ordered
  <2>4. ASSUME NEW i \in 1 .. Len(t) PROVE Follows(t[i], up)
    <3>1. CASE i \in 1 .. Len(s)
      BY <1>1, <1>3, <3>1 DEF Ordered
    <3>2. CASE i = Len(s) + 1
      <4>1. Follows(c[1], up)
        BY <1>3, <2>0 DEF Ordered
      <4> QED BY <1>1, <3>2, <4>1 DEF Follows
    <3> QED BY <1>1, <3>1, <3>2
  <2>5. ASSUME NEW k \in 1 .. Len(Tail(c)) PROVE Follows(Tail(c)[k], up)
    <3>0. Tail(c)[k] = c[k + 1] /\ k + 1 \in 1 .. Len(c)
      OBVIOUS
    <3> QED BY <1>3, <3>0 DEF Ordered
  <2> QED BY <2>1, <2>2, <2>3, <2>4, <2>5 DEF Ordered
<1>4. ASSUME Spaced(s, f), Reaches(s, n, f) PROVE Spaced(t, f)
  <2> SUFFICES ASSUME NEW i \in 1 .. Len(t), NEW j \in 1 .. Len(t), i < j
               PROVE  t[j].nr - t[i].nr <= j - i + f
    BY DEF Spaced
  <2>1. CASE j \in 1 .. Len(s)
    <3>1. i \in 1 .. Len(s) /\ t[i] = s[i] /\ t[j] = s[j]
      BY <1>1, <2>1
    <3> QED BY <1>4, <2>1, <3>1 DEF Spaced
  <2>2. CASE j = Len(s) + 1
    <3>1. i \in 1 .. Len(s) /\ t[i] = s[i] /\ t[j] = e
      BY <1>1, <2>2
    <3>2. n - s[i].nr <= Len(s) + 1 - i + f
      BY <1>4, <3>1 DEF Reaches
    <3>3. s[i].nr \in Nat /\ Len(s) \in Nat /\ i \in Int
      BY <1>1, <1>2, <3>1
    <3>4. t[i].nr = s[i].nr /\ t[j].nr = n /\ j = Len(s) + 1
      BY <2>2, <3>1
    <3> QED BY <3>2, <3>3, <3>4
  <2>3. j \in 1 .. Len(s) \/ j = Len(s) + 1
    BY <1>1
  <2> QED BY <2>1, <2>2, <2>3
<1>5. ASSUME Reaches(s, n, f) PROVE Reaches(t, n + 1, f)
  <2> SUFFICES ASSUME NEW i \in 1 .. Len(t)
               PROVE  (n + 1) - t[i].nr <= Len(t) + 1 - i + f
    BY DEF Reaches
  <2>1. CASE i \in 1 .. Len(s)
    <3>1. n - s[i].nr <= Len(s) + 1 - i + f /\ t[i] = s[i]
      BY <1>1, <1>5, <2>1 DEF Reaches
    <3> QED BY <1>1, <1>2, <2>1, <3>1
  <2>2. CASE i = Len(s) + 1
    BY <1>1, <2>2
  <2> QED BY <1>1, <2>1, <2>2
<1> QED BY <1>1, <1>3, <1>4, <1>5 DEF t
-----------------------------------------------------------------------------
LEMMA IsSequence ==
  ASSUME NEW S, NEW n \in Nat, NEW f, f = [k \in 1 .. n |-> f[k]],
         \A k \in 1 .. n : f[k] \in S
  PROVE  f \in Seq(S) /\ Len(f) = n
OBVIOUS

Entries == [nr : Nat, size : Sizes, first : Nat, latest : Nat]
Messages == [nr : Nat, sequence : Ids]

LEMMA EnqueueTypes ==
  ASSUME TypeOK, control # << >>, NEW size \in Sizes,
         Enqueue(Head(control).nr, Head(control).sequence, size)
  PROVE  packets' \in Seq(Packets) /\ log' \in Seq(Entries)
<1> DEFINE e == [nr |-> Head(control).nr, sequence |-> Head(control).sequence,
                 size |-> size, last_send |-> now]
           l == [nr |-> Head(control).nr, size |-> size, first |-> now, latest |-> now]
<1>1. Head(control) \in Messages
  <2>1. control \in Seq(Messages)
    BY DEF TypeOK, Messages
  <2> QED BY <2>1
<1>2. e \in Packets /\ l \in Entries
  <2>1. Head(control).nr \in Nat /\ Head(control).sequence \in Ids /\ now \in Nat
    BY <1>1 DEF TypeOK, Messages
  <2> QED BY <2>1 DEF Packets, Entries
<1>3. Append(packets, e) \in Seq(Packets)
  BY <1>2 DEF TypeOK
<1>4. Cleanup([packets |-> Append(packets, e), bytes |-> current_byte_count + size])
  BY DEF Enqueue
<1>5. packets' \in Seq(Packets)
  BY <1>3, <1>4, CleanupDrops DEF Dropped
<1>6. log' = Append(log, l) /\ log \in Seq(Entries)
  BY DEF Enqueue, TypeOK, Entries
<1> QED BY <1>2, <1>5, <1>6

LEMMA ResendTypes ==
  ASSUME TypeOK, NEW i \in DOMAIN packets, Retransmit(i)
  PROVE  /\ packets' \in Seq(Packets) /\ log' \in Seq(Entries)
         /\ SameNumbers(packets, packets', 0)
<1>0. packets \in Seq(Packets) /\ log \in Seq(Entries) /\ now \in Nat
  BY DEF TypeOK, Entries
<1> DEFINE q == [packets[i] EXCEPT !.last_send = now]
<1>1. packets' = [packets EXCEPT ![i] = q]
  BY DEF Retransmit, Resend
<1>2. \A k \in 1 .. Len(packets) : packets[k] \in Packets
  BY <1>0
<1>3. q \in Packets /\ q.nr = packets[i].nr /\ q.sequence = packets[i].sequence
  <2>1. packets[i] \in Packets
    BY <1>0
  <2> QED BY <1>0, <2>1 DEF Packets
<1> HIDE DEF q
<1>4. /\ packets' \in Seq(Packets) /\ Len(packets') = Len(packets)
      /\ \A k \in 1 .. Len(packets) : packets'[k] = IF k = i THEN q ELSE packets[k]
  BY <1>0, <1>1, <1>2, <1>3
<1>5. log' \in Seq(Entries)
  <2>1. Len(log) \in Nat /\ DOMAIN log = 1 .. Len(log) /\ \A k \in 1 .. Len(log) : log[k] \in Entries
    BY <1>0
  <2>2. log' = [k \in 1 .. Len(log) |->
                 IF log[k].nr = packets[i].nr /\ backend = "present"
                 THEN [log[k] EXCEPT !.latest = now] ELSE log[k]]
    BY <2>1 DEF Retransmit
  <2>3. \A k \in 1 .. Len(log) : log'[k] \in Entries
    BY <1>0, <2>1, <2>2 DEF Entries
  <2>4. log' = [k \in 1 .. Len(log) |-> log'[k]]
    BY <2>2
  <2> QED BY <2>1, <2>3, <2>4, IsSequence
<1>6. SameNumbers(packets, packets', 0)
  <2>1. ASSUME NEW k \in 1 .. Len(packets')
        PROVE  packets'[k].nr = packets[k + 0].nr /\ packets'[k].sequence = packets[k + 0].sequence
    BY <1>0, <1>3, <1>4
  <2>2. 0 \in 0 .. Len(packets) /\ Len(packets') = Len(packets) - 0
    BY <1>0, <1>4
  <2> QED BY <1>4, <2>1, <2>2 DEF SameNumbers
<1> QED BY <1>4, <1>5, <1>6
-----------------------------------------------------------------------------
LEMMA TypeStep ==
  ASSUME TypeOK, [Next]_vars
  PROVE  TypeOK'
<1>0. 0 \in Ids /\ 1 \in Nat
  BY ModulusAssumption DEF Ids
<1> USE SenderAssumption DEF TypeOK, handle, history
<1>1. CASE Send
  <2>1. [nr |-> next, sequence |-> current_sequence_number] \in Messages
    BY DEF Messages
  <2>2. control \in Seq(Messages)
    BY DEF Messages
  <2>3. control' \in Seq(Messages)
    BY <1>1, <2>1, <2>2 DEF Send
  <2>4. WrappingAdd(current_sequence_number, 1) \in Ids
    BY ModulusAssumption DEF WrappingAdd, Ids, MaxValue
  <2> QED BY <1>1, <2>3, <2>4 DEF Send, Messages
<1>2. ASSUME NEW s \in Renumbers, Renumber(s) PROVE TypeOK'
  BY <1>2 DEF Renumber
<1>3. CASE Drop
  BY <1>3 DEF Drop
<1>4. CASE PollHistory
  <2>1. CASE CleanupDue /\ Cleanup(History)
    <3>1. packets' \in Seq(Packets)
      BY <2>1, CleanupDrops DEF History, Dropped
    <3>2. cleanup_at' \in Nat \cup {Never}
      BY <1>4, <2>1 DEF PollHistory, Never, CleanupDue
    <3> QED BY <1>4, <3>1, <3>2 DEF PollHistory
  <2>2. CASE UNCHANGED <<cleanup_at, history>>
    BY <1>4, <2>2 DEF PollHistory
  <2> QED BY <1>4, <2>1, <2>2 DEF PollHistory
<1>5. ASSUME NEW size \in Sizes, SendRtp(size) PROVE TypeOK'
  <2>1. packets' \in Seq(Packets) /\ log' \in Seq(Entries)
    BY <1>5, EnqueueTypes DEF SendRtp, TakeMessage
  <2>2. control' \in Seq([nr : Nat, sequence : Ids])
    BY <1>5 DEF SendRtp, TakeMessage
  <2> QED BY <1>5, <2>1, <2>2 DEF SendRtp, Entries
<1>6. CASE SendRtpFails
  BY <1>6 DEF SendRtpFails, TakeMessage
<1>7. CASE SendRtpUnconnected
  BY <1>7 DEF SendRtpUnconnected, TakeMessage
<1>8. CASE PollEnds
  BY <1>8 DEF PollEnds
<1>9. CASE TransportConnected
  BY <1>9 DEF TransportConnected
<1>10. CASE TransportTornDown
  BY <1>10 DEF TransportTornDown
<1>11. CASE Tick
  BY <1>11 DEF Tick
<1>12. ASSUME NEW s \in Ids, ProcessNack(s) PROVE TypeOK'
  <2>1. PICK i \in Found(s) : Retransmit(i)
    BY <1>12 DEF ProcessNack
  <2>2. packets' \in Seq(Packets) /\ log' \in Seq(Entries)
    BY <2>1, ResendTypes DEF Found
  <2> QED BY <1>12, <2>2 DEF ProcessNack, Entries
<1>13. CASE UNCHANGED vars
  BY <1>13 DEF vars
<1> QED BY <1>1, <1>2, <1>3, <1>4, <1>5, <1>6, <1>7, <1>8, <1>9, <1>10, <1>11, <1>12, <1>13
        DEF Next, Application, Poll, Environment
-----------------------------------------------------------------------------
LEMMA TailOf ==
  ASSUME NEW S, NEW c \in Seq(S), c # << >>
  PROVE  /\ Tail(c) \in Seq(S) /\ Len(c) \in Nat \ {0} /\ Len(Tail(c)) = Len(c) - 1
         /\ \A k \in 1 .. Len(c) - 1 : Tail(c)[k] = c[k + 1]
         /\ Head(c) = c[1]
OBVIOUS

\* Taking a message leaves the others in order.
LEMMA TailKept ==
  ASSUME NEW c \in Seq(Messages), c # << >>, NEW p, NEW up, NEW n \in Nat
  PROVE  /\ Ordered(p, c, up) => Ordered(p, Tail(c), up)
         /\ Queued(c, n) => Queued(Tail(c), n)
<1>1. /\ Len(c) \in Nat \ {0} /\ Len(Tail(c)) = Len(c) - 1
      /\ \A k \in 1 .. Len(Tail(c)) : Tail(c)[k] = c[k + 1] /\ k + 1 \in 1 .. Len(c)
  BY TailOf
<1>2. ASSUME Ordered(p, c, up) PROVE Ordered(p, Tail(c), up)
  <2>1. \A k \in 1 .. Len(Tail(c)) : \A l \in 1 .. Len(Tail(c)) :
          k < l => Follows(Tail(c)[k], Tail(c)[l])
    <3> SUFFICES ASSUME NEW k \in 1 .. Len(Tail(c)), NEW l \in 1 .. Len(Tail(c)), k < l
                 PROVE  Follows(c[k + 1], c[l + 1])
      BY <1>1
    <3>1. k + 1 < l + 1 /\ k + 1 \in 1 .. Len(c) /\ l + 1 \in 1 .. Len(c)
      BY <1>1
    <3> QED BY <1>2, <3>1 DEF Ordered
  <2> QED BY <1>1, <1>2, <2>1 DEF Ordered
<1>3. ASSUME Queued(c, n) PROVE Queued(Tail(c), n)
  <2>1. ASSUME NEW k \in 1 .. Len(Tail(c))
        PROVE  Tail(c)[k].nr = n - Len(Tail(c)) + k - 1
    <3>1. c[k + 1].nr = n - Len(c) + (k + 1) - 1
      BY <1>1, <1>3 DEF Queued
    <3> QED BY <1>1, <3>1
  <2> QED BY <1>1, <1>3, <2>1 DEF Queued
<1> QED BY <1>2, <1>3

\* The number after the next one still follows what the next one followed.
LEMMA FollowsNext ==
  ASSUME NEW a, a.nr \in Nat, a.sequence \in Ids, NEW n \in Nat, NEW q \in Ids
  PROVE  LET up  == [nr |-> n, sequence |-> q]
             up2 == [nr |-> n + 1, sequence |-> WrappingAdd(q, 1)]
         IN Follows(up, up2) /\ (Follows(a, up) => Follows(a, up2))
<1> DEFINE up  == [nr |-> n, sequence |-> q]
           up2 == [nr |-> n + 1, sequence |-> WrappingAdd(q, 1)]
<1>1. Follows(up, up2)
  BY DEF Follows
<1>2. ASSUME Follows(a, up) PROVE Follows(a, up2)
  <2>1. a.nr < n /\ (n - a.nr < Modulus => q = WrappingAdd(a.sequence, n - a.nr))
    BY <1>2 DEF Follows
  <2>2. ASSUME (n + 1) - a.nr < Modulus
        PROVE  WrappingAdd(q, 1) = WrappingAdd(a.sequence, (n + 1) - a.nr)
    <3>1. q = WrappingAdd(a.sequence, n - a.nr)
      BY <2>1, <2>2, ModulusAssumption
    <3>2. PICK d \in Nat : d = n - a.nr /\ d + 1 < Modulus /\ d + 1 = (n + 1) - a.nr
      BY <2>1, <2>2
    <3>3. WrappingAdd(WrappingAdd(a.sequence, d), 1) = WrappingAdd(a.sequence, d + 1)
      BY <3>2, ModulusAssumption DEF WrappingAdd, Ids, MaxValue
    <3> QED BY <3>1, <3>2, <3>3
  <2> QED BY <2>1, <2>2 DEF Follows
<1> QED BY <1>1, <1>2

LEMMA SendOrdered ==
  ASSUME TypeOK, Send
  PROVE  /\ Ordered(packets, control, Upcoming) => Ordered(packets', control', Upcoming')
         /\ Queued(control, next) => Queued(control', next')
         /\ Handled' = Handled
<1>0. /\ packets \in Seq(Packets) /\ control \in Seq(Messages) /\ next \in Nat
      /\ current_sequence_number \in Ids /\ packets' = packets
      /\ control' = Append(control, Upcoming) /\ next' = next + 1
      /\ Upcoming' = [nr |-> next + 1, sequence |-> WrappingAdd(current_sequence_number, 1)]
  BY DEF TypeOK, Send, Messages, Upcoming, history
<1>1. /\ Len(control) \in Nat /\ Len(control') = Len(control) + 1
      /\ \A k \in 1 .. Len(control) : control'[k] = control[k]
      /\ control'[Len(control) + 1] = Upcoming
  BY <1>0
<1>2. \A i \in 1 .. Len(packets) : packets[i].nr \in Nat /\ packets[i].sequence \in Ids
  <2> SUFFICES ASSUME NEW i \in 1 .. Len(packets)
               PROVE packets[i].nr \in Nat /\ packets[i].sequence \in Ids
    OBVIOUS
  <2>1. packets[i] \in Packets
    BY <1>0
  <2> QED BY <2>1 DEF Packets
<1>3. \A k \in 1 .. Len(control) : control[k].nr \in Nat /\ control[k].sequence \in Ids
  <2> SUFFICES ASSUME NEW k \in 1 .. Len(control)
               PROVE control[k].nr \in Nat /\ control[k].sequence \in Ids
    OBVIOUS
  <2>1. control[k] \in Messages
    BY <1>0
  <2> QED BY <2>1 DEF Messages
<1>4. /\ Follows(Upcoming, Upcoming')
      /\ \A a : a.nr \in Nat /\ a.sequence \in Ids /\ Follows(a, Upcoming) => Follows(a, Upcoming')
  <2>1. Upcoming.nr \in Nat /\ Upcoming.sequence \in Ids
    BY <1>0 DEF Upcoming
  <2> QED BY <1>0, <2>1, FollowsNext DEF Upcoming
<1>5. \A k \in 1 .. Len(control') : k \in 1 .. Len(control) \/ k = Len(control) + 1
  BY <1>1
<1>6. ASSUME Ordered(packets, control, Upcoming)
      PROVE  Ordered(packets', control', Upcoming')
  <2>1. \A i \in 1 .. Len(packets), k \in 1 .. Len(control') : Follows(packets[i], control'[k])
    BY <1>1, <1>5, <1>6 DEF Ordered
  <2>2. \A k, l \in 1 .. Len(control') : k < l => Follows(control'[k], control'[l])
    <3> SUFFICES ASSUME NEW k \in 1 .. Len(control'), NEW l \in 1 .. Len(control'), k < l
                 PROVE  Follows(control'[k], control'[l])
      OBVIOUS
    <3>1. k \in 1 .. Len(control) /\ control'[k] = control[k]
      BY <1>1
    <3>2. CASE l \in 1 .. Len(control)
      BY <1>1, <1>6, <3>1, <3>2 DEF Ordered
    <3>3. CASE l = Len(control) + 1
      BY <1>1, <1>6, <3>1, <3>3 DEF Ordered
    <3> QED BY <1>5, <3>2, <3>3
  <2>3. \A i \in 1 .. Len(packets) : Follows(packets[i], Upcoming')
    BY <1>2, <1>4, <1>6 DEF Ordered
  <2>4. \A k \in 1 .. Len(control') : Follows(control'[k], Upcoming')
    BY <1>1, <1>3, <1>4, <1>5, <1>6 DEF Ordered
  <2> QED BY <1>0, <1>6, <2>1, <2>2, <2>3, <2>4 DEF Ordered
<1>7. ASSUME Queued(control, next) PROVE Queued(control', next')
  <2>1. \A k \in 1 .. Len(control') : control'[k].nr = next' - Len(control') + k - 1
    <3> SUFFICES ASSUME NEW k \in 1 .. Len(control')
                 PROVE  control'[k].nr = next' - Len(control') + k - 1
      OBVIOUS
    <3>1. CASE k \in 1 .. Len(control)
      BY <1>0, <1>1, <1>7, <3>1 DEF Queued
    <3>2. CASE k = Len(control) + 1
      BY <1>0, <1>1, <3>2 DEF Upcoming
    <3> QED BY <1>5, <3>1, <3>2
  <2> QED BY <1>0, <1>1, <1>7, <2>1 DEF Queued
<1>8. Handled' = Handled
  BY <1>0, <1>1 DEF Handled
<1> QED BY <1>6, <1>7, <1>8

\* The history after a clean up, or a retransmission, in the state that follows.
LEMMA CleanupInv ==
  ASSUME NEW s \in Seq(Packets), NEW bytes, Cleanup([packets |-> s, bytes |-> bytes]),
         NEW c, NEW up, NEW n \in Int, NEW f \in Nat
  PROVE  /\ Ordered(s, c, up) => Ordered(packets', c, up)
         /\ Spaced(s, f) => Spaced(packets', f)
         /\ Reaches(s, n, f) => Reaches(packets', n, f)
         /\ s = << >> => packets' = << >>
         /\ Len(packets') <= MaxSavedPackets
<1>1. PICK k : Dropped(s, packets', k)
  BY CleanupDrops
<1>2. SameNumbers(s, packets', k)
  BY <1>1, DroppedNumbers
<1>3. s = << >> => packets' = << >>
  BY <1>1 DEF Dropped
<1>4. Len(packets') <= MaxSavedPackets
  BY CleanupDrops
<1> QED BY <1>2, <1>3, <1>4, NumbersKept

LEMMA InvStep ==
  ASSUME Inv, [Next]_vars
  PROVE  Inv'
<1>0. TypeOK /\ TypeOK'
  BY TypeStep DEF Inv
<1>1. /\ packets \in Seq(Packets) /\ control \in Seq(Messages) /\ next \in Nat
      /\ failures \in Nat /\ Len(control) \in Nat /\ Len(packets) \in Nat
      /\ Handled \in Int /\ MaxSavedPackets \in Nat /\ Len(control) <= next
      /\ Queued(control, next) /\ Spaced(packets, failures)
      /\ Len(packets) <= MaxSavedPackets
      /\ ~ renumbered => Ordered(packets, control, Upcoming)
      /\ backend = "absent" => packets = << >>
      /\ backend = "present" => Reaches(packets, Handled, failures)
  <2>1. /\ packets \in Seq(Packets) /\ control \in Seq(Messages) /\ next \in Nat
        /\ failures \in Nat /\ MaxSavedPackets \in Nat
    BY <1>0, SenderAssumption DEF TypeOK, Messages
  <2>2. Len(control) \in Nat /\ Len(packets) \in Nat /\ Handled \in Int
    BY <2>1 DEF Handled
  <2>3. Queued(control, next) /\ Len(control) <= next
    BY DEF Inv, Queued
  <2> QED BY <2>1, <2>2, <2>3 DEF Inv
\* What remains to be shown of a step.
<1> SUFFICES
      /\ ~ renumbered' => Ordered(packets', control', Upcoming')
      /\ Queued(control', next')
      /\ backend' = "absent" => packets' = << >>
      /\ backend' = "present" => Reaches(packets', Handled', failures')
      /\ Spaced(packets', failures')
      /\ Len(packets') <= MaxSavedPackets
  BY <1>0 DEF Inv, Ordered, Queued, Reaches, Spaced, Follows, Upcoming, Handled
<1>2. CASE Send
  BY <1>0, <1>1, <1>2, SendOrdered DEF Send, history
<1>3. ASSUME NEW q \in Renumbers, Renumber(q)
      PROVE  /\ renumbered' /\ Queued(control', next')
             /\ backend' = "absent" => packets' = << >>
             /\ backend' = "present" => Reaches(packets', Handled', failures')
             /\ Spaced(packets', failures') /\ Len(packets') <= MaxSavedPackets
  BY <1>1, <1>3 DEF Renumber, history, Handled
<1>4. CASE PollHistory
  <2>1. /\ control' = control /\ next' = next /\ backend' = backend /\ failures' = failures
        /\ renumbered' = renumbered /\ Upcoming' = Upcoming /\ Handled' = Handled
    BY <1>4 DEF PollHistory, handle, Upcoming, Handled
  <2>2. CASE Cleanup(History)
    BY <1>1, <2>1, <2>2, CleanupInv DEF History
  <2>3. CASE UNCHANGED history
    BY <1>1, <2>1, <2>3 DEF history
  <2> QED BY <1>4, <2>2, <2>3 DEF PollHistory, history
<1>5. ASSUME NEW size \in Sizes, SendRtp(size)
      PROVE  /\ ~ renumbered' => Ordered(packets', control', Upcoming')
             /\ Queued(control', next')
             /\ backend' = "present" /\ Reaches(packets', Handled', failures')
             /\ Spaced(packets', failures') /\ Len(packets') <= MaxSavedPackets
  <2> DEFINE e == [nr |-> Head(control).nr, sequence |-> Head(control).sequence,
                   size |-> size, last_send |-> now]
             s == Append(packets, e)
  <2>1. /\ control # << >> /\ control' = Tail(control) /\ next' = next /\ backend' = "present"
        /\ backend = "present" /\ failures' = failures /\ renumbered' = renumbered
        /\ Upcoming' = Upcoming
        /\ Cleanup([packets |-> s, bytes |-> current_byte_count + size])
    BY <1>5 DEF SendRtp, TakeMessage, Enqueue, handle, Upcoming
  <2>2. /\ Head(control) = control[1] /\ Len(control) \in Nat \ {0} /\ control[1] \in Messages
        /\ Tail(control) \in Seq(Messages) /\ Len(Tail(control)) = Len(control) - 1
        /\ \A k \in 1 .. Len(control) - 1 : Tail(control)[k] = control[k + 1]
    BY <1>1, <2>1, TailOf
  <2>3. control[1].nr = Handled /\ Handled \in Nat /\ Handled' = Handled + 1
    BY <1>1, <2>1, <2>2 DEF Queued, Handled
  <2>4. e \in Packets /\ e.nr = Handled /\ e.sequence = control[1].sequence
    <3>1. control[1].nr \in Nat /\ control[1].sequence \in Ids /\ now \in Nat
      BY <1>0, <2>2 DEF Messages, TypeOK
    <3> QED BY <2>2, <2>3, <3>1 DEF Packets
  <2>5. Queued(control, Handled + Len(control))
    <3>1. Handled + Len(control) = next
      BY <1>1 DEF Handled
    <3> QED BY <1>1, <3>1
  <2> HIDE DEF e
  <2>6. /\ s \in Seq(Packets)
        /\ Ordered(packets, control, Upcoming) => Ordered(s, Tail(control), Upcoming)
        /\ Spaced(s, failures) /\ Reaches(s, Handled + 1, failures)
    BY <1>1, <2>1, <2>2, <2>3, <2>4, <2>5, OneMorePacket DEF Messages
  <2>7. Queued(control', next')
    BY <1>1, <2>1, TailKept
  <2> HIDE DEF s
  <2>8. Handled + 1 \in Int /\ failures \in Nat
    BY <1>1
  <2>9. /\ Ordered(s, Tail(control), Upcoming) => Ordered(packets', Tail(control), Upcoming)
        /\ Spaced(s, failures) => Spaced(packets', failures)
        /\ Reaches(s, Handled + 1, failures) => Reaches(packets', Handled + 1, failures)
        /\ Len(packets') <= MaxSavedPackets
    BY <2>1, <2>6, <2>8, CleanupInv
  <2> QED BY <1>1, <2>1, <2>3, <2>6, <2>7, <2>9
<1>6. CASE SendRtpFails
  <2>1. /\ control # << >> /\ control' = Tail(control) /\ next' = next /\ backend' = "present"
        /\ backend = "present" /\ failures' = failures + 1 /\ renumbered' = renumbered
        /\ Upcoming' = Upcoming /\ packets' = packets
    BY <1>6 DEF SendRtpFails, TakeMessage, handle, history, Upcoming
  <2>2. Handled' = Handled + 1
    BY <1>1, <2>1, TailOf DEF Handled
  <2>3. ASSUME NEW i \in 1 .. Len(packets) PROVE packets[i].nr \in Nat
    <3>1. packets[i] \in Packets
      BY <1>1
    <3> QED BY <3>1 DEF Packets
  <2>4. Reaches(packets, Handled + 1, failures + 1)
    BY <1>1, <2>1, <2>3 DEF Reaches
  <2>5. Spaced(packets, failures + 1)
    <3> SUFFICES ASSUME NEW i \in 1 .. Len(packets), NEW j \in 1 .. Len(packets), i < j
                 PROVE  packets[j].nr - packets[i].nr <= j - i + (failures + 1)
      BY DEF Spaced
    <3>1. packets[j].nr - packets[i].nr <= j - i + failures
      BY <1>1 DEF Spaced
    <3>2. packets[j].nr \in Nat /\ packets[i].nr \in Nat
      BY <2>3
    <3>3. i \in Int /\ j \in Int /\ failures \in Int
      BY <1>1
    <3> QED BY <3>1, <3>2, <3>3
  <2> QED BY <1>1, <2>1, <2>2, <2>4, <2>5, TailKept
<1>7. CASE SendRtpUnconnected
  <2>1. /\ control # << >> /\ control' = Tail(control) /\ next' = next /\ backend' = backend
        /\ backend # "present" /\ failures' = failures /\ renumbered' = renumbered
        /\ Upcoming' = Upcoming /\ packets' = packets
    BY <1>7 DEF SendRtpUnconnected, TakeMessage, handle, history, Upcoming
  <2> QED BY <1>1, <2>1, TailKept
<1>8. ASSUME NEW q \in Ids, ProcessNack(q)
      PROVE  /\ ~ renumbered' => Ordered(packets', control', Upcoming')
             /\ Queued(control', next')
             /\ backend' = "absent" => packets' = << >>
             /\ backend' = "present" => Reaches(packets', Handled', failures')
             /\ Spaced(packets', failures') /\ Len(packets') <= MaxSavedPackets
  <2>1. /\ control' = control /\ next' = next /\ backend' = backend /\ failures' = failures
        /\ renumbered' = renumbered /\ Upcoming' = Upcoming /\ Handled' = Handled
    BY <1>8 DEF ProcessNack, handle, Upcoming, Handled
  <2>2. PICK i \in DOMAIN packets : Retransmit(i)
    BY <1>8 DEF ProcessNack, Found
  <2>3. SameNumbers(packets, packets', 0)
    BY <1>0, <2>2, ResendTypes
  <2>4. Len(packets') = Len(packets) /\ packets # << >>
    BY <1>1, <2>2, <2>3 DEF SameNumbers
  <2> QED BY <1>1, <2>1, <2>3, <2>4, NumbersKept
<1>9. CASE TransportConnected
  <2>1. /\ control' = control /\ next' = next /\ failures' = failures /\ packets' = << >>
        /\ packets = << >> /\ renumbered' = renumbered /\ Upcoming' = Upcoming /\ backend' = "present"
    BY <1>1, <1>9 DEF TransportConnected, handle, history, Upcoming
  <2>2. Reaches(<< >>, Handled', failures')
    BY DEF Reaches
  <2> QED BY <1>1, <2>1, <2>2
<1>10. CASE TransportTornDown
  BY <1>1, <1>10 DEF TransportTornDown, handle, history, Upcoming
<1>11. CASE Drop \/ PollEnds \/ Tick \/ UNCHANGED vars
  BY <1>1, <1>11 DEF Drop, PollEnds, Tick, vars, handle, history, Upcoming, Handled
<1> QED BY <1>2, <1>3, <1>4, <1>5, <1>6, <1>7, <1>8, <1>9, <1>10, <1>11
        DEF Next, Application, Poll, Environment

LEMMA InitInv == Init => Inv
<1> SUFFICES ASSUME Init PROVE Inv
  OBVIOUS
<1>1. TypeOK
  <2>1. 0 \in Ids /\ 0 \in 0 .. MaxFailures /\ 0 \in Nat
    BY ModulusAssumption, SenderAssumption DEF Ids
  <2>2. \A S : << >> \in Seq(S)
    OBVIOUS
  <2> QED BY <2>1, <2>2 DEF Init, TypeOK
<1>2. /\ Len(packets) = 0 /\ Len(control) = 0 /\ next = 0 /\ backend = "absent"
      /\ packets = << >>
  BY DEF Init
<1> QED BY <1>1, <1>2, SenderAssumption DEF Inv, Ordered, Queued, Reaches, Spaced

\* What Inv says of two packets of the history is that their numbers differ.
LEMMA NumbersDiffer ==
  ASSUME Inv, LapWide, ~ renumbered,
         NEW i \in 1 .. Len(packets), NEW j \in 1 .. Len(packets), i < j
  PROVE  packets[i].sequence # packets[j].sequence
<1>1. packets \in Seq(Packets) /\ failures \in 0 .. MaxFailures /\ Len(packets) <= MaxSavedPackets
  BY DEF Inv, TypeOK
<1>2. packets[i] \in Packets /\ packets[j] \in Packets
  BY <1>1
<1>3. /\ packets[i].nr \in Nat /\ packets[j].nr \in Nat
      /\ packets[i].sequence \in Ids /\ packets[j].sequence \in Ids
  BY <1>2 DEF Packets
<1>4. Follows(packets[i], packets[j])
  BY DEF Inv, Ordered
<1>5. packets[j].nr - packets[i].nr <= j - i + failures
  BY DEF Inv, Spaced
<1>6. packets[i].nr < packets[j].nr /\ packets[j].nr - packets[i].nr < Modulus
  <2>1. packets[i].nr < packets[j].nr
    BY <1>4 DEF Follows
  <2>2. j - i + failures < Modulus /\ j - i + failures \in Int
    BY <1>1, SenderAssumption, ModulusAssumption DEF LapWide
  <2> QED BY <1>3, <1>5, <2>1, <2>2, ModulusAssumption
<1>7. packets[j].sequence = WrappingAdd(packets[i].sequence, packets[j].nr - packets[i].nr)
  BY <1>4, <1>6 DEF Follows
<1> QED BY <1>3, <1>6, <1>7, ModulusAssumption DEF WrappingAdd, Ids, MaxValue
-----------------------------------------------------------------------------
(***************************************************************************)
(* What TotalSize computes.  Induction over the length is an argument by   *)
(* the least length there is a counterexample at: that a set of numbers    *)
(* has a least member is what WellFoundedInduction says of Nat.            *)
(***************************************************************************)
Before == {p \in Nat \X Nat : p[1] < p[2]}

LEMMA LeastMember ==
  ASSUME NEW T \in SUBSET Nat, T # {}
  PROVE  \E n \in T : \A m \in T : n <= m
<1>1. IsWellFoundedOn(Before, Nat)
  BY NatLessThanWellFounded DEF OpToRel, Before
<1>2. PICK n \in T : \A m \in T : ~ (<<m, n>> \in Before)
  BY <1>1, WFMin, Zenon
<1>3. ASSUME NEW m \in T PROVE n <= m
  <2>1. m \in Nat /\ n \in Nat
    OBVIOUS
  <2>2. <<m, n>> \in Nat \X Nat /\ <<m, n>>[1] = m /\ <<m, n>>[2] = n
    BY <2>1
  <2>3. ~ (m < n)
    BY <1>2, <2>2 DEF Before
  <2> QED BY <2>1, <2>3
<1> QED BY <1>2, <1>3

\* f sums up the sizes of s from the left, up to each of the first n members.
Sums(f, s, n) ==
  f = [k \in 0 .. n |-> IF k = 0 THEN 0 ELSE f[k - 1] + s[k].size]

Sized(s) == Len(s) \in Nat /\ \A k \in 1 .. Len(s) : s[k].size \in Nat

LEMMA SumsExtend ==
  ASSUME NEW s, NEW n \in Nat, NEW f, Sums(f, s, n)
  PROVE  \E g : Sums(g, s, n + 1)
<1> DEFINE g == [k \in 0 .. n + 1 |-> IF k = n + 1 THEN f[n] + s[n + 1].size ELSE f[k]]
<1>1. \A k \in 0 .. n : f[k] = IF k = 0 THEN 0 ELSE f[k - 1] + s[k].size
  BY DEF Sums
<1>2. ASSUME NEW k \in 0 .. n + 1
      PROVE  g[k] = IF k = 0 THEN 0 ELSE g[k - 1] + s[k].size
  <2>1. CASE k = n + 1
    <3>1. k # 0 /\ k - 1 = n /\ n \in 0 .. n + 1 /\ n # n + 1
      BY <2>1
    <3>2. g[n] = f[n] /\ g[k] = f[n] + s[k].size
      BY <2>1, <3>1
    <3> QED BY <3>1, <3>2
  <2>2. CASE k # n + 1
    <3>1. k \in 0 .. n /\ g[k] = f[k] /\ (k # 0 => g[k - 1] = f[k - 1])
      BY <2>2
    <3> QED BY <1>1, <3>1
  <2> QED BY <2>1, <2>2
<1>3. g = [k \in 0 .. n + 1 |-> g[k]]
  OBVIOUS
<1> HIDE DEF g
<1>4. Sums(g, s, n + 1)
  BY <1>2, <1>3 DEF Sums
<1> QED BY <1>4

LEMMA SumsExist ==
  ASSUME NEW s, NEW n \in Nat
  PROVE  \E f : Sums(f, s, n)
<1> DEFINE T == {k \in Nat : ~ \E f : Sums(f, s, k)}
<1>1. T = {}
  <2> SUFFICES ASSUME T # {} PROVE FALSE
    OBVIOUS
  <2>1. PICK k \in T : \A m \in T : k <= m
    <3>1. T \in SUBSET Nat
      OBVIOUS
    <3> HIDE DEF T
    <3> QED BY <3>1, LeastMember
  <2>2. k # 0
    <3>1. Sums([j \in 0 .. 0 |-> 0], s, 0)
      BY DEF Sums
    <3> QED BY <3>1
  <2>3. k - 1 \in Nat /\ k - 1 \notin T
    BY <2>1, <2>2
  <2>4. PICK f : Sums(f, s, k - 1)
    BY <2>3
  <2>5. \E g : Sums(g, s, (k - 1) + 1)
    BY <2>3, <2>4, SumsExtend
  <2>6. (k - 1) + 1 = k
    OBVIOUS
  <2> QED BY <2>5, <2>6
<1> QED BY <1>1

\* Any running sum of the sizes arrives at TotalSize.
LEMMA SumIs ==
  ASSUME NEW s, Sized(s), NEW g,
         \A k \in 0 .. Len(s) : g[k] \in Int,
         \A k \in 1 .. Len(s) : g[k] = g[k - 1] + s[k].size
  PROVE  TotalSize(s) = g[Len(s)] - g[0]
<1> DEFINE f == CHOOSE f : Sums(f, s, Len(s))
<1>1. TotalSize(s) = f[Len(s)]
  BY DEF TotalSize, Sums
<1>2. Sums(f, s, Len(s))
  BY SumsExist DEF Sized
<1> HIDE DEF f
<1>3. /\ Len(s) \in Nat /\ f[0] = 0
      /\ \A k \in 1 .. Len(s) : f[k] = f[k - 1] + s[k].size /\ s[k].size \in Nat
  BY <1>2 DEF Sums, Sized
<1> DEFINE T == {k \in Nat : k <= Len(s) /\ f[k] # g[k] - g[0]}
<1>4. T = {}
  <2> SUFFICES ASSUME T # {} PROVE FALSE
    OBVIOUS
  <2>1. PICK k \in T : \A m \in T : k <= m
    <3>1. T \in SUBSET Nat
      OBVIOUS
    <3> HIDE DEF T
    <3> QED BY <3>1, LeastMember
  <2>2. k # 0
    <3>1. 0 \in 0 .. Len(s)
      BY <1>3
    <3>2. g[0] \in Int
      BY <3>1
    <3>3. f[0] = g[0] - g[0]
      BY <1>3, <3>2
    <3> QED BY <2>1, <3>3
  <2>3. k \in 1 .. Len(s) /\ k - 1 \in Nat /\ k - 1 \notin T /\ k - 1 <= Len(s)
    BY <1>3, <2>1, <2>2
  <2>4. f[k - 1] = g[k - 1] - g[0]
    BY <2>3
  <2>5. f[k] = f[k - 1] + s[k].size /\ g[k] = g[k - 1] + s[k].size
    BY <1>3, <2>3
  <2>6. g[k - 1] \in Int /\ g[0] \in Int /\ s[k].size \in Int
    BY <1>3, <2>3
  <2>7. f[k] = g[k] - g[0]
    BY <2>4, <2>5, <2>6
  <2> QED BY <2>1, <2>7
<1>5. Len(s) \notin T
  BY <1>4
<1> QED BY <1>1, <1>3, <1>5

Running(g, s) ==
  /\ g[0] = 0 /\ \A k \in 0 .. Len(s) : g[k] \in Nat
  /\ \A k \in 1 .. Len(s) : g[k] = g[k - 1] + s[k].size

LEMMA RunningSum ==
  ASSUME NEW s, Sized(s)
  PROVE  \E g : Running(g, s) /\ TotalSize(s) = g[Len(s)]
<1>1. PICK g : Sums(g, s, Len(s))
  BY SumsExist DEF Sized
<1>2. /\ Len(s) \in Nat /\ g[0] = 0
      /\ \A k \in 1 .. Len(s) : g[k] = g[k - 1] + s[k].size /\ s[k].size \in Nat
  BY <1>1 DEF Sums, Sized
<1> DEFINE T == {k \in Nat : k <= Len(s) /\ g[k] \notin Nat}
<1>3. T = {}
  <2> SUFFICES ASSUME T # {} PROVE FALSE
    OBVIOUS
  <2>1. PICK k \in T : \A m \in T : k <= m
    <3>1. T \in SUBSET Nat
      OBVIOUS
    <3> HIDE DEF T
    <3> QED BY <3>1, LeastMember
  <2>2. k # 0
    BY <1>2, <2>1
  <2>3. k \in 1 .. Len(s) /\ k - 1 \in Nat /\ k - 1 \notin T /\ k - 1 <= Len(s)
    BY <1>2, <2>1, <2>2
  <2>4. g[k - 1] \in Nat
    BY <2>3
  <2>5. g[k] \in Nat
    <3>1. g[k] = g[k - 1] + s[k].size /\ s[k].size \in Nat
      BY <1>2, <2>3
    <3> HIDE DEF T
    <3> QED BY <2>4, <3>1
  <2> QED BY <2>1, <2>5
<1>4. \A k \in 0 .. Len(s) : g[k] \in Nat
  BY <1>2, <1>3
<1>5. Running(g, s)
  BY <1>2, <1>4 DEF Running
<1>6. TotalSize(s) = g[Len(s)] - g[0]
  <2>1. \A k \in 0 .. Len(s) : g[k] \in Int
    BY <1>4
  <2> QED BY <1>2, <2>1, SumIs
<1>7. g[Len(s)] \in Nat
  BY <1>2, <1>4
<1> QED BY <1>2, <1>5, <1>6, <1>7

\* The size of two histories that differ in other respects only.
LEMMA SameSizes ==
  ASSUME NEW s, NEW t, Sized(s), Len(t) = Len(s),
         \A k \in 1 .. Len(s) : t[k].size = s[k].size
  PROVE  Sized(t) /\ TotalSize(t) = TotalSize(s) /\ TotalSize(s) \in Nat
<1>1. Sized(t)
  BY DEF Sized
<1>2. PICK g : Running(g, s) /\ TotalSize(s) = g[Len(s)]
  BY RunningSum
<1>3. Len(s) \in Nat /\ 0 \in 0 .. Len(s) /\ Len(s) \in 0 .. Len(s)
  BY DEF Sized
<1>4. TotalSize(t) = g[Len(t)] - g[0]
  <2>1. \A k \in 0 .. Len(t) : g[k] \in Int
    BY <1>2 DEF Running
  <2>2. \A k \in 1 .. Len(t) : g[k] = g[k - 1] + t[k].size
    BY <1>2 DEF Running
  <2> QED BY <1>1, <2>1, <2>2, SumIs
<1>5. g[Len(s)] \in Nat /\ g[0] = 0
  BY <1>2, <1>3 DEF Running
<1> QED BY <1>1, <1>2, <1>4, <1>5

\* The members of a are as large as the first k of s, those of b as the others.
Splits(s, k, a, b) ==
  /\ k \in 0 .. Len(s)
  /\ Len(a) = k /\ \A i \in 1 .. k : a[i].size = s[i].size
  /\ Len(b) = Len(s) - k /\ \A i \in 1 .. Len(s) - k : b[i].size = s[i + k].size

LEMMA SizeSplits ==
  ASSUME NEW s, Sized(s), NEW k, NEW a, NEW b, Splits(s, k, a, b)
  PROVE  /\ Sized(a) /\ Sized(b)
         /\ TotalSize(a) \in Nat /\ TotalSize(b) \in Nat
         /\ TotalSize(s) = TotalSize(a) + TotalSize(b)
<1> USE DEF Splits
<1>1. /\ Len(s) \in Nat /\ k \in Nat /\ k <= Len(s) /\ k \in 0 .. Len(s)
      /\ \A i \in 1 .. Len(s) : s[i].size \in Nat
  BY DEF Sized
<1>2. Sized(a)
  BY <1>1 DEF Sized
<1>3. \A i \in 1 .. Len(s) - k : i + k \in 1 .. Len(s)
  BY <1>1
<1>4. Sized(b)
  BY <1>1, <1>3 DEF Sized
<1>5. PICK g : Running(g, s) /\ TotalSize(s) = g[Len(s)]
  BY RunningSum
<1>6. g[0] = 0 /\ g[k] \in Nat /\ g[Len(s)] \in Nat
  BY <1>1, <1>5 DEF Running
<1>7. TotalSize(a) = g[k] - g[0]
  <2>1. \A i \in 0 .. Len(a) : g[i] \in Int
    BY <1>1, <1>5 DEF Running
  <2>2. \A i \in 1 .. Len(a) : g[i] = g[i - 1] + a[i].size
    BY <1>1, <1>5 DEF Running
  <2> QED BY <1>2, <2>1, <2>2, SumIs
<1> DEFINE h == [i \in 0 .. Len(s) - k |-> g[i + k]]
<1>8. TotalSize(b) = h[Len(s) - k] - h[0]
  <2>1. ASSUME NEW i \in 0 .. Len(b) PROVE h[i] \in Int
    <3>1. i + k \in 0 .. Len(s) /\ h[i] = g[i + k]
      BY <1>1
    <3> QED BY <1>5, <3>1 DEF Running
  <2>2. ASSUME NEW i \in 1 .. Len(b) PROVE h[i] = h[i - 1] + b[i].size
    <3>1. i \in 1 .. Len(s) - k /\ i - 1 \in 0 .. Len(s) - k /\ i \in 0 .. Len(s) - k
      BY <1>1
    <3>2. h[i] = g[i + k] /\ h[i - 1] = g[(i - 1) + k] /\ b[i].size = s[i + k].size
      BY <3>1
    <3>3. (i - 1) + k = (i + k) - 1
      BY <1>1
    <3>4. g[i + k] = g[(i + k) - 1] + s[i + k].size
      BY <1>3, <1>5, <3>1 DEF Running
    <3> QED BY <3>2, <3>3, <3>4
  <2> HIDE DEF h
  <2> QED BY <1>4, <2>1, <2>2, SumIs
<1>9. h[Len(s) - k] = g[Len(s)] /\ h[0] = g[k]
  <2>1. Len(s) - k \in 0 .. Len(s) - k /\ 0 \in 0 .. Len(s) - k
    BY <1>1
  <2>2. (Len(s) - k) + k = Len(s) /\ 0 + k = k
    BY <1>1
  <2> QED BY <2>1, <2>2
<1> HIDE DEF h
<1>10. TotalSize(a) \in Nat /\ TotalSize(b) \in Nat
  BY <1>2, <1>4, SameSizes
<1> QED BY <1>2, <1>4, <1>5, <1>6, <1>7, <1>8, <1>9, <1>10

LEMMA SizeGrows ==
  ASSUME NEW S, NEW s \in Seq(S), Sized(s), NEW e \in S, e.size \in Nat
  PROVE  /\ Sized(Append(s, e))
         /\ TotalSize(Append(s, e)) = TotalSize(s) + e.size
         /\ TotalSize(s) \in Nat
<1> DEFINE t == Append(s, e)
<1>1. /\ Len(t) = Len(s) + 1 /\ Len(s) \in Nat
      /\ \A i \in 1 .. Len(s) : t[i] = s[i]
      /\ t[Len(s) + 1] = e
  OBVIOUS
<1> HIDE DEF t
<1>2. Sized(t)
  <2>1. \A k \in 1 .. Len(t) : k \in 1 .. Len(s) \/ k = Len(s) + 1
    BY <1>1
  <2> QED BY <1>1, <2>1 DEF Sized
<1> DEFINE b == <<e>>
<1>3. TotalSize(t) = TotalSize(s) + TotalSize(b)
  <2>1. Len(b) = Len(t) - Len(s) /\ Len(s) \in 0 .. Len(t)
    BY <1>1
  <2>2. \A i \in 1 .. Len(t) - Len(s) : b[i].size = t[i + Len(s)].size
    <3>1. \A i \in 1 .. Len(t) - Len(s) : i = 1 /\ i + Len(s) = Len(s) + 1
      BY <1>1
    <3>2. b[1] = e
      OBVIOUS
    <3> QED BY <1>1, <3>1, <3>2
  <2>3. \A i \in 1 .. Len(s) : s[i].size = t[i].size
    BY <1>1
  <2> HIDE DEF b
  <2>4. Splits(t, Len(s), s, b)
    BY <2>1, <2>2, <2>3 DEF Splits
  <2> QED BY <1>2, <2>4, SizeSplits
<1>4. TotalSize(<<e>>) = e.size
  <2> DEFINE g == [k \in 0 .. 1 |-> IF k = 0 THEN 0 ELSE e.size]
  <2>1. Sized(<<e>>) /\ Len(<<e>>) = 1
    BY DEF Sized
  <2>2. \A k \in 0 .. 1 : g[k] \in Int
    OBVIOUS
  <2>3. \A k \in 1 .. 1 : g[k] = g[k - 1] + <<e>>[k].size
    OBVIOUS
  <2>4. g[1] = e.size /\ g[0] = 0
    OBVIOUS
  <2> HIDE DEF g
  <2>5. TotalSize(<<e>>) = g[1] - g[0]
    BY <2>1, <2>2, <2>3, SumIs
  <2> QED BY <2>4, <2>5
<1>5. TotalSize(s) \in Nat
  BY SameSizes
<1> QED BY <1>2, <1>3, <1>4, <1>5 DEF t
-----------------------------------------------------------------------------
(***************************************************************************)
(* Why the clean up pops a packet.  Whole(s) is the history of the packets *)
(* s with their bytes counted, Rest(s, k) what is left when k are popped.  *)
(***************************************************************************)
Rest(s, k) == SubSeq(s, k + 1, Len(s))
Whole(s) == [packets |-> s, bytes |-> TotalSize(s)]

\* With m packets popped the next one has to go as well.
Outlived(s, m) ==
  \/ TotalSize(Rest(s, m)) > MaxSavedBytes
  \/ s[m + 1].last_send <= now - MaxPacketAge
  \/ Len(s) - m > MaxSavedPackets

LEMMA PacketsSized ==
  ASSUME NEW s \in Seq(Packets)
  PROVE  Sized(s) /\ TotalSize(s) \in Nat
<1>1. ASSUME NEW k \in 1 .. Len(s) PROVE s[k].size \in Nat
  <2>1. s[k] \in Packets
    OBVIOUS
  <2> QED BY <2>1, SenderAssumption DEF Packets
<1>2. Sized(s)
  BY <1>1 DEF Sized
<1> QED BY <1>2, SameSizes

LEMMA RestOf ==
  ASSUME NEW s \in Seq(Packets), NEW k \in 0 .. Len(s)
  PROVE  /\ Rest(s, k) \in Seq(Packets) /\ Len(Rest(s, k)) = Len(s) - k
         /\ \A i \in 1 .. Len(s) - k : Rest(s, k)[i] = s[i + k]
BY DEF Rest

LEMMA RestOfRest ==
  ASSUME NEW s \in Seq(Packets), NEW j \in 0 .. Len(s), NEW k \in 0 .. Len(s) - j
  PROVE  Rest(Rest(s, j), k) = Rest(s, j + k)
<1>1. /\ Len(s) \in Nat /\ j \in Nat /\ k \in Nat /\ j + k \in 0 .. Len(s)
      /\ k \in 0 .. Len(Rest(s, j))
  BY RestOf
<1>2. /\ Rest(s, j) \in Seq(Packets) /\ Len(Rest(s, j)) = Len(s) - j
      /\ \A i \in 1 .. Len(s) - j : Rest(s, j)[i] = s[i + j]
  BY RestOf
<1>3. /\ Rest(s, j + k) \in Seq(Packets) /\ Len(Rest(s, j + k)) = Len(s) - (j + k)
      /\ \A i \in 1 .. Len(s) - (j + k) : Rest(s, j + k)[i] = s[i + (j + k)]
  BY <1>1, RestOf
<1>4. /\ Rest(Rest(s, j), k) \in Seq(Packets)
      /\ Len(Rest(Rest(s, j), k)) = Len(Rest(s, j)) - k
      /\ \A i \in 1 .. Len(Rest(s, j)) - k : Rest(Rest(s, j), k)[i] = Rest(s, j)[i + k]
  BY <1>1, <1>2, RestOf
<1>5. Len(Rest(Rest(s, j), k)) = Len(Rest(s, j + k))
  BY <1>1, <1>2, <1>3, <1>4
<1>6. ASSUME NEW i \in 1 .. Len(Rest(s, j + k))
      PROVE  Rest(Rest(s, j), k)[i] = Rest(s, j + k)[i]
  <2>1. i \in 1 .. Len(Rest(s, j)) - k /\ i + k \in 1 .. Len(s) - j
        /\ (i + k) + j = i + (j + k) /\ i \in 1 .. Len(s) - (j + k)
    BY <1>1, <1>2, <1>3
  <2> QED BY <1>2, <1>3, <1>4, <2>1
<1> QED BY <1>3, <1>4, <1>5, <1>6

LEMMA PoppedWhole ==
  ASSUME NEW s \in Seq(Packets), NEW k \in 0 .. Len(s)
  PROVE  Popped(Whole(s), k) = Whole(Rest(s, k))
<1> DEFINE a == SubSeq(s, 1, k)
           b == Rest(s, k)
<1>1. /\ Len(s) \in Nat /\ k \in Nat /\ k <= Len(s)
      /\ Len(a) = k /\ \A i \in 1 .. k : a[i] = s[i]
  OBVIOUS
<1>2. Len(b) = Len(s) - k /\ \A i \in 1 .. Len(s) - k : b[i] = s[i + k]
  BY RestOf
<1> HIDE DEF a, b
<1>3. Splits(s, k, a, b)
  BY <1>1, <1>2 DEF Splits
<1>4. /\ TotalSize(a) \in Nat /\ TotalSize(b) \in Nat
      /\ TotalSize(s) = TotalSize(a) + TotalSize(b)
  BY <1>3, PacketsSized, SizeSplits
<1>5. TotalSize(s) - TotalSize(a) = TotalSize(b)
  BY <1>4
<1> QED BY <1>5 DEF Popped, Whole, Rest, a, b

LEMMA CleanupReasons ==
  ASSUME NEW s \in Seq(Packets), Cleanup(Whole(s))
  PROVE  \E k \in 0 .. Len(s) :
           /\ packets' = Rest(s, k) /\ current_byte_count' = TotalSize(packets')
           /\ \A m \in 0 .. k - 1 : Outlived(s, m)
<1>0. Len(s) \in Nat
  OBVIOUS
<1>1. PICK a \in After(Whole(s), TooManyBytes) : \E b \in After(a, FrontTooOld) :
        \E c \in After(b, TooManyPackets) :
          packets' = c.packets /\ current_byte_count' = c.bytes
  BY DEF Cleanup
<1>2. PICK b \in After(a, FrontTooOld) : \E c \in After(b, TooManyPackets) :
          packets' = c.packets /\ current_byte_count' = c.bytes
  BY <1>1
<1>3. PICK c \in After(b, TooManyPackets) :
          packets' = c.packets /\ current_byte_count' = c.bytes
  BY <1>2
<1>4. PICK i \in 0 .. Len(s) :
        /\ a = Popped(Whole(s), i)
        /\ \A m \in 0 .. i - 1 : TooManyBytes(Popped(Whole(s), m))
  BY DEF After, Whole
<1>5. a = Whole(Rest(s, i))
  BY <1>4, PoppedWhole
<1>6. ASSUME NEW m \in 0 .. i - 1 PROVE Outlived(s, m)
  <2>1. m \in 0 .. Len(s)
    BY <1>0
  <2>2. TooManyBytes(Whole(Rest(s, m)))
    BY <1>4, <2>1, PoppedWhole
  <2> QED BY <2>2 DEF TooManyBytes, Whole, Outlived
<1> DEFINE r == Rest(s, i)
<1>7. /\ r \in Seq(Packets) /\ Len(r) = Len(s) - i
      /\ \A n \in 1 .. Len(s) - i : r[n] = s[n + i]
  BY RestOf
<1>8. PICK j \in 0 .. Len(r) :
        /\ b = Popped(Whole(r), j)
        /\ \A m \in 0 .. j - 1 : FrontTooOld(Popped(Whole(r), m))
  BY <1>5 DEF After, Whole
<1>9. i + j \in 0 .. Len(s) /\ i \in Nat /\ j \in Nat
  BY <1>0, <1>7
<1>10. b = Whole(Rest(s, i + j))
  <2>1. b = Whole(Rest(r, j))
    BY <1>7, <1>8, PoppedWhole
  <2>2. j \in 0 .. Len(s) - i
    BY <1>7
  <2> QED BY <2>1, <2>2, RestOfRest
<1>11. ASSUME NEW m \in i .. i + j - 1 PROVE Outlived(s, m)
  <2>1. m - i \in 0 .. j - 1 /\ m - i \in 0 .. Len(r) /\ 1 \in 1 .. Len(r) - (m - i)
        /\ 1 + (m - i) \in 1 .. Len(s) - i /\ (1 + (m - i)) + i = m + 1
    BY <1>0, <1>7, <1>9
  <2>2. FrontTooOld(Whole(Rest(r, m - i)))
    <3>1. Popped(Whole(r), m - i) = Whole(Rest(r, m - i))
      BY <1>7, <2>1, PoppedWhole
    <3> QED BY <1>8, <2>1, <3>1
  <2>3. Rest(r, m - i)[1].last_send <= now - MaxPacketAge
    BY <2>2 DEF FrontTooOld, Whole
  <2>4. Rest(r, m - i)[1] = r[1 + (m - i)]
    BY <1>7, <2>1, RestOf
  <2>5. r[1 + (m - i)] = s[(1 + (m - i)) + i]
    BY <1>7, <2>1
  <2> QED BY <2>1, <2>3, <2>4, <2>5 DEF Outlived
<1> DEFINE q == Rest(s, i + j)
<1>12. q \in Seq(Packets) /\ Len(q) = Len(s) - (i + j)
  BY <1>9, RestOf
<1>13. PICK k \in 0 .. Len(q) :
        /\ c = Popped(Whole(q), k)
        /\ \A m \in 0 .. k - 1 : TooManyPackets(Popped(Whole(q), m))
  BY <1>10 DEF After, Whole
<1>14. (i + j) + k \in 0 .. Len(s) /\ k \in Nat /\ k \in 0 .. Len(s) - (i + j)
  BY <1>0, <1>9, <1>12
<1>15. c = Whole(Rest(s, (i + j) + k))
  <2>1. c = Whole(Rest(q, k))
    BY <1>12, <1>13, PoppedWhole
  <2> QED BY <1>9, <1>14, <2>1, RestOfRest
<1>16. ASSUME NEW m \in i + j .. (i + j) + k - 1 PROVE Outlived(s, m)
  <2>1. m - (i + j) \in 0 .. k - 1 /\ m - (i + j) \in 0 .. Len(q)
    BY <1>9, <1>12, <1>14
  <2>2. TooManyPackets(Whole(Rest(q, m - (i + j))))
    <3>1. Popped(Whole(q), m - (i + j)) = Whole(Rest(q, m - (i + j)))
      BY <1>12, <2>1, PoppedWhole
    <3> QED BY <1>13, <2>1, <3>1
  <2>3. Len(Rest(q, m - (i + j))) > MaxSavedPackets
    BY <2>2 DEF TooManyPackets, Whole
  <2>4. Len(Rest(q, m - (i + j))) = Len(q) - (m - (i + j))
    BY <1>12, <2>1, RestOf
  <2>5. Len(q) - (m - (i + j)) = Len(s) - m
    BY <1>0, <1>9, <1>12
  <2> QED BY <2>3, <2>4, <2>5 DEF Outlived
<1> HIDE DEF r, q
<1>17. ASSUME NEW m \in 0 .. ((i + j) + k) - 1 PROVE Outlived(s, m)
  <2>1. m \in 0 .. i - 1 \/ m \in i .. i + j - 1 \/ m \in i + j .. (i + j) + k - 1
    BY <1>9, <1>14
  <2> QED BY <1>6, <1>11, <1>16, <2>1
<1>18. packets' = Rest(s, (i + j) + k) /\ current_byte_count' = TotalSize(packets')
  BY <1>3, <1>15 DEF Whole
<1> QED BY <1>14, <1>17, <1>18
-----------------------------------------------------------------------------
(***************************************************************************)
(* The history p is the end of the log l: what is saved of a packet agrees *)
(* with the log, and it went on the wire no later than it was last taken   *)
(* for a retransmission.                                                   *)
(***************************************************************************)
Suffix(p, l) ==
  /\ Len(p) <= Len(l)
  /\ \A i \in 1 .. Len(p) :
       LET e == l[i + (Len(l) - Len(p))]
       IN  /\ p[i].nr = e.nr /\ p[i].size = e.size
           /\ e.first <= p[i].last_send /\ e.latest <= p[i].last_send

\* The log has the packets below number n, each once and in their order.
Recorded(l, n) ==
  /\ \A i, j \in 1 .. Len(l) : i < j => l[i].nr < l[j].nr
  /\ \A i \in 1 .. Len(l) : l[i].nr < n

\* The first d packets of the log may be forgotten at time t.
MayGo(l, i, t) ==
  \/ t - l[i].first >= MaxPacketAge
  \/ Len(l) - i + 1 > MaxSavedPackets
  \/ TotalSize(SubSeq(l, i, Len(l))) > MaxSavedBytes
LetGo(l, d, t) == \A i \in 1 .. d : MayGo(l, i, t)

SentBy(p, t) == \A i \in 1 .. Len(p) : p[i].last_send <= t

Kept ==
  /\ Suffix(packets, log)
  /\ Recorded(log, Handled)
  /\ SentBy(packets, now)
  /\ BytesCounted
  /\ LetGo(log, Len(log) - Len(packets), now)

LEMMA EntryOf ==
  ASSUME NEW l \in Seq(Entries), NEW i \in 1 .. Len(l)
  PROVE  /\ l[i].nr \in Nat /\ l[i].size \in Nat /\ l[i].first \in Nat /\ l[i].latest \in Nat
         /\ Len(l) \in Nat
<1>1. l[i] \in Entries /\ Len(l) \in Nat
  OBVIOUS
<1> QED BY <1>1, SenderAssumption DEF Entries

LEMMA PacketOf ==
  ASSUME NEW p \in Seq(Packets), NEW i \in 1 .. Len(p)
  PROVE  /\ p[i].nr \in Nat /\ p[i].size \in Nat /\ p[i].last_send \in Nat
         /\ Len(p) \in Nat
<1>1. p[i] \in Packets /\ Len(p) \in Nat
  OBVIOUS
<1> QED BY <1>1, SenderAssumption DEF Packets

LEMMA LogSized ==
  ASSUME NEW l \in Seq(Entries), NEW i \in 1 .. Len(l)
  PROVE  /\ Sized(SubSeq(l, i, Len(l))) /\ SubSeq(l, i, Len(l)) \in Seq(Entries)
         /\ Len(SubSeq(l, i, Len(l))) = Len(l) - i + 1
         /\ \A n \in 1 .. Len(l) - i + 1 : SubSeq(l, i, Len(l))[n] = l[n + i - 1]
<1> DEFINE r == SubSeq(l, i, Len(l))
<1>1. /\ Len(l) \in Nat /\ r \in Seq(Entries) /\ Len(r) = Len(l) - i + 1
      /\ \A n \in 1 .. Len(l) - i + 1 : r[n] = l[n + i - 1]
  OBVIOUS
<1> HIDE DEF r
<1>2. \A n \in 1 .. Len(r) : r[n].size \in Nat
  BY <1>1, EntryOf
<1>3. Sized(r)
  BY <1>1, <1>2 DEF Sized
<1> QED BY <1>1, <1>3 DEF r

\* What the clean up pops may go, and what it leaves is the end of the log.
LEMMA CleanupKeeps ==
  ASSUME TypeOK, NEW s \in Seq(Packets), NEW l \in Seq(Entries), Suffix(s, l),
         LetGo(l, Len(l) - Len(s), now), SentBy(s, now), Cleanup(Whole(s))
  PROVE  /\ Suffix(packets', l) /\ SentBy(packets', now)
         /\ current_byte_count' = TotalSize(packets')
         /\ LetGo(l, Len(l) - Len(packets'), now)
<1> DEFINE d == Len(l) - Len(s)
<1>1. PICK k \in 0 .. Len(s) :
           /\ packets' = Rest(s, k) /\ current_byte_count' = TotalSize(packets')
           /\ \A m \in 0 .. k - 1 : Outlived(s, m)
  BY CleanupReasons
<1>2. /\ Len(packets') = Len(s) - k
      /\ \A i \in 1 .. Len(s) - k : packets'[i] = s[i + k]
  BY <1>1, RestOf
<1>3. /\ Len(s) \in Nat /\ Len(l) \in Nat /\ k \in Nat /\ k <= Len(s)
      /\ Len(s) <= Len(l) /\ now \in Nat
  BY <1>1 DEF Suffix, TypeOK
<1>4. /\ d \in Nat /\ Len(l) - Len(packets') = d + k
  BY <1>2, <1>3
<1>5. \A i \in 1 .. Len(s) : /\ s[i].nr = l[i + d].nr /\ s[i].size = l[i + d].size
                             /\ l[i + d].first <= s[i].last_send
                             /\ l[i + d].latest <= s[i].last_send
  BY Zenon DEF Suffix
<1> HIDE DEF d
<1>6. Suffix(packets', l)
  <2> SUFFICES ASSUME NEW i \in 1 .. Len(s) - k
               PROVE  LET e == l[i + (d + k)]
                      IN  /\ packets'[i].nr = e.nr /\ packets'[i].size = e.size
                          /\ e.first <= packets'[i].last_send
                          /\ e.latest <= packets'[i].last_send
    BY <1>2, <1>3, <1>4 DEF Suffix
  <2>1. i + k \in 1 .. Len(s) /\ (i + k) + d = i + (d + k)
    <3>1. i \in Int /\ 1 <= i /\ i <= Len(s) - k /\ k \in Nat /\ d \in Int /\ Len(s) \in Int
      BY <1>3, <1>4
    <3>2. \A x, y, z \in Int, m \in Nat :
            1 <= x /\ x <= y - m => x + m \in 1 .. y /\ (x + m) + z = x + (z + m)
      OBVIOUS
    <3> QED BY <3>1, <3>2
  <2>2. packets'[i] = s[i + k]
    BY <1>2
  <2> QED BY <1>5, <2>1, <2>2
<1>7. SentBy(packets', now)
  <2> SUFFICES ASSUME NEW i \in 1 .. Len(s) - k PROVE s[i + k].last_send <= now
    BY <1>2 DEF SentBy
  <2>1. i + k \in 1 .. Len(s)
    BY <1>3
  <2> QED BY <2>1 DEF SentBy
<1>8. ASSUME NEW i \in 1 .. d + k PROVE MayGo(l, i, now)
  <2>1. CASE i \in 1 .. d
    BY <2>1 DEF LetGo, d
  <2>2. CASE i \notin 1 .. d
    <3> DEFINE m == i - d - 1
    <3>1. /\ m \in 0 .. k - 1 /\ m \in 0 .. Len(s) /\ m + 1 \in 1 .. Len(s)
          /\ i = (m + 1) + d /\ i \in 1 .. Len(l) /\ Len(s) - m = Len(l) - i + 1
      BY <1>3, <1>4, <2>2 DEF d
    <3>2. Outlived(s, m)
      BY <1>1, <3>1
    <3> HIDE DEF m
    <3>3. ASSUME TotalSize(Rest(s, m)) > MaxSavedBytes
          PROVE  TotalSize(SubSeq(l, i, Len(l))) > MaxSavedBytes
      <4> DEFINE r == SubSeq(l, i, Len(l))
      <4>1. /\ Sized(r) /\ Len(r) = Len(l) - i + 1
            /\ \A n \in 1 .. Len(l) - i + 1 : r[n] = l[n + i - 1]
        BY <3>1, LogSized
      <4>2. /\ Len(Rest(s, m)) = Len(s) - m
            /\ \A n \in 1 .. Len(s) - m : Rest(s, m)[n] = s[n + m]
        BY <3>1, RestOf
      <4> HIDE DEF r
      <4>3. ASSUME NEW n \in 1 .. Len(r) PROVE Rest(s, m)[n].size = r[n].size
        <5>1. /\ n \in 1 .. Len(s) - m /\ n \in 1 .. Len(l) - i + 1 /\ n + m \in 1 .. Len(s)
              /\ (n + m) + d = n + i - 1
          BY <1>3, <1>4, <3>1, <4>1
        <5> QED BY <1>5, <4>1, <4>2, <5>1
      <4>4. TotalSize(Rest(s, m)) = TotalSize(r)
        BY <3>1, <4>1, <4>2, <4>3, SameSizes
      <4> QED BY <3>3, <4>4 DEF r
    <3>4. ASSUME s[m + 1].last_send <= now - MaxPacketAge
          PROVE  now - l[i].first >= MaxPacketAge
      <4>1. l[i].first <= s[m + 1].last_send
        BY <1>5, <3>1
      <4>2. l[i].first \in Nat /\ s[m + 1].last_send \in Nat
        BY <3>1, EntryOf, PacketOf
      <4> QED BY <1>3, <3>4, <4>1, <4>2, SenderAssumption
    <3> QED BY <3>1, <3>2, <3>3, <3>4 DEF Outlived, MayGo
  <2> QED BY <2>1, <2>2
<1>9. LetGo(l, d + k, now)
  BY <1>8 DEF LetGo
<1> QED BY <1>1, <1>4, <1>6, <1>7, <1>9

LEMMA AppendOf ==
  ASSUME NEW S, NEW s \in Seq(S), NEW e \in S
  PROVE  /\ Append(s, e) \in Seq(S) /\ Len(Append(s, e)) = Len(s) + 1 /\ Len(s) \in Nat
         /\ \A i \in 1 .. Len(s) : Append(s, e)[i] = s[i]
         /\ Append(s, e)[Len(s) + 1] = e
OBVIOUS

\* Another packet, saved and logged under the number n.
LEMMA BothGrow ==
  ASSUME NEW p \in Seq(Packets), NEW l \in Seq(Entries), NEW n \in Nat, NEW t \in Nat,
         NEW x \in Packets, NEW e \in Entries, x.nr = n, e.nr = n, x.size = e.size,
         x.last_send = t, e.first = t, e.latest = t,
         Suffix(p, l), Recorded(l, n), SentBy(p, t), LetGo(l, Len(l) - Len(p), t)
  PROVE  LET q == Append(p, x)
             m == Append(l, e)
         IN  /\ Suffix(q, m) /\ Recorded(m, n + 1) /\ SentBy(q, t)
             /\ LetGo(m, Len(m) - Len(q), t)
<1> DEFINE q == Append(p, x)
           m == Append(l, e)
<1>1. /\ q \in Seq(Packets) /\ Len(q) = Len(p) + 1 /\ Len(p) \in Nat
      /\ \A i \in 1 .. Len(p) : q[i] = p[i]
      /\ q[Len(p) + 1] = x
  OBVIOUS
<1>2. /\ m \in Seq(Entries) /\ Len(m) = Len(l) + 1 /\ Len(l) \in Nat
      /\ \A i \in 1 .. Len(l) : m[i] = l[i]
      /\ m[Len(l) + 1] = e
  OBVIOUS
<1> HIDE DEF q, m
<1> DEFINE d == Len(l) - Len(p)
<1>3. d \in Nat /\ Len(m) - Len(q) = d /\ Len(q) <= Len(m) /\ d <= Len(l)
      /\ Len(p) + d = Len(l)
  BY <1>1, <1>2 DEF Suffix
<1>4. \A i \in 1 .. Len(p) : /\ p[i].nr = l[i + d].nr /\ p[i].size = l[i + d].size
                             /\ l[i + d].first <= p[i].last_send
                             /\ l[i + d].latest <= p[i].last_send
  BY Zenon DEF Suffix
<1>5. \A i \in 1 .. Len(q) : i \in 1 .. Len(p) \/ i = Len(p) + 1
  BY <1>1
<1>6. \A i \in 1 .. Len(m) : i \in 1 .. Len(l) \/ i = Len(l) + 1
  BY <1>2
<1> HIDE DEF d
<1>7. Suffix(q, m)
  <2> SUFFICES ASSUME NEW i \in 1 .. Len(q)
               PROVE  /\ q[i].nr = m[i + d].nr /\ q[i].size = m[i + d].size
                      /\ m[i + d].first <= q[i].last_send
                      /\ m[i + d].latest <= q[i].last_send
    BY <1>3 DEF Suffix
  <2>1. CASE i \in 1 .. Len(p)
    <3>1. i + d \in 1 .. Len(l)
      BY <1>1, <1>2, <1>3, <2>1
    <3> QED BY <1>1, <1>2, <1>4, <2>1, <3>1
  <2>2. CASE i = Len(p) + 1
    <3>1. i + d = Len(l) + 1
      <4>1. \A a, b, c \in Int : a + b = c => (a + 1) + b = c + 1
        OBVIOUS
      <4>2. Len(p) \in Int /\ d \in Int /\ Len(l) \in Int
        BY <1>1, <1>2, <1>3
      <4> QED BY <1>3, <2>2, <4>1, <4>2
    <3> QED BY <1>1, <1>2, <2>2, <3>1
  <2> QED BY <1>5, <2>1, <2>2
<1>8. Recorded(m, n + 1)
  <2>1. ASSUME NEW i \in 1 .. Len(m) PROVE m[i].nr < n + 1
    <3>1. CASE i \in 1 .. Len(l)
      <4>1. l[i].nr < n /\ l[i].nr \in Nat
        BY <3>1, EntryOf DEF Recorded
      <4> QED BY <1>2, <3>1, <4>1
    <3> QED BY <1>2, <1>6, <3>1
  <2>2. ASSUME NEW i \in 1 .. Len(m), NEW j \in 1 .. Len(m), i < j
        PROVE  m[i].nr < m[j].nr
    <3>1. i \in 1 .. Len(l)
      BY <1>2, <2>2
    <3>2. CASE j \in 1 .. Len(l)
      BY <1>2, <2>2, <3>1, <3>2 DEF Recorded
    <3>3. CASE j = Len(l) + 1
      BY <1>2, <3>1, <3>3 DEF Recorded
    <3> QED BY <1>6, <3>2, <3>3
  <2> QED BY <2>1, <2>2 DEF Recorded
<1>9. SentBy(q, t)
  BY <1>1, <1>5 DEF SentBy
<1>10. ASSUME NEW i \in 1 .. d PROVE MayGo(m, i, t)
  <2>1. i \in 1 .. Len(l) /\ i \in 1 .. Len(m) /\ i \in Nat /\ m[i] = l[i]
    BY <1>2, <1>3
  <2>2. MayGo(l, i, t)
    BY DEF LetGo, d
  <2>3. ASSUME Len(l) - i + 1 > MaxSavedPackets PROVE Len(m) - i + 1 > MaxSavedPackets
    BY <1>2, <2>1, <2>3, SenderAssumption
  <2>4. ASSUME TotalSize(SubSeq(l, i, Len(l))) > MaxSavedBytes
        PROVE  TotalSize(SubSeq(m, i, Len(m))) > MaxSavedBytes
    <3> DEFINE a == SubSeq(l, i, Len(l))
               b == SubSeq(m, i, Len(m))
               c == Append(a, e)
    <3>1. /\ Sized(a) /\ a \in Seq(Entries) /\ Len(a) = Len(l) - i + 1
          /\ \A k \in 1 .. Len(l) - i + 1 : a[k] = l[k + i - 1]
      BY <2>1, LogSized
    <3>2. /\ Sized(b) /\ Len(b) = Len(m) - i + 1
          /\ \A k \in 1 .. Len(m) - i + 1 : b[k] = m[k + i - 1]
      BY <1>2, <2>1, LogSized
    <3>3. e.size \in Nat
      BY SenderAssumption DEF Entries
    <3> HIDE DEF a, b
    <3>4. /\ Len(a) \in Nat /\ Len(a) + i = Len(l) + 1 /\ Len(m) - i + 1 = Len(a) + 1
      BY <1>2, <2>1, <3>1
    <3>5. /\ Sized(c) /\ TotalSize(c) = TotalSize(a) + e.size /\ TotalSize(a) \in Nat
      BY <3>1, <3>3, SizeGrows
    <3>6. /\ Len(c) = Len(a) + 1 /\ c[Len(a) + 1] = e
          /\ \A k \in 1 .. Len(a) : c[k] = a[k]
      <4>1. a \in Seq(Entries) /\ e \in Entries
        BY <3>1
      <4> QED BY <4>1, AppendOf
    <3> HIDE DEF c
    <3>7. ASSUME NEW k \in 1 .. Len(c) PROVE b[k].size = c[k].size
      <4>1. CASE k \in 1 .. Len(a)
        <5>1. k + i - 1 \in 1 .. Len(l) /\ k \in 1 .. Len(m) - i + 1 /\ k \in 1 .. Len(l) - i + 1
          <6>1. /\ k \in Int /\ i \in Int /\ Len(a) \in Int /\ Len(l) \in Int
                /\ 1 <= k /\ k <= Len(a) /\ 1 <= i
            BY <1>2, <2>1, <3>4, <4>1
          <6>2. \A h, j, w, z \in Int :
                  w + j = z + 1 /\ 1 <= h /\ h <= w /\ 1 <= j =>
                    /\ h + j - 1 \in 1 .. z /\ h \in 1 .. z - j + 1 /\ h \in 1 .. w + 1
            OBVIOUS
          <6> QED BY <3>4, <6>1, <6>2
        <5> QED BY <1>2, <3>1, <3>2, <3>6, <4>1, <5>1
      <4>2. CASE k = Len(a) + 1
        <5>1. k + i - 1 = Len(l) + 1 /\ k \in 1 .. Len(m) - i + 1
          <6>1. i \in Int /\ Len(a) \in Nat /\ Len(l) \in Int
            BY <1>2, <2>1, <3>4
          <6>2. \A h \in Nat, j, z \in Int :
                  h + j = z + 1 => (h + 1) + j - 1 = z + 1 /\ h + 1 \in 1 .. h + 1
            OBVIOUS
          <6> QED BY <3>4, <4>2, <6>1, <6>2
        <5> QED BY <1>2, <3>2, <3>6, <4>2, <5>1
      <4>3. k \in 1 .. Len(a) \/ k = Len(a) + 1
        BY <3>6, <3>4
      <4> QED BY <4>1, <4>2, <4>3
    <3>8. Len(b) = Len(c)
      BY <1>2, <2>1, <3>1, <3>2, <3>6
    <3>9. TotalSize(b) = TotalSize(c)
      BY <3>5, <3>7, <3>8, SameSizes
    <3>10. TotalSize(a) > MaxSavedBytes
      BY <2>4 DEF a
    <3> QED BY <3>3, <3>5, <3>9, <3>10, SenderAssumption DEF b
  <2> QED BY <2>1, <2>2, <2>3, <2>4 DEF MayGo
<1>11. LetGo(m, d, t)
  BY <1>10 DEF LetGo
<1> QED BY <1>3, <1>7, <1>8, <1>9, <1>11 DEF q, m

LEMMA BytesGrow ==
  ASSUME NEW p \in Seq(Packets), NEW x \in Packets
  PROVE  [packets |-> Append(p, x), bytes |-> TotalSize(p) + x.size] = Whole(Append(p, x))
<1>1. x.size \in Nat
  BY SenderAssumption DEF Packets
<1>2. TotalSize(Append(p, x)) = TotalSize(p) + x.size
  BY <1>1, PacketsSized, SizeGrows
<1> QED BY <1>2 DEF Whole

\* A retransmission changes when packets were sent, in the log of those only
\* that reach the wire.
LEMMA RetransmitChanges ==
  ASSUME TypeOK, NEW i \in DOMAIN packets, Retransmit(i)
  PROVE  /\ i \in 1 .. Len(packets) /\ Len(packets') = Len(packets) /\ Len(log') = Len(log)
         /\ \A j \in 1 .. Len(packets) :
              /\ packets'[j].nr = packets[j].nr /\ packets'[j].size = packets[j].size
              /\ packets'[j].last_send = IF j = i THEN now ELSE packets[j].last_send
         /\ \A k \in 1 .. Len(log) :
              /\ log'[k].nr = log[k].nr /\ log'[k].size = log[k].size
              /\ log'[k].first = log[k].first
              /\ \/ log'[k].latest = log[k].latest
                 \/ log'[k].latest = now /\ log[k].nr = packets[i].nr
<1>0. packets \in Seq(Packets) /\ log \in Seq(Entries) /\ now \in Nat
  BY DEF TypeOK, Entries
<1>1. i \in 1 .. Len(packets)
  BY <1>0
<1> DEFINE q == [packets[i] EXCEPT !.last_send = now]
<1>2. packets' = [packets EXCEPT ![i] = q]
  BY DEF Retransmit, Resend
<1>3. q.nr = packets[i].nr /\ q.size = packets[i].size /\ q.last_send = now
  <2>1. packets[i] \in Packets
    BY <1>0
  <2> QED BY <2>1 DEF Packets
<1> HIDE DEF q
<1>4. /\ Len(packets') = Len(packets)
      /\ \A k \in 1 .. Len(packets) : packets'[k] = IF k = i THEN q ELSE packets[k]
  BY <1>0, <1>1, <1>2
<1>5. ASSUME NEW j \in 1 .. Len(packets)
      PROVE  /\ packets'[j].nr = packets[j].nr /\ packets'[j].size = packets[j].size
             /\ packets'[j].last_send = IF j = i THEN now ELSE packets[j].last_send
  BY <1>3, <1>4
<1>6. log' = [k \in 1 .. Len(log) |->
                 IF log[k].nr = packets[i].nr /\ backend = "present"
                 THEN [log[k] EXCEPT !.latest = now] ELSE log[k]]
  BY <1>0 DEF Retransmit
<1>7. ASSUME NEW k \in 1 .. Len(log)
      PROVE  /\ log'[k].nr = log[k].nr /\ log'[k].size = log[k].size
             /\ log'[k].first = log[k].first
             /\ \/ log'[k].latest = log[k].latest
                \/ log'[k].latest = now /\ log[k].nr = packets[i].nr
  <2>1. log[k] \in Entries
    BY <1>0
  <2> DEFINE f == [log[k] EXCEPT !.latest = now]
  <2>2. f.nr = log[k].nr /\ f.size = log[k].size /\ f.first = log[k].first /\ f.latest = now
    BY <2>1 DEF Entries
  <2>3. log'[k] = IF log[k].nr = packets[i].nr /\ backend = "present" THEN f ELSE log[k]
    BY <1>6
  <2> HIDE DEF f
  <2> QED BY <2>2, <2>3
<1>8. Len(log') = Len(log)
  <2>1. log' \in Seq(Entries)
    BY ResendTypes
  <2>2. DOMAIN log' = 1 .. Len(log)
    BY <1>6
  <2> QED BY <1>0, <2>1, <2>2
<1> QED BY <1>1, <1>4, <1>5, <1>7, <1>8

LEMMA KeptStep ==
  ASSUME Inv, Kept, [Next]_vars
  PROVE  Kept'
<1>1. /\ TypeOK /\ packets \in Seq(Packets) /\ log \in Seq(Entries) /\ control \in Seq(Messages)
      /\ now \in Nat /\ next \in Nat /\ Len(control) \in Nat /\ Len(control) <= next
      /\ Handled \in Nat /\ Queued(control, next) /\ Len(log) \in Nat /\ Len(packets) \in Nat
  <2>1. /\ TypeOK /\ packets \in Seq(Packets) /\ log \in Seq(Entries) /\ control \in Seq(Messages)
        /\ now \in Nat /\ next \in Nat /\ Queued(control, next)
    BY DEF Inv, TypeOK, Entries, Messages
  <2>2. Len(control) \in Nat /\ Len(log) \in Nat /\ Len(packets) \in Nat
    BY <2>1
  <2>3. Len(control) <= next
    BY <2>1 DEF Queued
  <2> QED BY <2>1, <2>2, <2>3 DEF Handled
<1>2. /\ Suffix(packets, log) /\ Recorded(log, Handled) /\ SentBy(packets, now)
      /\ current_byte_count = TotalSize(packets)
      /\ LetGo(log, Len(log) - Len(packets), now)
  BY DEF Kept, BytesCounted
<1>3. History = Whole(packets)
  BY <1>2 DEF History, Whole
\* What remains to be shown of a step.
<1> SUFFICES
      /\ Suffix(packets', log') /\ Recorded(log', Handled') /\ SentBy(packets', now')
      /\ current_byte_count' = TotalSize(packets')
      /\ LetGo(log', Len(log') - Len(packets'), now')
  BY DEF Kept, BytesCounted, Suffix, Recorded, SentBy, LetGo, MayGo, Handled, TotalSize
<1>4. CASE /\ UNCHANGED <<packets, current_byte_count, log, now>> /\ Handled' = Handled
  BY <1>2, <1>4
<1>5. CASE Send
  BY <1>1, <1>4, <1>5, SendOrdered DEF Send, history
<1>6. CASE \/ Drop \/ PollEnds \/ TransportConnected \/ TransportTornDown \/ UNCHANGED vars
           \/ \E q \in Renumbers : Renumber(q)
  BY <1>4, <1>6 DEF Drop, PollEnds, TransportConnected, TransportTornDown, Renumber,
                    vars, handle, history, Handled
<1>7. CASE PollHistory
  <2>1. /\ UNCHANGED <<now, log>> /\ Handled' = Handled
    BY <1>7 DEF PollHistory, handle, Handled
  <2>2. CASE Cleanup(History)
    <3>1. /\ Suffix(packets', log) /\ SentBy(packets', now)
          /\ current_byte_count' = TotalSize(packets')
          /\ LetGo(log, Len(log) - Len(packets'), now)
      BY <1>1, <1>2, <1>3, <2>2, CleanupKeeps
    <3> QED BY <1>2, <2>1, <3>1
  <2>3. CASE UNCHANGED history
    BY <1>4, <2>1, <2>3 DEF history
  <2> QED BY <1>7, <2>2, <2>3 DEF PollHistory
<1>8. ASSUME Recorded(log, Handled), TakeMessage, next' = next
      PROVE  Handled' = Handled + 1 /\ Recorded(log, Handled')
  <2>1. Handled' = Handled + 1
    BY <1>1, <1>8, TailOf DEF TakeMessage, Handled
  <2>2. ASSUME NEW i \in 1 .. Len(log) PROVE log[i].nr < Handled + 1
    <3>1. log[i].nr < Handled /\ log[i].nr \in Nat
      BY <1>1, <1>8, EntryOf DEF Recorded
    <3> QED BY <1>1, <3>1
  <2> QED BY <1>8, <2>1, <2>2 DEF Recorded
<1>9. CASE SendRtpFails \/ SendRtpUnconnected
  <2>1. /\ UNCHANGED <<packets, current_byte_count, log, now>> /\ next' = next /\ TakeMessage
    BY <1>9 DEF SendRtpFails, SendRtpUnconnected, handle, history
  <2>2. Recorded(log, Handled')
    BY <1>2, <1>8, <2>1
  <2> QED BY <1>2, <2>1, <2>2
<1>10. ASSUME NEW size \in Sizes, SendRtp(size)
       PROVE  /\ Suffix(packets', log') /\ Recorded(log', Handled') /\ SentBy(packets', now')
              /\ current_byte_count' = TotalSize(packets')
              /\ LetGo(log', Len(log') - Len(packets'), now')
  <2> DEFINE x == [nr |-> Head(control).nr, sequence |-> Head(control).sequence,
                   size |-> size, last_send |-> now]
             e == [nr |-> Head(control).nr, size |-> size, first |-> now, latest |-> now]
             s == Append(packets, x)
             l == Append(log, e)
  <2>1. /\ control # << >> /\ next' = next /\ now' = now /\ TakeMessage /\ log' = l
        /\ Cleanup([packets |-> s, bytes |-> current_byte_count + size])
    BY <1>10 DEF SendRtp, TakeMessage, Enqueue, handle
  <2>2. /\ Head(control) = control[1] /\ control[1] \in Messages /\ Len(control) \in Nat \ {0}
    BY <1>1, <2>1, TailOf
  <2>3. Head(control).nr = Handled
    BY <1>1, <2>2 DEF Queued, Handled
  <2>4. /\ x \in Packets /\ e \in Entries /\ x.nr = Handled /\ e.nr = Handled
        /\ x.size = size /\ e.size = size /\ x.last_send = now /\ e.first = now /\ e.latest = now
    <3>1. Head(control).nr \in Nat /\ Head(control).sequence \in Ids
      BY <2>2 DEF Messages
    <3> QED BY <1>1, <2>3, <3>1 DEF Packets, Entries
  <2> HIDE DEF x, e
  <2>5. s \in Seq(Packets) /\ l \in Seq(Entries)
    BY <1>1, <2>4
  <2>6. [packets |-> s, bytes |-> current_byte_count + size] = Whole(s)
    BY <1>1, <1>2, <2>4, BytesGrow
  <2>7. /\ Suffix(s, l) /\ Recorded(l, Handled + 1) /\ SentBy(s, now)
        /\ LetGo(l, Len(l) - Len(s), now)
    BY <1>1, <1>2, <2>4, BothGrow
  <2>8. Handled' = Handled + 1
    BY <1>2, <1>8, <2>1
  <2> HIDE DEF s, l
  <2>9. Cleanup(Whole(s))
    BY <2>1, <2>6
  <2>10. /\ Suffix(packets', l) /\ SentBy(packets', now)
         /\ current_byte_count' = TotalSize(packets')
         /\ LetGo(l, Len(l) - Len(packets'), now)
    BY <1>1, <2>5, <2>7, <2>9, CleanupKeeps
  <2> QED BY <2>1, <2>7, <2>8, <2>10
<1>11. ASSUME NEW q \in Ids, ProcessNack(q)
       PROVE  /\ Suffix(packets', log') /\ Recorded(log', Handled') /\ SentBy(packets', now')
              /\ current_byte_count' = TotalSize(packets')
              /\ LetGo(log', Len(log') - Len(packets'), now')
  <2>1. PICK i \in DOMAIN packets : Retransmit(i)
    BY <1>11 DEF ProcessNack, Found
  <2>2. now' = now /\ Handled' = Handled /\ current_byte_count' = current_byte_count
    BY <1>11, <2>1 DEF ProcessNack, Retransmit, handle, Handled
  <2>3. /\ i \in 1 .. Len(packets) /\ Len(packets') = Len(packets) /\ Len(log') = Len(log)
        /\ \A j \in 1 .. Len(packets) :
              /\ packets'[j].nr = packets[j].nr /\ packets'[j].size = packets[j].size
              /\ packets'[j].last_send = IF j = i THEN now ELSE packets[j].last_send
        /\ \A k \in 1 .. Len(log) :
              /\ log'[k].nr = log[k].nr /\ log'[k].size = log[k].size
              /\ log'[k].first = log[k].first
              /\ \/ log'[k].latest = log[k].latest
                 \/ log'[k].latest = now /\ log[k].nr = packets[i].nr
    BY <1>1, <2>1, RetransmitChanges
  <2> DEFINE d == Len(log) - Len(packets)
  <2>4. /\ \A j \in 1 .. Len(packets) :
             /\ packets[j].nr = log[j + d].nr /\ packets[j].size = log[j + d].size
             /\ log[j + d].first <= packets[j].last_send
             /\ log[j + d].latest <= packets[j].last_send
             /\ packets[j].last_send <= now
    BY <1>2, Zenon DEF Suffix, SentBy
  <2>5. d \in Nat /\ d <= Len(log) /\ Len(packets) + d = Len(log)
    BY <1>1, <1>2 DEF Suffix
  <2>6. \A j \in 1 .. Len(packets) : j + d \in 1 .. Len(log)
    BY <1>1, <2>5
  <2> HIDE DEF d
  <2>7. ASSUME NEW j \in 1 .. Len(packets)
        PROVE  /\ packets'[j].nr = log'[j + d].nr /\ packets'[j].size = log'[j + d].size
               /\ log'[j + d].first <= packets'[j].last_send
               /\ log'[j + d].latest <= packets'[j].last_send
    <3>1. /\ log[j + d].first \in Nat /\ log[j + d].latest \in Nat /\ packets[j].last_send \in Nat
          /\ packets[j].nr \in Nat /\ packets[i].nr \in Nat
      BY <1>1, <2>3, <2>6, EntryOf, PacketOf
    <3>2. CASE j = i
      <4>1. packets'[j].last_send = now
        BY <2>3, <3>2
      <4>2. log[j + d].first <= now /\ log[j + d].latest <= now
        BY <1>1, <2>4, <3>1
      <4>3. /\ log'[j + d].nr = log[j + d].nr /\ log'[j + d].size = log[j + d].size
            /\ log'[j + d].first = log[j + d].first
            /\ log'[j + d].latest = log[j + d].latest \/ log'[j + d].latest = now
        BY <2>3, <2>6
      <4>4. log'[j + d].latest <= now
        BY <1>1, <4>2, <4>3
      <4> QED BY <2>3, <2>4, <4>1, <4>2, <4>3, <4>4
    <3>3. CASE j # i
      <4>1. log[j + d].nr # packets[i].nr
        <5>1. /\ j + d \in 1 .. Len(log) /\ i + d \in 1 .. Len(log)
              /\ j + d < i + d \/ i + d < j + d
          BY <1>1, <2>3, <2>5, <2>6, <3>3
        <5>2. log[j + d].nr < log[i + d].nr \/ log[i + d].nr < log[j + d].nr
          BY <1>2, <5>1 DEF Recorded
        <5> QED BY <2>3, <2>4, <3>1, <5>2
      <4> QED BY <2>3, <2>4, <2>6, <3>3, <4>1
    <3> QED BY <3>2, <3>3
  <2>8. Suffix(packets', log')
    <3>1. Len(log') - Len(packets') = d /\ Len(packets') <= Len(log')
      BY <1>1, <2>3, <2>5 DEF d
    <3> QED BY <2>3, <2>7, <3>1 DEF Suffix
  <2>9. Recorded(log', Handled')
    BY <1>2, <2>2, <2>3 DEF Recorded
  <2>10. SentBy(packets', now')
    <3>1. \A j \in 1 .. Len(packets) : packets'[j].last_send <= now
      BY <1>1, <2>3, <2>4
    <3> QED BY <2>2, <2>3, <3>1 DEF SentBy
  <2>11. TotalSize(packets') = TotalSize(packets)
    BY <1>1, <2>3, PacketsSized, SameSizes
  <2>12. ASSUME NEW k \in 1 .. d PROVE MayGo(log', k, now)
    <3>1. k \in 1 .. Len(log) /\ k \in Nat /\ MayGo(log, k, now)
      BY <1>1, <1>2, <2>5 DEF LetGo, d
    <3>2. TotalSize(SubSeq(log', k, Len(log'))) = TotalSize(SubSeq(log, k, Len(log)))
      <4> DEFINE a == SubSeq(log, k, Len(log))
                 b == SubSeq(log', k, Len(log'))
      <4>1. /\ Sized(a) /\ Len(a) = Len(log) - k + 1
            /\ \A n \in 1 .. Len(log) - k + 1 : a[n] = log[n + k - 1]
        BY <1>1, <3>1, LogSized
      <4>2. log' \in Seq(Entries) /\ k \in 1 .. Len(log')
        BY <1>1, <2>1, <2>3, <3>1, ResendTypes
      <4>3. /\ Len(b) = Len(log) - k + 1
            /\ \A n \in 1 .. Len(log) - k + 1 : b[n] = log'[n + k - 1]
        BY <2>3, <4>2, LogSized
      <4> HIDE DEF a, b
      <4>4. ASSUME NEW n \in 1 .. Len(a) PROVE b[n].size = a[n].size
        <5>1. n \in 1 .. Len(log) - k + 1
          BY <4>1
        <5>2. n + k - 1 \in 1 .. Len(log)
          BY <1>1, <3>1, <5>1
        <5> QED BY <2>3, <4>1, <4>3, <5>1, <5>2
      <4> QED BY <4>1, <4>3, <4>4, SameSizes DEF a, b
    <3>3. log'[k].first = log[k].first /\ Len(log') = Len(log)
      BY <2>3, <3>1
    <3> QED BY <3>1, <3>2, <3>3 DEF MayGo
  <2>13. LetGo(log', Len(log') - Len(packets'), now')
    <3>1. Len(log') - Len(packets') = d
      BY <2>3 DEF d
    <3> QED BY <2>2, <2>12, <3>1 DEF LetGo
  <2> QED BY <1>2, <2>2, <2>8, <2>9, <2>10, <2>11, <2>13
<1>12. CASE Tick
  <2>1. /\ UNCHANGED <<packets, current_byte_count, log>> /\ Handled' = Handled
        /\ now' = now + 1
    BY <1>12 DEF Tick, handle, history, Handled
  <2>2. SentBy(packets, now + 1)
    <3> SUFFICES ASSUME NEW i \in 1 .. Len(packets) PROVE packets[i].last_send <= now + 1
      BY DEF SentBy
    <3>1. packets[i].last_send <= now /\ packets[i].last_send \in Nat
      BY <1>1, <1>2, PacketOf DEF SentBy
    <3> QED BY <1>1, <3>1
  <2>3. LetGo(log, Len(log) - Len(packets), now + 1)
    <3> SUFFICES ASSUME NEW i \in 1 .. Len(log) - Len(packets) PROVE MayGo(log, i, now + 1)
      BY DEF LetGo
    <3>1. i \in 1 .. Len(log)
      BY <1>1
    <3>2. MayGo(log, i, now) /\ log[i].first \in Nat
      BY <1>1, <1>2, <3>1, EntryOf DEF LetGo
    <3>3. now - log[i].first >= MaxPacketAge => (now + 1) - log[i].first >= MaxPacketAge
      BY <1>1, <3>2, SenderAssumption
    <3> QED BY <3>2, <3>3 DEF MayGo
  <2> QED BY <1>2, <2>1, <2>2, <2>3
<1> QED BY <1>5, <1>6, <1>7, <1>9, <1>10, <1>11, <1>12 DEF Next, Application, Poll, Environment

LEMMA InitKept == Init => Kept
<1> SUFFICES ASSUME Init PROVE Kept
  OBVIOUS
<1>1. packets = << >> /\ log = << >> /\ current_byte_count = 0 /\ Len(packets) = 0 /\ Len(log) = 0
  BY DEF Init
<1>2. TotalSize(packets) = 0
  <2> DEFINE g == [k \in 0 .. 0 |-> 0]
  <2>1. Sized(packets) /\ \A k \in 0 .. Len(packets) : g[k] \in Int
    BY <1>1 DEF Sized
  <2>2. \A k \in 1 .. Len(packets) : g[k] = g[k - 1] + packets[k].size
    BY <1>1
  <2>3. g[0] = 0
    OBVIOUS
  <2> HIDE DEF g
  <2>4. TotalSize(packets) = g[Len(packets)] - g[0]
    BY <2>1, <2>2, SumIs
  <2> QED BY <1>1, <2>3, <2>4
<1> QED BY <1>1, <1>2 DEF Kept, Suffix, Recorded, SentBy, BytesCounted, LetGo

\* A packet that is not in the history any more is among those that may go.
LEMMA KeptRetains ==
  ASSUME Inv, Kept
  PROVE  Retained
<1>1. packets \in Seq(Packets) /\ log \in Seq(Entries)
  BY DEF Inv, TypeOK, Entries
<1>2. Len(packets) \in Nat /\ Len(log) \in Nat /\ Len(packets) <= Len(log)
  BY <1>1 DEF Kept, Suffix
<1> SUFFICES ASSUME NEW i \in 1 .. Len(log)
             PROVE  \/ \E j \in DOMAIN packets : packets[j].nr = log[i].nr
                    \/ MayGo(log, i, now)
  BY <1>1 DEF Retained, MayGo
<1>3. CASE i \in 1 .. Len(log) - Len(packets)
  BY <1>3 DEF Kept, LetGo
<1>4. CASE i \notin 1 .. Len(log) - Len(packets)
  <2> DEFINE j == i - (Len(log) - Len(packets))
  <2>1. j \in 1 .. Len(packets) /\ j + (Len(log) - Len(packets)) = i
    BY <1>2, <1>4
  <2> HIDE DEF j
  <2>2. packets[j].nr = log[j + (Len(log) - Len(packets))].nr
    BY <2>1 DEF Kept, Suffix
  <2>3. j \in DOMAIN packets
    BY <1>1, <2>1
  <2> QED BY <2>1, <2>2, <2>3
<1> QED BY <1>3, <1>4

\* A step retransmits what has not been sent for min_resend_interval.
LEMMA PacedStep ==
  ASSUME Inv, Kept, [Next]_vars, NEW k \in DOMAIN log, log'[k].latest # log[k].latest
  PROVE  log'[k].latest - log[k].latest > MinResendInterval
<1>1. TypeOK /\ packets \in Seq(Packets) /\ log \in Seq(Entries) /\ now \in Nat
  BY DEF Inv, TypeOK, Entries
<1>2. k \in 1 .. Len(log)
  BY <1>1
<1>3. log' # log
  OBVIOUS
<1>4. ASSUME NEW size \in Sizes, SendRtp(size) PROVE FALSE
  <2>1. log' = Append(log, [nr |-> Head(control).nr, size |-> size, first |-> now, latest |-> now])
    BY <1>4 DEF SendRtp, Enqueue
  <2>2. log'[k] = log[k]
    BY <1>1, <1>2, <2>1
  <2> QED BY <2>2
<1>5. \E q \in Ids : ProcessNack(q)
  BY <1>3, <1>4 DEF Next, Application, Poll, Environment, Send, Renumber, Drop, PollHistory,
     SendRtpFails, SendRtpUnconnected, PollEnds, TransportConnected, TransportTornDown, Tick, vars
<1>6. PICK i \in DOMAIN packets : Retransmit(i)
  BY <1>5 DEF ProcessNack, Found
<1>7. i \in 1 .. Len(packets) /\ log'[k].latest = now /\ log[k].nr = packets[i].nr
  BY <1>1, <1>2, <1>6, RetransmitChanges
<1>8. packets[i].last_send + MinResendInterval < now
  BY <1>6 DEF Retransmit
<1>9. log[k].latest <= packets[i].last_send
  <2> DEFINE m == i + (Len(log) - Len(packets))
  <2>1. m \in 1 .. Len(log)
    BY <1>1, <1>7 DEF Kept, Suffix
  <2>2. packets[i].nr = log[m].nr /\ log[m].latest <= packets[i].last_send
    BY <1>7 DEF Kept, Suffix
  <2> HIDE DEF m
  <2>3. log[k].nr \in Nat /\ log[m].nr \in Nat
    BY <1>1, <1>2, <2>1, EntryOf
  <2>4. ~ (k < m) /\ ~ (m < k)
    BY <1>2, <1>7, <2>1, <2>2, <2>3 DEF Kept, Recorded
  <2>5. k = m
    BY <1>2, <2>1, <2>4
  <2> QED BY <2>2, <2>5
<1>10. log[k].latest \in Nat /\ packets[i].last_send \in Nat
  BY <1>1, <1>2, <1>7, EntryOf, PacketOf
<1> QED BY <1>1, <1>7, <1>8, <1>9, <1>10, SenderAssumption
-----------------------------------------------------------------------------
\* Type correctness of the sender and its history, for every size of them.
THEOREM TypeCorrect == Spec => []TypeOK
<1>1. Init => Inv
  BY InitInv
<1>2. Inv /\ [Next]_vars => Inv'
  BY InvStep
<1>3. Inv => TypeOK
  BY DEF Inv
<1> QED BY <1>1, <1>2, <1>3, PTL DEF Spec

\* A sequence number names at most one packet of the history, so that a NACK is
\* never answered with a stale packet: as long as the application leaves the
\* numbering to the sender, and the packets saved together with those srtp
\* refused are fewer than the numbers there are.
THEOREM OneNumberOnePacket == Spec => []Unambiguous
<1>1. Init => Inv
  BY InitInv
<1>2. Inv /\ [Next]_vars => Inv'
  BY InvStep
<1>3. Inv => Unambiguous
  <2> SUFFICES ASSUME Inv, ~ renumbered, LapWide,
                      NEW i \in DOMAIN packets, NEW j \in DOMAIN packets,
                      packets[i].sequence = packets[j].sequence
               PROVE  i = j
    BY DEF Unambiguous, LapWide
  <2>1. packets \in Seq(Packets)
    BY DEF Inv, TypeOK
  <2>2. i \in 1 .. Len(packets) /\ j \in 1 .. Len(packets) /\ i \in Int /\ j \in Int
    BY <2>1
  <2>3. ~ (i < j) /\ ~ (j < i)
    BY <2>2, NumbersDiffer
  <2> QED BY <2>2, <2>3
<1> QED BY <1>1, <1>2, <1>3, PTL DEF Spec

\* The counter the clean up decides by is the size of what is saved, and whatever
\* was sent can be retransmitted unless it is too old, or too many packets or bytes
\* were sent since: for every size of the history, every limit and any order of
\* sends, clean ups and retransmissions.
THEOREM HistoryExact == Spec => []HistoryKeeps
<1>1. Init => Inv /\ Kept
  BY InitInv, InitKept
<1>2. (Inv /\ Kept) /\ [Next]_vars => (Inv /\ Kept)'
  BY InvStep, KeptStep
<1>3. Inv /\ Kept => HistoryKeeps
  BY KeptRetains DEF HistoryKeeps, Kept
<1> QED BY <1>1, <1>2, <1>3, PTL DEF Spec

\* No packet is put on the wire again before min_resend_interval has passed,
\* whatever NACKs arrive and while the backend comes and goes.
THEOREM ResendsPaced == Spec => RetransmitPaced
<1>1. Init => Inv /\ Kept
  BY InitInv, InitKept
<1>2. (Inv /\ Kept) /\ [Next]_vars => (Inv /\ Kept)'
  BY InvStep, KeptStep
<1>3. (Inv /\ Kept) /\ [Next]_vars =>
        [\A i \in DOMAIN log :
           log'[i].latest # log[i].latest => log'[i].latest - log[i].latest > MinResendInterval]_vars
  BY PacedStep
<1> QED BY <1>1, <1>2, <1>3, PTL DEF Spec, RetransmitPaced
=============================================================================
