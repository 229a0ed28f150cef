------------------------- MODULE MediaReceiver_proofs -------------------------
(***************************************************************************)
(* Theorems about MediaReceiver, for every history length and every bound. *)
(***************************************************************************)
EXTENDS MediaReceiver, TLAPS, NaturalsInduction, WellFoundedInduction

USE DEF clock, internal, receiver, counts

-----------------------------------------------------------------------------
(***************************************************************************)
(* What Waiting reads from the channel.  Induction over its length is an   *)
(* argument by the least one there is a counterexample at.                 *)
(***************************************************************************)
Before == {p \in Nat \X Nat : p[1] < p[2]}

LEMMA LeastMember ==
  ASSUME NEW T \in SUBSET Nat, T # {}
  PROVE  \E n \in T : \A m \in T : n <= m
<1>1. IsWellFoundedOn(Before, Nat)
  BY NatLessThanWellFounded DEF OpToRel, Before
<1>2. PICK n \in T : \A m \in T : ~ (<<m, n>> \in Before)
  BY <1>1, WFMin, Zenon
<1>3. ASSUME NEW m \in T PROVE n <= m
  <2>1. m \in Nat /\ n \in Nat
    OBVIOUS
  <2>2. <<m, n>> \in Nat \X Nat /\ <<m, n>>[1] = m /\ <<m, n>>[2] = n
    BY <2>1
  <2>3. ~ (m < n)
    BY <1>2, <2>2 DEF Before
  <2> QED BY <2>1, <2>3
<1> QED BY <1>2, <1>3

Reports == [kind : {"RtcpSenderReport", "RtcpByeReceived", "FlushControl"}]
Items   == [kind : {"RtpPacket"}, number : Nat, payload : Payloads] \cup Reports

IsRtp(item) == item.kind = "RtpPacket"

\* The numbers in a, and behind them those of the packets of v.
Numbered(a, v) ==
  LET queued[n \in 0 .. Len(v)] ==
        IF n = 0 THEN a
        ELSE IF v[n].kind = "RtpPacket" THEN Append(queued[n - 1], v[n].number)
             ELSE queued[n - 1]
  IN  queued[Len(v)]

Numbering(f, a, v, n) ==
  f = [k \in 0 .. n |->
         IF k = 0 THEN a
         ELSE IF v[k].kind = "RtpPacket" THEN Append(f[k - 1], v[k].number) ELSE f[k - 1]]

\* The same as facts about its values, all of them sequences of numbers.
Follows(f, a, v) ==
  /\ f[0] = a
  /\ \A k \in 1 .. Len(v) :
       f[k] = IF IsRtp(v[k]) THEN Append(f[k - 1], v[k].number) ELSE f[k - 1]
  /\ \A k \in 0 .. Len(v) : f[k] \in Seq(Nat)

LEMMA NumberingExtends ==
  ASSUME NEW a, NEW v, NEW n \in Nat, NEW f, Numbering(f, a, v, n)
  PROVE  \E g : Numbering(g, a, v, n + 1)
<1> DEFINE last == IF v[n + 1].kind = "RtpPacket" THEN Append(f[n], v[n + 1].number) ELSE f[n]
           g == [k \in 0 .. n + 1 |-> IF k = n + 1 THEN last ELSE f[k]]
<1>1. \A k \in 0 .. n :
        f[k] = IF k = 0 THEN a
               ELSE IF v[k].kind = "RtpPacket" THEN Append(f[k - 1], v[k].number) ELSE f[k - 1]
  BY DEF Numbering
<1>2. ASSUME NEW k \in 0 .. n + 1
      PROVE  g[k] = IF k = 0 THEN a
                    ELSE IF v[k].kind = "RtpPacket" THEN Append(g[k - 1], v[k].number)
                         ELSE g[k - 1]
  <2>1. CASE k = n + 1
    <3>1. k # 0 /\ k - 1 = n /\ n \in 0 .. n + 1 /\ n # n + 1
      BY <2>1
    <3>2. g[n] = f[n] /\ g[k] = last
      BY <2>1, <3>1
    <3> QED BY <2>1, <3>1, <3>2
  <2>2. CASE k # n + 1
    <3>1. k \in 0 .. n /\ g[k] = f[k] /\ (k # 0 => g[k - 1] = f[k - 1])
      BY <2>2
    <3> QED BY <1>1, <3>1
  <2> QED BY <2>1, <2>2
<1>3. g = [k \in 0 .. n + 1 |-> g[k]]
  OBVIOUS
<1> HIDE DEF g
<1>4. Numbering(g, a, v, n + 1)
  BY <1>2, <1>3 DEF Numbering
<1> QED BY <1>4

LEMMA NumberingExists ==
  ASSUME NEW a, NEW v, NEW n \in Nat
  PROVE  \E f : Numbering(f, a, v, n)
<1> DEFINE T == {k \in Nat : ~ \E f : Numbering(f, a, v, k)}
<1>1. T = {}
  <2> SUFFICES ASSUME T # {} PROVE FALSE
    OBVIOUS
  <2>1. PICK k \in T : \A m \in T : k <= m
    <3>1. T \in SUBSET Nat
      OBVIOUS
    <3> HIDE DEF T
    <3> QED BY <3>1, LeastMember
  <2>2. k # 0
    <3>1. Numbering([j \in 0 .. 0 |-> a], a, v, 0)
      BY DEF Numbering
    <3> QED BY <3>1
  <2>3. k - 1 \in Nat /\ k - 1 \notin T
    BY <2>1, <2>2
  <2>4. PICK f : Numbering(f, a, v, k - 1)
    BY <2>3
  <2>5. \E g : Numbering(g, a, v, (k - 1) + 1)
    BY <2>3, <2>4, NumberingExtends
  <2>6. (k - 1) + 1 = k
    OBVIOUS
  <2> QED BY <2>5, <2>6
<1> QED BY <1>1

LEMMA ItemNumber ==
  ASSUME NEW v \in Seq(Items), NEW k \in 1 .. Len(v), IsRtp(v[k])
  PROVE  v[k].number \in Nat
<1>1. v[k] \in Items
  OBVIOUS
<1> QED BY <1>1 DEF Items, Reports, IsRtp

LEMMA NumberedFollows ==
  ASSUME NEW a \in Seq(Nat), NEW v \in Seq(Items)
  PROVE  \E f : Follows(f, a, v) /\ Numbered(a, v) = f[Len(v)]
<1> DEFINE f == CHOOSE f : Numbering(f, a, v, Len(v))
<1>1. Numbered(a, v) = f[Len(v)]
  BY DEF Numbered, Numbering
<1>2. Numbering(f, a, v, Len(v)) /\ Len(v) \in Nat
  <2>1. Len(v) \in Nat
    OBVIOUS
  <2>2. \E g : Numbering(g, a, v, Len(v))
    BY <2>1, NumberingExists
  <2>3. Numbering(f, a, v, Len(v))
    BY <2>2, Zenon
  <2> QED BY <2>1, <2>3
<1> HIDE DEF f
<1>3. /\ f[0] = a
      /\ \A k \in 1 .. Len(v) :
           f[k] = IF IsRtp(v[k]) THEN Append(f[k - 1], v[k].number) ELSE f[k - 1]
  <2>1. \A k \in 0 .. Len(v) :
          f[k] = IF k = 0 THEN a
                 ELSE IF v[k].kind = "RtpPacket" THEN Append(f[k - 1], v[k].number) ELSE f[k - 1]
    BY <1>2 DEF Numbering
  <2>2. 0 \in 0 .. Len(v) /\ \A k \in 1 .. Len(v) : k \in 0 .. Len(v) /\ k # 0
    BY <1>2
  <2> QED BY <2>1, <2>2 DEF IsRtp
<1> DEFINE T == {k \in Nat : k <= Len(v) /\ f[k] \notin Seq(Nat)}
<1>4. T = {}
  <2> SUFFICES ASSUME T # {} PROVE FALSE
    OBVIOUS
  <2>1. PICK k \in T : \A m \in T : k <= m
    <3>1. T \in SUBSET Nat
      OBVIOUS
    <3> HIDE DEF T
    <3> QED BY <3>1, LeastMember
  <2>2. k # 0
    BY <1>3
  <2>3. k \in 1 .. Len(v) /\ k - 1 \in Nat /\ k - 1 \notin T /\ k - 1 <= Len(v)
    BY <1>2, <2>1, <2>2
  <2>4. f[k - 1] \in Seq(Nat)
    BY <2>3
  <2>5. f[k] \in Seq(Nat)
    <3>1. CASE IsRtp(v[k])
      <4>1. Append(f[k - 1], v[k].number) \in Seq(Nat)
        BY <2>3, <2>4, <3>1, ItemNumber
      <4> HIDE DEF T
      <4> QED BY <1>3, <2>3, <3>1, <4>1
    <3>2. CASE ~ IsRtp(v[k])
      <4> HIDE DEF T
      <4> QED BY <1>3, <2>3, <2>4, <3>2
    <3> QED BY <3>1, <3>2
  <2> QED BY <2>1, <2>5
<1>5. \A k \in 0 .. Len(v) : f[k] \in Seq(Nat)
  BY <1>2, <1>4
<1> HIDE DEF T
<1>6. Follows(f, a, v)
  BY <1>3, <1>5 DEF Follows
<1> QED BY <1>1, <1>6

\* There is one way to read the channel.
LEMMA NumberedIs ==
  ASSUME NEW a \in Seq(Nat), NEW v \in Seq(Items), NEW g, Follows(g, a, v)
  PROVE  Numbered(a, v) = g[Len(v)] /\ Numbered(a, v) \in Seq(Nat)
<1>1. PICK f : Follows(f, a, v) /\ Numbered(a, v) = f[Len(v)]
  BY NumberedFollows
<1> DEFINE T == {k \in Nat : k <= Len(v) /\ f[k] # g[k]}
<1>2. Len(v) \in Nat
  OBVIOUS
<1>3. T = {}
  <2> SUFFICES ASSUME T # {} PROVE FALSE
    OBVIOUS
  <2>1. PICK k \in T : \A m \in T : k <= m
    <3>1. T \in SUBSET Nat
      OBVIOUS
    <3> HIDE DEF T
    <3> QED BY <3>1, LeastMember
  <2>2. k # 0
    BY <1>1, <2>1 DEF Follows
  <2>3. k \in 1 .. Len(v) /\ k - 1 \in Nat /\ k - 1 \notin T /\ k - 1 <= Len(v)
    BY <1>2, <2>1, <2>2
  <2>4. f[k - 1] = g[k - 1]
    BY <2>3
  <2>5. f[k] = g[k]
    BY <1>1, <2>3, <2>4 DEF Follows
  <2> QED BY <2>1, <2>5
<1>4. f[Len(v)] = g[Len(v)] /\ Len(v) \in 0 .. Len(v)
  BY <1>2, <1>3
<1> QED BY <1>1, <1>4 DEF Follows

LEMMA AppendOf ==
  ASSUME NEW S, NEW a \in Seq(S), NEW e \in S
  PROVE  /\ Append(a, e) \in Seq(S) /\ Len(Append(a, e)) = Len(a) + 1 /\ Len(a) \in Nat
         /\ \A i \in 1 .. Len(a) : Append(a, e)[i] = a[i]
         /\ Append(a, e)[Len(a) + 1] = e
OBVIOUS

LEMMA TailOf ==
  ASSUME NEW S, NEW a \in Seq(S), a # <<>>
  PROVE  /\ Tail(a) \in Seq(S) /\ Len(Tail(a)) = Len(a) - 1 /\ Len(a) \in Nat /\ Len(a) >= 1
         /\ \A i \in 1 .. Len(a) - 1 : Tail(a)[i] = a[i + 1]
         /\ Head(a) = a[1] /\ Head(a) \in S
OBVIOUS

LEMMA NumberedOfNone ==
  ASSUME NEW a \in Seq(Nat)
  PROVE  Numbered(a, <<>>) = a
<1>1. <<>> \in Seq(Items) /\ Len(<<>>) = 0
  OBVIOUS
<1>2. PICK f : Follows(f, a, <<>>) /\ Numbered(a, <<>>) = f[0]
  BY <1>1, NumberedFollows
<1> QED BY <1>2 DEF Follows

\* An item is sent.
LEMMA NumberedAppend ==
  ASSUME NEW a \in Seq(Nat), NEW v \in Seq(Items), NEW e \in Items
  PROVE  /\ Numbered(a, Append(v, e)) =
              IF IsRtp(e) THEN Append(Numbered(a, v), e.number) ELSE Numbered(a, v)
         /\ Numbered(a, v) \in Seq(Nat)
<1> DEFINE w == Append(v, e)
           n == Len(v)
<1>1. PICK f : Follows(f, a, v) /\ Numbered(a, v) = f[n]
  BY NumberedFollows
<1>2. /\ w \in Seq(Items) /\ Len(w) = n + 1 /\ n \in Nat
      /\ \A i \in 1 .. n : w[i] = v[i]
      /\ w[n + 1] = e
  BY AppendOf
<1> HIDE DEF w, n
<1> DEFINE last == IF IsRtp(e) THEN Append(f[n], e.number) ELSE f[n]
           g == [k \in 0 .. n + 1 |-> IF k = n + 1 THEN last ELSE f[k]]
<1>3. \A k \in 0 .. n : g[k] = f[k]
  BY <1>2
<1>4. g[n + 1] = last
  BY <1>2
<1> HIDE DEF g
<1>5. f[n] \in Seq(Nat) /\ \A k \in 0 .. n : f[k] \in Seq(Nat)
  BY <1>1, <1>2 DEF Follows, n
<1>6. last \in Seq(Nat)
  <2>1. IsRtp(e) => e.number \in Nat
    BY DEF Items, Reports, IsRtp
  <2> QED BY <1>5, <2>1
<1>7. ASSUME NEW k \in 1 .. n + 1
      PROVE  g[k] = IF IsRtp(w[k]) THEN Append(g[k - 1], w[k].number) ELSE g[k - 1]
  <2>1. CASE k = n + 1
    <3>1. k - 1 = n /\ n \in 0 .. n
      BY <1>2, <2>1
    <3> QED BY <1>2, <1>3, <1>4, <2>1, <3>1
  <2>2. CASE k # n + 1
    <3>1. k \in 1 .. n /\ k \in 0 .. n /\ k - 1 \in 0 .. n
      BY <1>2, <2>2
    <3> QED BY <1>1, <1>2, <1>3, <3>1 DEF Follows, n
  <2> QED BY <2>1, <2>2
<1>8. ASSUME NEW k \in 0 .. n + 1 PROVE g[k] \in Seq(Nat)
  <2>1. k = n + 1 \/ k \in 0 .. n
    BY <1>2
  <2> QED BY <1>3, <1>4, <1>5, <1>6, <2>1
<1> HIDE DEF last
<1>9. g[0] = a
  BY <1>1, <1>2, <1>3 DEF Follows
<1>10. Follows(g, a, w)
  BY <1>2, <1>7, <1>8, <1>9 DEF Follows
<1>11. Numbered(a, w) = g[n + 1]
  BY <1>2, <1>10, NumberedIs
<1> QED BY <1>1, <1>4, <1>5, <1>11 DEF w, last

\* An item is taken.
LEMMA NumberedTail ==
  ASSUME NEW a \in Seq(Nat), NEW v \in Seq(Items), v # <<>>
  PROVE  LET b == IF IsRtp(Head(v)) THEN Append(a, Head(v).number) ELSE a
         IN  Numbered(a, v) = Numbered(b, Tail(v)) /\ b \in Seq(Nat)
<1> DEFINE w == Tail(v)
           n == Len(v)
           b == IF IsRtp(Head(v)) THEN Append(a, Head(v).number) ELSE a
<1>1. PICK f : Follows(f, a, v) /\ Numbered(a, v) = f[n]
  BY NumberedFollows
<1>2. /\ w \in Seq(Items) /\ Len(w) = n - 1 /\ n \in Nat /\ n >= 1
      /\ \A i \in 1 .. n - 1 : w[i] = v[i + 1]
      /\ Head(v) = v[1]
  BY TailOf
<1>3. /\ f[0] = a
      /\ \A k \in 1 .. n :
           f[k] = IF IsRtp(v[k]) THEN Append(f[k - 1], v[k].number) ELSE f[k - 1]
      /\ \A k \in 0 .. n : f[k] \in Seq(Nat)
  BY <1>1 DEF Follows
<1> HIDE DEF w, n
<1>4. f[1] = b /\ b \in Seq(Nat)
  <2>1. 1 \in 1 .. n /\ 1 \in 0 .. n /\ 1 - 1 = 0
    BY <1>2
  <2>2. f[1] = IF IsRtp(v[1]) THEN Append(f[1 - 1], v[1].number) ELSE f[1 - 1]
    BY <1>3, <2>1
  <2>3. f[1] \in Seq(Nat)
    BY <1>3, <2>1
  <2> QED BY <1>2, <1>3, <2>1, <2>2, <2>3
<1> HIDE DEF b
<1> DEFINE h == [k \in 0 .. n - 1 |-> f[k + 1]]
<1>5. \A k \in 0 .. n - 1 : h[k] = f[k + 1]
  OBVIOUS
<1> HIDE DEF h
<1>6. h[0] = b
  BY <1>2, <1>4, <1>5
<1>7. ASSUME NEW k \in 1 .. n - 1
      PROVE  h[k] = IF IsRtp(w[k]) THEN Append(h[k - 1], w[k].number) ELSE h[k - 1]
  <2>1. /\ k \in 0 .. n - 1 /\ k - 1 \in 0 .. n - 1 /\ k + 1 \in 1 .. n
        /\ (k + 1) - 1 = k /\ (k - 1) + 1 = k
    BY <1>2
  <2>2. h[k] = f[k + 1] /\ h[k - 1] = f[k] /\ w[k] = v[k + 1]
    BY <1>2, <1>5, <2>1
  <2>3. f[k + 1] = IF IsRtp(v[k + 1]) THEN Append(f[(k + 1) - 1], v[k + 1].number)
                   ELSE f[(k + 1) - 1]
    BY <1>3, <2>1
  <2> QED BY <2>1, <2>2, <2>3
<1>8. ASSUME NEW k \in 0 .. n - 1 PROVE h[k] \in Seq(Nat)
  <2>1. k + 1 \in 0 .. n
    BY <1>2
  <2> QED BY <1>3, <1>5, <2>1
<1>9. Follows(h, b, w)
  BY <1>2, <1>6, <1>7, <1>8 DEF Follows
<1>10. Numbered(b, w) = h[n - 1]
  <2>1. Numbered(b, w) = h[Len(w)]
    BY <1>2, <1>4, <1>9, NumberedIs
  <2> QED BY <1>2, <2>1
<1>11. h[n - 1] = f[n]
  <2>1. n - 1 \in 0 .. n - 1 /\ (n - 1) + 1 = n
    BY <1>2
  <2> QED BY <1>5, <2>1
<1> QED BY <1>1, <1>4, <1>10, <1>11 DEF w, b

LEMMA AppendBehind ==
  ASSUME NEW n \in Nat, NEW a \in Seq(Nat), NEW e \in Nat
  PROVE  <<n>> \o Append(a, e) = Append(<<n>> \o a, e) /\ <<n>> \o a \in Seq(Nat)
OBVIOUS

\* The number in front of the channel comes first.
LEMMA NumberedBehind ==
  ASSUME NEW n \in Nat, NEW v \in Seq(Items)
  PROVE  /\ Numbered(<<n>>, v) = <<n>> \o Numbered(<<>>, v)
         /\ Numbered(<<>>, v) \in Seq(Nat)
<1>1. <<n>> \in Seq(Nat) /\ <<>> \in Seq(Nat) /\ <<n>> \o <<>> = <<n>> /\ Len(v) \in Nat
  OBVIOUS
<1>2. PICK f : Follows(f, <<>>, v) /\ Numbered(<<>>, v) = f[Len(v)]
  BY <1>1, NumberedFollows
<1>3. /\ f[0] = <<>>
      /\ \A k \in 1 .. Len(v) :
           f[k] = IF IsRtp(v[k]) THEN Append(f[k - 1], v[k].number) ELSE f[k - 1]
      /\ \A k \in 0 .. Len(v) : f[k] \in Seq(Nat)
  BY <1>2 DEF Follows
<1> DEFINE g == [k \in 0 .. Len(v) |-> <<n>> \o f[k]]
<1>4. \A k \in 0 .. Len(v) : g[k] = <<n>> \o f[k]
  OBVIOUS
<1> HIDE DEF g
<1>5. ASSUME NEW k \in 0 .. Len(v) PROVE g[k] \in Seq(Nat)
  <2>1. f[k] \in Seq(Nat) /\ 0 \in Nat
    BY <1>3
  <2>2. <<n>> \o f[k] \in Seq(Nat)
    BY <2>1, AppendBehind
  <2> QED BY <1>4, <2>2
<1>6. ASSUME NEW k \in 1 .. Len(v)
      PROVE  g[k] = IF IsRtp(v[k]) THEN Append(g[k - 1], v[k].number) ELSE g[k - 1]
  <2>1. k \in 0 .. Len(v) /\ k - 1 \in 0 .. Len(v)
    BY <1>1
  <2>2. g[k] = <<n>> \o f[k] /\ g[k - 1] = <<n>> \o f[k - 1] /\ f[k - 1] \in Seq(Nat)
    BY <1>3, <1>4, <2>1
  <2>3. CASE IsRtp(v[k])
    <3>1. f[k] = Append(f[k - 1], v[k].number) /\ v[k].number \in Nat
      BY <1>3, <2>3, ItemNumber
    <3>2. <<n>> \o Append(f[k - 1], v[k].number) = Append(<<n>> \o f[k - 1], v[k].number)
      BY <2>2, <3>1, AppendBehind
    <3> QED BY <2>2, <2>3, <3>1, <3>2
  <2>4. CASE ~ IsRtp(v[k])
    BY <1>3, <2>2, <2>4
  <2> QED BY <2>3, <2>4
<1>7. g[0] = <<n>>
  BY <1>1, <1>3, <1>4
<1>8. Follows(g, <<n>>, v)
  BY <1>5, <1>6, <1>7 DEF Follows
<1>9. Numbered(<<n>>, v) = g[Len(v)]
  BY <1>1, <1>8, NumberedIs
<1>10. g[Len(v)] = <<n>> \o f[Len(v)] /\ f[Len(v)] \in Seq(Nat)
  BY <1>1, <1>3, <1>4
<1> QED BY <1>2, <1>9, <1>10
-----------------------------------------------------------------------------
(* The packets behind number from, up to number to.                        *)

Run(from, to) == [i \in 1 .. (to - from) |-> from + i]

LEMMA RunGrows ==
  ASSUME NEW from \in Nat, NEW to \in Nat, from <= to
  PROVE  Append(Run(from, to), to + 1) = Run(from, to + 1)
<1> DEFINE x == Run(from, to)
           z == Run(from, to + 1)
           n == to - from
           v == Append(x, to + 1)
<1>1. n \in Nat /\ from + (n + 1) = to + 1 /\ (to + 1) - from = n + 1 /\ to + 1 \in Nat
  OBVIOUS
<1>2. /\ x \in Seq(Nat) /\ Len(x) = n /\ \A i \in 1 .. n : x[i] = from + i
  BY <1>1 DEF Run
<1>3. /\ z \in Seq(Nat) /\ Len(z) = n + 1 /\ \A i \in 1 .. n + 1 : z[i] = from + i
  BY <1>1 DEF Run
<1> HIDE DEF x, z, n
<1>4. /\ v \in Seq(Nat) /\ Len(v) = Len(x) + 1
      /\ \A i \in 1 .. Len(x) : v[i] = x[i]
      /\ v[Len(x) + 1] = to + 1
  BY <1>1, <1>2, AppendOf
<1> HIDE DEF v
<1>5. ASSUME NEW i \in 1 .. n + 1 PROVE v[i] = z[i]
  <2>1. i \in 1 .. n \/ i = n + 1
    BY <1>1
  <2> QED BY <1>1, <1>2, <1>3, <1>4, <2>1
<1>6. Len(v) = Len(z) /\ \A i \in 1 .. Len(v) : v[i] = z[i]
  BY <1>2, <1>3, <1>4, <1>5
<1>7. v = z
  BY <1>3, <1>4, <1>6
<1> QED BY <1>7 DEF v, x, z

LEMMA RunDrops ==
  ASSUME NEW from \in Nat, NEW to \in Nat, from <= to,
         NEW p \in Nat, NEW r \in Seq(Nat), <<p>> \o r = Run(from, to)
  PROVE  p = from + 1 /\ from + 1 <= to /\ r = Run(from + 1, to)
<1> DEFINE x == Run(from, to)
           z == Run(from + 1, to)
           y == <<p>> \o r
<1>1. /\ Len(y) = Len(r) + 1 /\ Len(r) \in Nat
      /\ y[1] = p /\ \A i \in 1 .. Len(r) : y[i + 1] = r[i]
  OBVIOUS
<1>2. Len(x) = to - from /\ \A i \in 1 .. to - from : x[i] = from + i
  BY DEF Run
<1>3. x = y
  OBVIOUS
<1> HIDE DEF x, y
<1>4. Len(r) = to - (from + 1) /\ from + 1 <= to /\ p = from + 1
  <2>1. Len(r) + 1 = to - from
    BY <1>1, <1>2, <1>3
  <2>2. 1 \in 1 .. to - from
    BY <1>1, <2>1
  <2>3. p = from + 1
    BY <1>1, <1>2, <1>3, <2>2
  <2> QED BY <1>1, <2>1, <2>3
<1>5. /\ z \in Seq(Nat) /\ Len(z) = to - (from + 1)
      /\ \A i \in 1 .. to - (from + 1) : z[i] = (from + 1) + i
  <2>1. to - (from + 1) \in Nat
    BY <1>4
  <2> QED BY <2>1 DEF Run
<1> HIDE DEF z
<1>6. ASSUME NEW i \in 1 .. Len(r) PROVE r[i] = z[i]
  <2>1. /\ i + 1 \in 1 .. to - from /\ i \in 1 .. to - (from + 1)
        /\ from + (i + 1) = (from + 1) + i
    BY <1>1, <1>4
  <2> QED BY <1>1, <1>2, <1>3, <1>5, <2>1
<1>7. r = z
  BY <1>4, <1>5, <1>6
<1> QED BY <1>4, <1>7 DEF z
-----------------------------------------------------------------------------
(* ReceiverStats keeps its type.                                           *)

LEMMA Remainder ==
  ASSUME NEW n \in Nat
  PROVE  n % Span \in Slots
BY StatsAssumption DEF Slots

LEMMA StatsTyped ==
  ASSUME NEW stats \in Stats, NEW second \in Nat, NEW payload \in Nat
  PROVE  /\ NewStats \in Stats
         /\ AdvanceHistory(stats, second) \in Stats
         /\ RegisterIncoming(stats, second, payload) \in Stats
         /\ ResetBandwidth(stats) \in Stats
         /\ ResetBandwidth(stats).history = NewStats.history
<1>1. second % Span \in Slots /\ 0 \in Slots
  BY Remainder, StatsAssumption DEF Slots
<1> DEFINE advanced == AdvanceHistory(stats, second)
<1>2. advanced \in Stats
  <2> DEFINE history == [slot \in Slots |->
                 IF slot \in {x \in Slots : Ahead(stats.index, x) \in
                                              1 .. Ahead(stats.index, second % Span)}
                 THEN 0 ELSE stats.history[slot]]
  <2>1. history \in [Slots -> Nat]
    BY DEF Stats
  <2>2. advanced = [index |-> second % Span, history |-> history]
    BY DEF AdvanceHistory
  <2> HIDE DEF history
  <2> QED BY <1>1, <2>1, <2>2 DEF Stats
<1> HIDE DEF advanced
<1>3. RegisterIncoming(stats, second, payload) \in Stats
  <2>1. RegisterIncoming(stats, second, payload)
          = [advanced EXCEPT !.history[advanced.index] = @ + payload]
    BY DEF RegisterIncoming, advanced
  <2> QED BY <1>2, <2>1 DEF Stats
<1>4. NewStats \in Stats
  BY <1>1 DEF NewStats, Stats
<1>5. ResetBandwidth(stats) \in Stats /\ ResetBandwidth(stats).history = NewStats.history
  BY <1>4 DEF ResetBandwidth, Stats
<1> QED BY <1>2, <1>3, <1>4, <1>5 DEF advanced

-----------------------------------------------------------------------------
(***************************************************************************)
(* What bandwidth_minute computes: no more than the fullest second holds.  *)
(***************************************************************************)
Held(stats, n) == stats.history[(stats.index + n) % Span]

Walking(f, stats, n) ==
  f = [k \in 0 .. n |->
         IF k = 0 THEN [count |-> 0, sum |-> 0]
         ELSE LET seen == f[k - 1]
              IN  IF seen.count < MinuteSlots /\ Held(stats, k - 1) > 0
                  THEN [count |-> seen.count + 1, sum |-> seen.sum + Held(stats, k - 1)] ELSE seen]

LEMMA WalkingExtends ==
  ASSUME NEW stats, NEW n \in Nat, NEW f, Walking(f, stats, n)
  PROVE  \E g : Walking(g, stats, n + 1)
<1> DEFINE last == LET seen == f[n]
                   IN  IF seen.count < MinuteSlots /\ Held(stats, n) > 0
                       THEN [count |-> seen.count + 1, sum |-> seen.sum + Held(stats, n)] ELSE seen
           g == [k \in 0 .. n + 1 |-> IF k = n + 1 THEN last ELSE f[k]]
<1>1. \A k \in 0 .. n :
        f[k] = IF k = 0 THEN [count |-> 0, sum |-> 0]
               ELSE LET seen == f[k - 1]
                    IN  IF seen.count < MinuteSlots /\ Held(stats, k - 1) > 0
                        THEN [count |-> seen.count + 1, sum |-> seen.sum + Held(stats, k - 1)]
                        ELSE seen
  BY DEF Walking
<1>2. ASSUME NEW k \in 0 .. n + 1
      PROVE  g[k] = IF k = 0 THEN [count |-> 0, sum |-> 0]
                    ELSE LET seen == g[k - 1]
                         IN  IF seen.count < MinuteSlots /\ Held(stats, k - 1) > 0
                             THEN [count |-> seen.count + 1, sum |-> seen.sum + Held(stats, k - 1)]
                             ELSE seen
  <2>1. CASE k = n + 1
    <3>1. k # 0 /\ k - 1 = n /\ n \in 0 .. n + 1 /\ n # n + 1
      BY <2>1
    <3>2. g[n] = f[n] /\ g[k] = last
      BY <2>1, <3>1
    <3> HIDE DEF g
    <3> QED BY <2>1, <3>1, <3>2
  <2>2. CASE k # n + 1
    <3>1. k \in 0 .. n /\ g[k] = f[k] /\ (k # 0 => g[k - 1] = f[k - 1])
      BY <2>2
    <3> HIDE DEF g
    <3> QED BY <1>1, <3>1
  <2> QED BY <2>1, <2>2
<1>3. g = [k \in 0 .. n + 1 |-> g[k]]
  OBVIOUS
<1> HIDE DEF g
<1>4. Walking(g, stats, n + 1)
  BY <1>2, <1>3 DEF Walking
<1> QED BY <1>4

LEMMA WalkingExists ==
  ASSUME NEW stats, NEW n \in Nat
  PROVE  \E f : Walking(f, stats, n)
<1> DEFINE T == {k \in Nat : ~ \E f : Walking(f, stats, k)}
<1>1. T = {}
  <2> SUFFICES ASSUME T # {} PROVE FALSE
    OBVIOUS
  <2>1. PICK k \in T : \A m \in T : k <= m
    <3>1. T \in SUBSET Nat
      OBVIOUS
    <3> HIDE DEF T
    <3> QED BY <3>1, LeastMember
  <2>2. k # 0
    <3>1. Walking([j \in 0 .. 0 |-> [count |-> 0, sum |-> 0]], stats, 0)
      BY DEF Walking
    <3> QED BY <3>1
  <2>3. k - 1 \in Nat /\ k - 1 \notin T
    BY <2>1, <2>2
  <2>4. PICK f : Walking(f, stats, k - 1)
    BY <2>3
  <2>5. \E g : Walking(g, stats, (k - 1) + 1)
    BY <2>3, <2>4, WalkingExtends
  <2>6. (k - 1) + 1 = k
    OBVIOUS
  <2> QED BY <2>5, <2>6
<1> QED BY <1>1

\* count slots hold sum, each of them m at most.
Averages(walked, m) ==
  /\ walked \in [count : Nat, sum : Nat]
  /\ walked.sum <= walked.count * m

LEMMA WalkedAverages ==
  ASSUME NEW stats \in Stats, NEW m \in Nat, \A slot \in Slots : stats.history[slot] <= m
  PROVE  Averages(Walked(stats), m)
<1> DEFINE f == CHOOSE f : Walking(f, stats, Span)
<1>1. Walked(stats) = f[Span]
  BY DEF Walked, Walking, Held
<1>2. Walking(f, stats, Span) /\ Span \in Nat
  <2>1. Span \in Nat
    BY StatsAssumption
  <2>2. \E g : Walking(g, stats, Span)
    BY <2>1, WalkingExists
  <2>3. Walking(f, stats, Span)
    BY <2>2, Zenon
  <2> QED BY <2>1, <2>3
<1> HIDE DEF f
<1>3. ASSUME NEW k \in 1 .. Span
      PROVE  f[k] = LET seen == f[k - 1]
                    IN  IF seen.count < MinuteSlots /\ Held(stats, k - 1) > 0
                        THEN [count |-> seen.count + 1, sum |-> seen.sum + Held(stats, k - 1)]
                        ELSE seen
  <2>1. k \in 0 .. Span /\ k # 0
    BY <1>2
  <2> QED BY <1>2, <2>1 DEF Walking
<1>4. f[0] = [count |-> 0, sum |-> 0]
  <2>1. 0 \in 0 .. Span
    BY <1>2
  <2> QED BY <1>2, <2>1 DEF Walking
<1> DEFINE T == {k \in Nat : k <= Span /\ ~ Averages(f[k], m)}
<1>5. T = {}
  <2> SUFFICES ASSUME T # {} PROVE FALSE
    OBVIOUS
  <2>1. PICK k \in T : \A j \in T : k <= j
    <3>1. T \in SUBSET Nat
      OBVIOUS
    <3> HIDE DEF T
    <3> QED BY <3>1, LeastMember
  <2>2. k # 0
    <3>1. 0 <= 0 * m
      OBVIOUS
    <3>2. Averages(f[0], m)
      BY <1>4, <3>1 DEF Averages
    <3> QED BY <3>2
  <2>3. k \in 1 .. Span /\ k - 1 \in Nat /\ k - 1 \notin T /\ k - 1 <= Span
    BY <1>2, <2>1, <2>2
  <2>4. Averages(f[k - 1], m)
    BY <2>3
  <2>5. Held(stats, k - 1) \in Nat /\ Held(stats, k - 1) <= m
    <3>1. stats.index + (k - 1) \in Nat
      BY <2>3 DEF Stats, Slots
    <3>2. (stats.index + (k - 1)) % Span \in Slots
      BY <3>1, Remainder
    <3> QED BY <3>2 DEF Held, Stats
  <2>6. Averages(f[k], m)
    <3> DEFINE seen == f[k - 1]
               held == Held(stats, k - 1)
    <3>1. seen \in [count : Nat, sum : Nat] /\ seen.sum <= seen.count * m
      BY <2>4 DEF Averages
    <3>2. held \in Nat /\ held <= m
      BY <2>5
    <3>3. f[k] = IF seen.count < MinuteSlots /\ held > 0
                 THEN [count |-> seen.count + 1, sum |-> seen.sum + held] ELSE seen
      BY <1>3, <2>3
    <3> HIDE DEF seen, held, T
    <3>4. \A c, s, h \in Nat : s <= c * m /\ h <= m => s + h <= (c + 1) * m
      <4>1. \A c \in Nat : (c + 1) * m = c * m + m /\ c * m \in Nat
        OBVIOUS
      <4> QED BY <4>1
    <3>5. seen.count \in Nat /\ seen.sum \in Nat
      BY <3>1
    <3>6. seen.sum + held <= (seen.count + 1) * m
      BY <3>1, <3>2, <3>4, <3>5
    <3>7. /\ [count |-> seen.count + 1, sum |-> seen.sum + held] \in [count : Nat, sum : Nat]
          /\ Averages([count |-> seen.count + 1, sum |-> seen.sum + held], m)
      BY <3>2, <3>5, <3>6 DEF Averages
    <3> QED BY <2>4, <3>3, <3>7 DEF seen
  <2> QED BY <2>1, <2>6
<1>6. Averages(f[Span], m)
  BY <1>2, <1>5
<1> QED BY <1>1, <1>6

LEMMA Quotient ==
  ASSUME NEW s \in Nat, NEW c \in Nat \ {0}, NEW m \in Nat, s <= c * m
  PROVE  s \div c \in Nat /\ s \div c <= m
<1> DEFINE q == s \div c
           r == s % c
<1>1. q \in Nat /\ r \in Nat /\ s = c * q + r
  OBVIOUS
<1> HIDE DEF q, r
<1>2. SUFFICES ASSUME q >= m + 1 PROVE FALSE
  BY <1>1 DEF q
<1>3. c * q >= c * (m + 1)
  BY <1>1, <1>2
<1>4. c * (m + 1) = c * m + c /\ c * m \in Nat
  OBVIOUS
<1> QED BY <1>1, <1>3, <1>4

LEMMA MinuteBounded ==
  ASSUME NEW stats \in Stats, NEW m \in Nat, \A slot \in Slots : stats.history[slot] <= m
  PROVE  BandwidthMinute(stats) \in Nat /\ BandwidthMinute(stats) <= m
<1> DEFINE w == Walked(stats)
<1>1. w.count \in Nat /\ w.sum \in Nat /\ w.sum <= w.count * m
  BY WalkedAverages DEF Averages
<1> HIDE DEF w
<1>2. CASE w.count = 0
  BY <1>2 DEF BandwidthMinute, w
<1>3. CASE w.count # 0
  <2>1. w.sum \div w.count \in Nat /\ w.sum \div w.count <= m
    BY <1>1, <1>3, Quotient
  <2> QED BY <1>3, <2>1 DEF BandwidthMinute, w
<1> QED BY <1>2, <1>3

\* What has received nothing measures nothing.
LEMMA NothingCounted ==
  ASSUME NEW stats \in Stats, stats.history = NewStats.history, NEW second \in Nat
  PROVE  /\ AdvanceHistory(stats, second).history = NewStats.history
         /\ BandwidthMinute(AdvanceHistory(stats, second)) = 0
<1> DEFINE advanced == AdvanceHistory(stats, second)
<1>1. advanced.history = NewStats.history
  BY DEF AdvanceHistory, NewStats
<1>2. advanced \in Stats
  BY StatsTyped
<1>3. \A slot \in Slots : advanced.history[slot] <= 0
  BY <1>1 DEF NewStats
<1> HIDE DEF advanced
<1>4. BandwidthMinute(advanced) \in Nat /\ BandwidthMinute(advanced) <= 0
  BY <1>2, <1>3, MinuteBounded
<1> QED BY <1>1, <1>4 DEF advanced
-----------------------------------------------------------------------------
(***************************************************************************)
(* The inductive invariant.                                                *)
(***************************************************************************)
Typed == TypeOK /\ channel \in Seq(Items)

\* Before there is a receiver.
Unused ==
  half = "none" => /\ handle = "none" /\ pc = "app" /\ arrived = 0 /\ told = 0
                   /\ channel = <<>> /\ event_queue = <<>> /\ ~activated /\ ~fired

\* poll_next goes on to the timers when it has nothing put aside.
Polling == pc \in {"timers", "channel"} => handle = "held" /\ event_queue = <<>>

\* The oneshot fires only when the application dropped the receiver.
Parted == (fired => ~Live) /\ HalvesAgree

\* One packet at most is put aside, behind the announcement of the activity.
Aside == event_queue = <<>> \/ (activated /\ \E n \in Nat : event_queue = <<n>>)

\* What is measured belongs to an activity.
Quiet == ~activated => statistics.history = NewStats.history

InOrder == Live => told <= arrived /\ Numbered(event_queue, channel) = Run(told, arrived)

Inv == Typed /\ Unused /\ Polling /\ Parted /\ Aside /\ Quiet /\ InOrder

\* A step that leaves the queues and the measurement.
Same == UNCHANGED <<handle, channel, receiver, arrived, told>>

LEMMA SameInOrder ==
  ASSUME Aside, Quiet, InOrder, Same
  PROVE  Aside' /\ Quiet' /\ InOrder'
BY DEF Aside, Quiet, InOrder, Same, Live

LEMMA NoneWaits ==
  /\ Numbered(<<>>, <<>>) = <<>>
  /\ \A n \in Nat : Run(n, n) = <<>>
<1>1. <<>> \in Seq(Nat)
  OBVIOUS
<1>2. Numbered(<<>>, <<>>) = <<>>
  BY <1>1, NumberedOfNone
<1>3. \A n \in Nat : n - n = 0
  OBVIOUS
<1> QED BY <1>2, <1>3 DEF Run

LEMMA AsideTyped == ASSUME Aside PROVE event_queue \in Seq(Nat)
<1>1. <<>> \in Seq(Nat) /\ \A n \in Nat : <<n>> \in Seq(Nat)
  OBVIOUS
<1> QED BY <1>1 DEF Aside

LEMMA InitInv == Init => Inv
<1> SUFFICES ASSUME Init PROVE Inv
  OBVIOUS
<1>1. NewStats \in Stats
  <2>1. 0 \in Slots
    BY StatsAssumption DEF Slots
  <2> QED BY <2>1 DEF NewStats, Stats
<1>2. TypeOK
  <2>1. now \in 0 .. MaxTime /\ late \in 0 .. MaxLate /\ told \in 0 .. MaxPackets
        /\ arrived \in 0 .. MaxPackets
    BY ReceiverAssumption DEF Init
  <2>2. /\ wake \in BOOLEAN /\ fired \in BOOLEAN /\ half \in {"none", "active", "void", "removed"}
        /\ handle \in {"none", "queued", "held", "ended", "dropped"}
        /\ pc \in {"app", "idle", "timers", "channel"}
    BY DEF Init
  <2>3. activated \in BOOLEAN /\ bandwidth_limit \in Limits \cup {NoLimit} /\ statistics \in Stats
    BY <1>1 DEF Init, NewReceiver
  <2> QED BY <2>1, <2>2, <2>3 DEF TypeOK
<1>3. channel \in Seq(Items)
  BY DEF Init
<1> QED BY <1>2, <1>3 DEF Init, NewReceiver, Inv, Typed, Unused, Polling, Parted, HalvesAgree,
           Aside, Quiet, InOrder, Live
-----------------------------------------------------------------------------
(* The internal half.                                                      *)

LEMMA AddStreamInv == ASSUME Inv, AddStream PROVE Inv'
<1> USE DEF Inv
<1>1. /\ half = "none" /\ half' = "active" /\ handle' = "queued" /\ wake' = TRUE
      /\ UNCHANGED <<clock, fired, channel, pc, receiver, event, counts, told, bytes>>
  BY DEF AddStream
<1>2. Typed' /\ Unused' /\ Polling' /\ Parted'
  BY <1>1 DEF Typed, TypeOK, Unused, Polling, Parted, HalvesAgree, Live
<1>3. Aside' /\ Quiet'
  BY <1>1 DEF Aside, Quiet
<1>4. InOrder'
  BY <1>1, NoneWaits DEF InOrder, Unused
<1> QED BY <1>2, <1>3, <1>4

LEMMA RemoveStreamInv == ASSUME Inv, RemoveStream \/ PollStreamReceiver PROVE Inv'
<1> USE DEF Inv
<1>1. CASE RemoveStream
  <2>1. /\ half' = "removed"
        /\ UNCHANGED <<clock, wake, fired, channel, handle, pc, receiver, event, counts, told, bytes>>
    BY <1>1 DEF RemoveStream
  <2>2. Typed' /\ Unused' /\ Polling' /\ Parted' /\ Same
    BY <2>1 DEF Typed, TypeOK, Unused, Polling, Parted, HalvesAgree, Live, Same
  <2> QED BY <2>2, SameInOrder
<1>2. CASE PollStreamReceiver
  <2>1. /\ wake' = FALSE
        /\ half' = IF half = "active" /\ fired THEN "void" ELSE half
        /\ UNCHANGED <<clock, fired, channel, handle, pc, receiver, event, counts, told, bytes>>
    BY <1>2 DEF PollStreamReceiver, Polled, Replaced
  <2>2. Typed' /\ Unused' /\ Polling' /\ Same
    BY <2>1 DEF Typed, TypeOK, Unused, Polling, Live, Same
  <2>3. Parted'
    BY <2>1 DEF Parted, HalvesAgree, Live
  <2> QED BY <2>2, <2>3, SameInOrder
<1> QED BY <1>1, <1>2

LEMMA PollQueuedInv == ASSUME Inv, PollQueued PROVE Inv'
<1> USE DEF Inv
<1>1. /\ handle = "queued" /\ handle' = "held"
      /\ UNCHANGED <<clock, wake, internal, channel, pc, receiver, event, counts, told, bytes>>
  BY DEF PollQueued
<1>2. Typed' /\ Unused' /\ Polling' /\ Parted'
  BY <1>1 DEF Typed, TypeOK, Unused, Polling, Parted, HalvesAgree, Live
<1>3. Aside' /\ Quiet' /\ InOrder'
  BY <1>1 DEF Aside, Quiet, InOrder, Live
<1> QED BY <1>2, <1>3

\* What the channel holds when something has been sent: a packet is the next one.
LEMMA SentInOrder ==
  ASSUME Inv, NEW item \in Items, SendControlPacket(item),
         UNCHANGED <<handle, receiver, told>>,
         IF IsRtp(item) THEN item.number = arrived + 1 /\ arrived' = arrived + 1
                        ELSE arrived' = arrived
  PROVE  /\ channel' \in Seq(Items)
         /\ Aside' /\ Quiet' /\ InOrder'
         /\ Live' <=> Live
         /\ wake' \in BOOLEAN /\ fired' \in BOOLEAN
         /\ Live => UNCHANGED <<fired, wake>>
         /\ ~Live => fired' /\ wake' /\ channel' = channel
<1> USE DEF Inv
<1>1. Aside' /\ Quiet' /\ (Live' <=> Live)
  BY DEF Aside, Quiet, Live
<1>2. CASE ~Live
  <2>1. fired' = TRUE /\ wake' = TRUE /\ channel' = channel
    BY <1>2 DEF SendControlPacket
  <2> QED BY <1>1, <1>2, <2>1 DEF InOrder, Typed
<1>3. CASE Live
  <2>1. channel' = Append(channel, item) /\ UNCHANGED <<fired, wake>>
    BY <1>3 DEF SendControlPacket
  <2>2. channel \in Seq(Items) /\ fired \in BOOLEAN /\ wake \in BOOLEAN
        /\ arrived \in Nat /\ told \in Nat
    BY DEF Typed, TypeOK
  <2>3. channel' \in Seq(Items)
    BY <2>1, <2>2
  <2>4. event_queue \in Seq(Nat)
    BY AsideTyped
  <2>5. /\ Numbered(event_queue, channel') =
             IF IsRtp(item) THEN Append(Numbered(event_queue, channel), item.number)
             ELSE Numbered(event_queue, channel)
    BY <2>1, <2>2, <2>4, NumberedAppend
  <2>6. told <= arrived /\ Numbered(event_queue, channel) = Run(told, arrived)
    BY <1>3 DEF InOrder
  <2>7. InOrder'
    <3>1. CASE IsRtp(item)
      <4>1. Append(Run(told, arrived), arrived + 1) = Run(told, arrived + 1)
        BY <2>2, <2>6, RunGrows
      <4> QED BY <2>2, <2>5, <2>6, <3>1, <4>1 DEF InOrder
    <3>2. CASE ~IsRtp(item)
      BY <2>5, <2>6, <3>2 DEF InOrder
    <3> QED BY <3>1, <3>2
  <2> QED BY <1>1, <1>3, <2>1, <2>2, <2>3, <2>7
<1> QED BY <1>2, <1>3

LEMMA ControlIsItem ==
  ASSUME NEW kind \in {"RtcpSenderReport", "RtcpByeReceived", "FlushControl"}
  PROVE  Control(kind) \in Items /\ ~IsRtp(Control(kind))
BY DEF Control, Items, Reports, IsRtp

LEMMA FlushControlInv == ASSUME Inv, FlushControl PROVE Inv'
<1> USE DEF Inv
<1>1. /\ half = "active" /\ SendControlPacket(Control("FlushControl"))
      /\ half' = IF ~Live THEN "void" ELSE half
      /\ UNCHANGED <<clock, handle, pc, receiver, event, arrived, lost, told, bytes>>
  BY DEF FlushControl, Replaced
<1>2. Control("FlushControl") \in Items /\ ~IsRtp(Control("FlushControl"))
  BY ControlIsItem
<1>3. /\ channel' \in Seq(Items) /\ Aside' /\ Quiet' /\ InOrder'
      /\ Live' <=> Live
      /\ wake' \in BOOLEAN /\ fired' \in BOOLEAN
      /\ Live => UNCHANGED <<fired, wake>>
      /\ ~Live => fired' /\ wake' /\ channel' = channel
  BY <1>1, <1>2, SentInOrder
<1>4. Typed' /\ Unused' /\ Polling'
  BY <1>1, <1>3 DEF Typed, TypeOK, Unused, Polling
<1>5. Parted'
  BY <1>1, <1>3 DEF Parted, HalvesAgree
<1> QED BY <1>3, <1>4, <1>5

\* A packet or a report that reaches the stream.
LEMMA DispatchInv ==
  ASSUME Inv, NEW item \in Items, Dispatch(item),
         UNCHANGED <<clock, handle, pc, receiver, told>>,
         IF IsRtp(item) THEN /\ item.number = arrived + 1 /\ arrived' = arrived + 1
                             /\ arrived' \in 0 .. MaxPackets
                        ELSE arrived' = arrived
  PROVE  Inv'
<1> USE DEF Inv
<1>1. /\ half \in {"active", "void"}
      /\ half' = IF half = "active" /\ fired THEN "void" ELSE half
      /\ IF half' = "active" THEN SendControlPacket(item) ELSE UNCHANGED <<fired, wake, channel>>
  BY DEF Dispatch, Polled, Replaced
<1>2. CASE half' = "active"
  <2>1. SendControlPacket(item) /\ half = "active" /\ ~fired
    BY <1>1, <1>2
  <2>2. /\ channel' \in Seq(Items) /\ Aside' /\ Quiet' /\ InOrder'
        /\ Live' <=> Live
        /\ wake' \in BOOLEAN /\ fired' \in BOOLEAN
        /\ Live => UNCHANGED <<fired, wake>>
        /\ ~Live => fired' /\ wake' /\ channel' = channel
    BY <2>1, SentInOrder
  <2>3. Typed' /\ Unused' /\ Polling'
    BY <1>2, <2>2 DEF Typed, TypeOK, Unused, Polling
  <2>4. Parted'
    BY <1>2, <2>1, <2>2 DEF Parted, HalvesAgree
  <2> QED BY <2>2, <2>3, <2>4
<1>3. CASE half' # "active"
  <2>1. UNCHANGED <<fired, wake, channel>> /\ half' = "void" /\ ~Live
    BY <1>1, <1>3 DEF Parted, HalvesAgree
  <2>2. Typed' /\ Unused' /\ Polling' /\ Parted'
    BY <2>1 DEF Typed, TypeOK, Unused, Polling, Parted, HalvesAgree, Live
  <2>3. Aside' /\ Quiet' /\ InOrder'
    BY <2>1 DEF Aside, Quiet, InOrder, Live
  <2> QED BY <2>2, <2>3
<1> QED BY <1>2, <1>3

LEMMA ReceiveInv == ASSUME Inv, ReceiveRtp \/ ReceiveRtcp PROVE Inv'
<1> USE DEF Inv
<1>1. CASE ReceiveRtcp
  <2>1. PICK kind \in {"RtcpSenderReport", "RtcpByeReceived"} : Dispatch(Control(kind))
    BY <1>1 DEF ReceiveRtcp
  <2>2. Control(kind) \in Items /\ ~IsRtp(Control(kind))
    BY ControlIsItem
  <2>3. UNCHANGED <<clock, handle, pc, receiver, event, arrived, lost, told, bytes>>
    BY <1>1 DEF ReceiveRtcp
  <2> QED BY <2>1, <2>2, <2>3, DispatchInv
<1>2. CASE ReceiveRtp
  <2>1. PICK payload \in Payloads, own \in BOOLEAN :
          /\ arrived' = arrived + (IF own THEN 1 ELSE 0)
          /\ IF own THEN Dispatch(Rtp(arrived', payload))
                    ELSE half' = Polled /\ handle # "queued" /\ UNCHANGED <<fired, wake, channel>>
    BY <1>2 DEF ReceiveRtp
  <2>2. /\ UNCHANGED <<clock, handle, pc, receiver, event, control, lost, told, bytes>>
        /\ arrived < MaxPackets /\ arrived \in 0 .. MaxPackets /\ half \in {"active", "void"}
    BY <1>2 DEF ReceiveRtp, Typed, TypeOK
  <2>3. CASE own
    <3> DEFINE item == Rtp(arrived', payload)
    <3>1. arrived' = arrived + 1 /\ Dispatch(item)
      BY <2>1, <2>3
    <3>2. arrived' \in 0 .. MaxPackets /\ arrived' \in Nat
      BY <2>2, <3>1, ReceiverAssumption
    <3>3. item \in Items /\ IsRtp(item) /\ item.number = arrived + 1
      BY <3>1, <3>2 DEF Rtp, Items, IsRtp
    <3> HIDE DEF item
    <3> QED BY <2>2, <3>1, <3>2, <3>3, DispatchInv
  <2>4. CASE ~own
    <3>1. /\ half' = IF half = "active" /\ fired THEN "void" ELSE half
          /\ UNCHANGED <<fired, wake, channel>> /\ arrived' = arrived
      BY <2>1, <2>2, <2>4 DEF Polled, Replaced
    <3>2. Typed' /\ Unused' /\ Polling' /\ Parted'
      BY <2>2, <3>1 DEF Typed, TypeOK, Unused, Polling, Parted, HalvesAgree, Live
    <3>3. Same
      BY <2>2, <3>1 DEF Same
    <3> QED BY <3>2, <3>3, SameInOrder
  <2> QED BY <2>3, <2>4
<1> QED BY <1>1, <1>2
-----------------------------------------------------------------------------
(* The MediaReceiver.                                                      *)

LEMMA SetBandwidthLimitInv == ASSUME Inv, SetBandwidthLimit PROVE Inv'
<1> USE DEF Inv
<1>1. /\ handle = "held" /\ bandwidth_limit' \in Limits \cup {NoLimit}
      /\ statistics' = ResetBandwidth(statistics)
      /\ UNCHANGED <<clock, wake, internal, channel, handle, pc, activated, event_queue, watch,
                     event, counts, told>>
  BY DEF SetBandwidthLimit, SendRemb
<1>2. statistics' \in Stats /\ statistics'.history = NewStats.history
  <2>1. statistics \in Stats /\ 0 \in Nat
    BY DEF Typed, TypeOK
  <2> QED BY <1>1, <2>1, StatsTyped
<1>3. Typed' /\ Unused' /\ Polling' /\ Parted'
  BY <1>1, <1>2 DEF Typed, TypeOK, Unused, Polling, Parted, HalvesAgree, Live
<1>4. Aside' /\ Quiet' /\ InOrder'
  BY <1>1, <1>2 DEF Aside, Quiet, InOrder, Live
<1> QED BY <1>3, <1>4

LEMMA DropReceiverInv == ASSUME Inv, DropReceiver PROVE Inv'
<1> USE DEF Inv
<1>1. /\ handle \in {"queued", "held", "ended"} /\ pc \in {"app", "idle"}
      /\ handle' = "dropped" /\ channel' = <<>> /\ event_queue' = <<>>
      /\ UNCHANGED <<clock, wake, internal, pc, activated, bandwidth_limit, statistics, watch,
                     event, counts, told, bytes>>
  BY DEF DropReceiver
<1>2. channel' \in Seq(Items)
  BY <1>1
<1>3. Typed' /\ Unused' /\ Polling' /\ Parted'
  BY <1>1, <1>2 DEF Typed, TypeOK, Unused, Polling, Parted, HalvesAgree, Live
<1>4. Aside' /\ Quiet' /\ InOrder'
  BY <1>1 DEF Aside, Quiet, InOrder, Live
<1> QED BY <1>3, <1>4

\* What was put aside is the next packet.
LEMMA AsideNext ==
  ASSUME Inv, handle = "held", event_queue # <<>>
  PROVE  /\ event_queue = <<told + 1>> /\ told + 1 <= arrived /\ activated
         /\ Numbered(<<>>, channel) = Run(told + 1, arrived)
<1> USE DEF Inv
<1>1. PICK n \in Nat : event_queue = <<n>>
  BY DEF Aside
<1>2. told <= arrived /\ Numbered(event_queue, channel) = Run(told, arrived)
  BY DEF InOrder, Live
<1>3. told \in Nat /\ arrived \in Nat /\ channel \in Seq(Items)
  BY DEF Typed, TypeOK
<1>4. /\ <<n>> \o Numbered(<<>>, channel) = Run(told, arrived)
      /\ Numbered(<<>>, channel) \in Seq(Nat)
  BY <1>1, <1>2, <1>3, NumberedBehind
<1>5. n = told + 1 /\ told + 1 <= arrived /\ Numbered(<<>>, channel) = Run(told + 1, arrived)
  BY <1>2, <1>3, <1>4, RunDrops
<1> QED BY <1>1, <1>5 DEF Aside

LEMMA PollEventQueueInv == ASSUME Inv, PollEventQueue PROVE Inv'
<1> USE DEF Inv
<1>1. /\ handle = "held" /\ pc' = "app" /\ event_queue # <<>>
      /\ event_queue' = Tail(event_queue) /\ told' = Head(event_queue)
      /\ UNCHANGED <<clock, wake, internal, channel, handle, activated, bandwidth_limit,
                     statistics, watch, counts, bytes>>
  BY DEF PollEventQueue, Return
<1>2. /\ event_queue = <<told + 1>> /\ told + 1 <= arrived
      /\ Numbered(<<>>, channel) = Run(told + 1, arrived)
  BY <1>1, AsideNext
<1>3. event_queue' = <<>> /\ told' = told + 1
  BY <1>1, <1>2
<1>4. told' \in 0 .. MaxPackets
  BY <1>2, <1>3, ReceiverAssumption DEF Typed, TypeOK
<1>5. Typed'
  BY <1>1, <1>4 DEF Typed, TypeOK
<1>6. Unused' /\ Polling' /\ Parted'
  BY <1>1 DEF Unused, Polling, Parted, HalvesAgree, Live
<1>7. Aside' /\ Quiet' /\ InOrder'
  BY <1>1, <1>2, <1>3 DEF Aside, Quiet, InOrder, Live
<1> QED BY <1>5, <1>6, <1>7

\* The steps of a poll that leave the queues and the measurement.
LEMMA PollInv ==
  ASSUME Inv, PollDataLost \/ PollTimers \/ PollChannel \/ ReceiverSleeps
  PROVE  Inv'
<1> USE DEF Inv
<1>1. /\ handle = "held" /\ event_queue = <<>> /\ pc' \in {"app", "idle", "timers", "channel"}
      /\ UNCHANGED <<clock, wake, internal, channel, handle, activated, bandwidth_limit,
                     event_queue, statistics, arrived, told>>
  BY DEF PollDataLost, PollTimers, PollChannel, ReceiverSleeps, Return, Polling
<1>2. Typed' /\ Unused' /\ Polling' /\ Parted'
  BY <1>1 DEF Typed, TypeOK, Unused, Polling, Parted, HalvesAgree, Live
<1>3. Aside' /\ Quiet' /\ InOrder'
  BY <1>1 DEF Aside, Quiet, InOrder, Live
<1> QED BY <1>2, <1>3

LEMMA WatchBandwidthInv == ASSUME Inv, WatchBandwidth PROVE Inv'
<1> USE DEF Inv
<1> DEFINE ticked == AdvanceHistory(statistics, now)
<1>1. /\ pc = "timers" /\ pc' \in {"timers", "app"}
      /\ statistics' \in {ticked, ResetBandwidth(ticked)}
      /\ UNCHANGED <<clock, wake, internal, channel, handle, activated, bandwidth_limit,
                     event_queue, counts, told>>
  BY DEF WatchBandwidth, SendRemb, Return
<1>2. statistics \in Stats /\ now \in Nat /\ 0 \in Nat
  BY DEF Typed, TypeOK
<1>3. ticked \in Stats
  BY <1>2, StatsTyped
<1>4. statistics.history = NewStats.history => ticked.history = NewStats.history
  BY <1>2, NothingCounted
<1> HIDE DEF ticked
<1>5. ResetBandwidth(ticked) \in Stats /\ ResetBandwidth(ticked).history = NewStats.history
  BY <1>2, <1>3, StatsTyped
<1>6. statistics' \in Stats
      /\ (statistics.history = NewStats.history => statistics'.history = NewStats.history)
  BY <1>1, <1>3, <1>4, <1>5
<1>7. Typed' /\ Unused' /\ Polling' /\ Parted'
  BY <1>1, <1>6 DEF Typed, TypeOK, Unused, Polling, Parted, HalvesAgree, Live
<1>8. Aside' /\ Quiet' /\ InOrder'
  BY <1>1, <1>6 DEF Aside, Quiet, InOrder, Live
<1> QED BY <1>7, <1>8

\* What the poll takes from the channel: a packet is the next one.
LEMMA HeadTaken ==
  ASSUME Inv, pc = "channel", channel # <<>>
  PROVE  /\ handle = "held" /\ event_queue = <<>>
         /\ Head(channel) \in Items /\ Tail(channel) \in Seq(Items)
         /\ ~IsRtp(Head(channel)) => Numbered(<<>>, Tail(channel)) = Run(told, arrived)
         /\ IsRtp(Head(channel)) =>
              /\ Head(channel).number = told + 1 /\ Head(channel).payload \in Payloads
              /\ told + 1 <= arrived
              /\ Numbered(<<told + 1>>, Tail(channel)) = Run(told, arrived)
              /\ Numbered(<<>>, Tail(channel)) = Run(told + 1, arrived)
<1> USE DEF Inv
<1> DEFINE item == Head(channel)
           rest == Tail(channel)
<1>1. handle = "held" /\ event_queue = <<>>
  BY DEF Polling
<1>2. channel \in Seq(Items) /\ told \in Nat /\ arrived \in Nat
  BY DEF Typed, TypeOK
<1>3. item \in Items /\ rest \in Seq(Items)
  BY <1>2, TailOf
<1>4. <<>> \in Seq(Nat)
  OBVIOUS
<1>5. told <= arrived /\ Numbered(<<>>, channel) = Run(told, arrived)
  BY <1>1 DEF InOrder, Live
<1>6. Numbered(<<>>, channel) =
        Numbered(IF IsRtp(item) THEN Append(<<>>, item.number) ELSE <<>>, rest)
  BY <1>2, <1>4, NumberedTail
<1> HIDE DEF item, rest
<1>7. CASE ~IsRtp(item)
  BY <1>1, <1>3, <1>5, <1>6, <1>7 DEF item, rest
<1>8. CASE IsRtp(item)
  <2>1. item.number \in Nat /\ item.payload \in Payloads
    BY <1>3, <1>8 DEF Items, Reports, IsRtp
  <2>2. Append(<<>>, item.number) = <<item.number>>
    OBVIOUS
  <2>3. Numbered(<<item.number>>, rest) = Run(told, arrived)
    BY <1>5, <1>6, <1>8, <2>2
  <2>4. /\ <<item.number>> \o Numbered(<<>>, rest) = Run(told, arrived)
        /\ Numbered(<<>>, rest) \in Seq(Nat)
    BY <1>3, <2>1, <2>3, NumberedBehind
  <2>5. /\ item.number = told + 1 /\ told + 1 <= arrived
        /\ Numbered(<<>>, rest) = Run(told + 1, arrived)
    BY <1>2, <1>5, <2>1, <2>4, RunDrops
  <2>6. Numbered(<<told + 1>>, rest) = Run(told, arrived)
    BY <2>3, <2>5
  <2> QED BY <1>1, <1>3, <1>8, <2>1, <2>5, <2>6 DEF item, rest
<1> QED BY <1>7, <1>8

LEMMA TakeRtpInv == ASSUME Inv, TakeRtp PROVE Inv'
<1> USE DEF Inv
<1> DEFINE packet     == Head(channel)
           registered == RegisterIncoming(statistics, now, packet.payload)
<1>1. /\ pc = "channel" /\ channel # <<>> /\ IsRtp(packet)
      /\ channel' = Tail(channel) /\ pc' = "app"
      /\ UNCHANGED <<clock, wake, internal, handle, bandwidth_limit, watch, counts>>
  BY DEF TakeRtp, IsRtp, Return
<1>2. /\ handle = "held" /\ event_queue = <<>> /\ Tail(channel) \in Seq(Items)
      /\ packet.number = told + 1 /\ packet.payload \in Payloads /\ told + 1 <= arrived
      /\ Numbered(<<told + 1>>, Tail(channel)) = Run(told, arrived)
      /\ Numbered(<<>>, Tail(channel)) = Run(told + 1, arrived)
  BY <1>1, HeadTaken
<1>3. registered \in Stats /\ ResetBandwidth(registered) \in Stats
  <2>1. statistics \in Stats /\ now \in Nat
    BY DEF Typed, TypeOK
  <2>2. packet.payload \in Nat
    <3> HIDE DEF packet
    <3> QED BY <1>2, ReceiverAssumption
  <2>3. registered \in Stats
    BY <2>1, <2>2, StatsTyped
  <2> QED BY <2>1, <2>3, StatsTyped
<1>4. statistics' \in Stats
  BY <1>3 DEF TakeRtp, SendRemb
<1>5. activated' = TRUE
  BY DEF TakeRtp, Typed, TypeOK
<1>6. \/ activated /\ told' = told + 1 /\ event_queue' = event_queue
      \/ ~activated /\ told' = told /\ event_queue' = <<told + 1>>
  BY <1>2 DEF TakeRtp
<1>7. told \in Nat /\ arrived \in Nat /\ told + 1 \in Nat /\ told' \in 0 .. MaxPackets
  BY <1>2, <1>6, ReceiverAssumption DEF Typed, TypeOK
<1> HIDE DEF packet, registered
<1>8. Typed'
  BY <1>1, <1>2, <1>4, <1>5, <1>7 DEF Typed, TypeOK
<1>9. Unused' /\ Polling' /\ Parted'
  BY <1>1, <1>2 DEF Unused, Polling, Parted, HalvesAgree, Live
<1>10. Aside' /\ Quiet'
  BY <1>2, <1>5, <1>6, <1>7 DEF Aside, Quiet
<1>11. InOrder'
  BY <1>1, <1>2, <1>6, <1>7 DEF InOrder
<1> QED BY <1>8, <1>9, <1>10, <1>11

\* What else the poll takes from the channel.
LEMMA TakeControlInv == ASSUME Inv, TakeBye \/ SkipControl PROVE Inv'
<1> USE DEF Inv
<1>1. /\ pc = "channel" /\ channel # <<>> /\ ~IsRtp(Head(channel))
      /\ channel' = Tail(channel) /\ pc' \in {"app", "channel"}
      /\ UNCHANGED <<clock, wake, internal, handle, bandwidth_limit, event_queue, counts, told>>
  BY DEF TakeBye, SkipControl, IsRtp, Return
<1>2. /\ handle = "held" /\ event_queue = <<>> /\ Tail(channel) \in Seq(Items)
      /\ Numbered(<<>>, Tail(channel)) = Run(told, arrived)
  BY <1>1, HeadTaken
<1>3. /\ activated' \in BOOLEAN /\ statistics' \in Stats
      /\ ~activated' => statistics'.history = NewStats.history
  <2>1. statistics \in Stats /\ 0 \in Nat /\ activated \in BOOLEAN
    BY DEF Typed, TypeOK
  <2>2. ResetBandwidth(statistics) \in Stats
        /\ ResetBandwidth(statistics).history = NewStats.history
    BY <2>1, StatsTyped
  <2> QED BY <2>1, <2>2 DEF TakeBye, SkipControl, Quiet
<1>4. Typed' /\ Unused' /\ Polling' /\ Parted'
  BY <1>1, <1>2, <1>3 DEF Typed, TypeOK, Unused, Polling, Parted, HalvesAgree, Live
<1>5. Aside' /\ Quiet' /\ InOrder'
  BY <1>1, <1>2, <1>3 DEF Aside, Quiet, InOrder, Live
<1> QED BY <1>4, <1>5

LEMMA TakeEndInv == ASSUME Inv, TakeEnd PROVE Inv'
<1> USE DEF Inv
<1>1. /\ half # "active" /\ handle' = "ended" /\ pc' = "app"
      /\ UNCHANGED <<clock, wake, internal, channel, receiver, counts, told, bytes>>
      /\ handle = "held"
  BY DEF TakeEnd, Return, Polling
<1>2. Typed' /\ Unused' /\ Polling' /\ Parted'
  BY <1>1 DEF Typed, TypeOK, Unused, Polling, Parted, HalvesAgree, Live
<1>3. Aside' /\ Quiet' /\ InOrder'
  BY <1>1 DEF Aside, Quiet, InOrder, Live
<1> QED BY <1>2, <1>3

LEMMA TickInv == ASSUME Inv, Tick PROVE Inv'
<1> USE DEF Inv
<1>1. /\ now' = now + 1 /\ now < MaxTime /\ late' \in {late, late + 1}
      /\ late' = late + 1 => late < MaxLate
      /\ UNCHANGED <<wake, internal, channel, handle, pc, receiver, event, counts, told, bytes>>
  <2>1. late \in Nat
    BY DEF Typed, TypeOK
  <2> QED BY <2>1 DEF Tick
<1>2. now' \in 0 .. MaxTime /\ late' \in 0 .. MaxLate
  BY <1>1, ReceiverAssumption DEF Typed, TypeOK
<1>3. Typed' /\ Unused' /\ Polling' /\ Parted' /\ Same
  BY <1>1, <1>2 DEF Typed, TypeOK, Unused, Polling, Parted, HalvesAgree, Live, Same
<1> QED BY <1>3, SameInOrder

LEMMA NextInv == Inv /\ [Next]_vars => Inv'
<1> SUFFICES ASSUME Inv, [Next]_vars PROVE Inv'
  OBVIOUS
<1>1. CASE UNCHANGED vars
  <2>1. Typed' /\ Unused' /\ Polling' /\ Parted' /\ Same
    BY <1>1 DEF vars, Inv, Typed, TypeOK, Unused, Polling, Parted, HalvesAgree, Live, Same
  <2> QED BY <2>1, SameInOrder DEF Inv
<1>2. CASE PeerSignals \/ PeerPoll
  BY <1>2, AddStreamInv, RemoveStreamInv, FlushControlInv, PollQueuedInv, ReceiveInv
     DEF PeerSignals, PeerPoll
<1>3. CASE ReceiverPoll
  BY <1>3, PollEventQueueInv, PollInv, WatchBandwidthInv, TakeRtpInv, TakeControlInv, TakeEndInv
     DEF ReceiverPoll
<1> QED BY <1>1, <1>2, <1>3, SetBandwidthLimitInv, DropReceiverInv, TickInv DEF Next

LEMMA AlwaysInv == Spec => []Inv
BY InitInv, NextInv, PTL DEF Spec

\* Everything that came in on the stream's own transport is handed out, put
\* aside or under way, once and in order, and the half of the peer is given up
\* only for a receiver that is gone, and then the peer is woken
\* (rtc.rs:1047-1059, 1078-1087, receiver.rs:180-183, 248-263, 374-383).
THEOREM HalvesKept == Spec => []Halves
<1>1. Inv => Halves
  <2> SUFFICES ASSUME Inv PROVE Halves
    OBVIOUS
  <2>1. TypeOK /\ HalvesAgree
    BY DEF Inv, Typed, Parted
  <2>2. Waiting = Numbered(event_queue, channel)
    BY DEF Waiting, Numbered
  <2>3. Run(told, arrived) = [i \in 1 .. (arrived - told) |-> told + i]
    BY DEF Run
  <2>4. NothingMissed
    BY <2>2, <2>3 DEF NothingMissed, Inv, InOrder
  <2> QED BY <2>1, <2>4 DEF Halves
<1> QED BY <1>1, AlwaysInv, PTL

-----------------------------------------------------------------------------
(***************************************************************************)
(* The receiver implements the steps of ReceiverPromise.                   *)
(***************************************************************************)
Backlog == IF Live THEN arrived - told ELSE 0

\* Where the phase comes from while the receiver is there.
LEMMA PhaseOfLive ==
  ASSUME Live
  PROVE  Phase = IF event_queue # <<>> THEN "announced"
                 ELSE IF activated THEN "active" ELSE "silent"
BY DEF Live, Phase

LEMMA PromiseStutters ==
  ASSUME UNCHANGED <<handle, event_queue, activated, arrived, told, event>>
  PROVE  UNCHANGED Promise!ReceiverVars
BY DEF Promise!ReceiverVars, Phase, Live

LEMMA PromiseBegins == Init => Promise!PromiseInit
<1> SUFFICES ASSUME Init PROVE Promise!PromiseInit
  OBVIOUS
<1>1. handle = "none" /\ event_queue = <<>> /\ activated = FALSE /\ event = "none"
  BY DEF Init, NewReceiver
<1>2. Phase = "silent" /\ ~Live
  BY <1>1 DEF Phase, Live
<1> QED BY <1>1, <1>2 DEF Promise!PromiseInit

LEMMA PeerKeepsPromise ==
  ASSUME Inv, PeerSignals \/ PeerPoll
  PROVE  [Promise!PromiseNext]_(Promise!ReceiverVars)
<1> USE DEF Inv
<1>1. CASE AddStream
  <2>1. /\ handle = "none" /\ handle' = "queued" /\ arrived = 0 /\ told = 0
        /\ UNCHANGED <<event_queue, activated, arrived, told, event>>
    BY <1>1 DEF AddStream, Unused
  <2>2. event_queue = <<>> /\ ~activated
    BY <1>1 DEF AddStream, Unused
  <2>3. Phase = "silent" /\ Phase' = "silent" /\ ~Live /\ arrived' - told' = 0
    BY <2>1, <2>2 DEF Phase, Live
  <2> QED BY <2>1, <2>3 DEF Promise!ReceiverVars, Live
<1>2. CASE RemoveStream \/ FlushControl \/ PollStreamReceiver \/ ReceiveRtcp
  <2>1. UNCHANGED <<handle, event_queue, activated, arrived, told, event>>
    BY <1>2 DEF RemoveStream, FlushControl, PollStreamReceiver, ReceiveRtcp
  <2> QED BY <2>1, PromiseStutters
<1>3. CASE PollQueued
  <2>1. /\ handle = "queued" /\ handle' = "held"
        /\ UNCHANGED <<event_queue, activated, arrived, told, event>>
    BY <1>3 DEF PollQueued
  <2> QED BY <2>1 DEF Promise!ReceiverVars, Phase, Live
<1>4. CASE ReceiveRtp
  <2>1. /\ UNCHANGED <<handle, event_queue, activated, told, event>>
        /\ arrived' \in {arrived, arrived + 1}
    <3>1. arrived \in Nat
      BY DEF Typed, TypeOK
    <3> QED BY <1>4, <3>1 DEF ReceiveRtp
  <2>2. arrived \in Nat /\ told \in Nat
    BY DEF Typed, TypeOK
  <2>3. CASE arrived' = arrived
    BY <2>1, <2>3, PromiseStutters
  <2>4. CASE arrived' = arrived + 1 /\ ~Live
    <3>1. Phase' = Phase /\ ~Live'
      BY <2>1, <2>4 DEF Phase, Live
    <3> QED BY <2>1, <2>4, <3>1 DEF Promise!ReceiverVars
  <2>5. CASE arrived' = arrived + 1 /\ Live
    <3>1. Phase # "over" /\ Phase' = Phase /\ Live'
      BY <2>1, <2>5 DEF Phase, Live
    <3>2. arrived' - told' = (arrived - told) + 1
      BY <2>1, <2>2, <2>5
    <3>3. Promise!Receive
      BY <2>1, <2>5, <3>1, <3>2 DEF Promise!Receive
    <3> QED BY <3>3 DEF Promise!PromiseNext
  <2> QED BY <2>1, <2>3, <2>4, <2>5
<1> QED BY <1>1, <1>2, <1>3, <1>4 DEF PeerSignals, PeerPoll

LEMMA DropKeepsPromise ==
  ASSUME Inv, DropReceiver
  PROVE  [Promise!PromiseNext]_(Promise!ReceiverVars)
<1>1. /\ handle \in {"queued", "held", "ended"} /\ handle' = "dropped" /\ UNCHANGED event
  BY DEF DropReceiver
<1>2. Phase' = "over" /\ ~Live'
  BY <1>1 DEF Phase, Live
<1>3. CASE handle = "ended"
  <2>1. Phase = "over" /\ ~Live
    BY <1>3 DEF Phase, Live
  <2> QED BY <1>1, <1>2, <2>1 DEF Promise!ReceiverVars
<1>4. CASE handle # "ended"
  <2>1. Phase # "over"
    BY <1>1, <1>4 DEF Phase
  <2> QED BY <1>1, <1>2, <2>1 DEF Promise!GiveUp, Promise!PromiseNext
<1> QED BY <1>3, <1>4

\* A packet is handed out or announced.
LEMMA DeliveryKeepsPromise ==
  ASSUME Inv, PollEventQueue \/ TakeRtp
  PROVE  Promise!PromiseNext
<1> USE DEF Inv
<1>1. handle = "held" /\ UNCHANGED <<handle, arrived>> /\ arrived \in Nat /\ told \in Nat
  BY DEF PollEventQueue, TakeRtp, Polling, Typed, TypeOK
<1>2. Live /\ Live'
  BY <1>1 DEF Live
<1>3. CASE PollEventQueue
  <2>1. event_queue = <<told + 1>> /\ told + 1 <= arrived /\ activated
    BY <1>1, <1>3, AsideNext DEF PollEventQueue
  <2>2. event_queue' = <<>> /\ told' = told + 1 /\ activated' /\ event' = "DataReceived"
    BY <1>3, <2>1 DEF PollEventQueue, Return
  <2>3. Phase = "announced"
    BY <1>1, <2>1 DEF Phase
  <2>4. Phase' = "active"
    BY <1>1, <2>2 DEF Phase
  <2>5. arrived - told > 0 /\ arrived' - told' = (arrived - told) - 1
    BY <1>1, <2>1, <2>2
  <2>6. Promise!Deliver
    BY <1>2, <2>2, <2>3, <2>4, <2>5 DEF Promise!Deliver
  <2> QED BY <2>6 DEF Promise!PromiseNext
<1>4. CASE TakeRtp
  <2>1. /\ pc = "channel" /\ channel # <<>> /\ IsRtp(Head(channel))
    BY <1>4 DEF TakeRtp, IsRtp
  <2>2. event_queue = <<>> /\ Head(channel).number = told + 1 /\ told + 1 <= arrived
    BY <2>1, HeadTaken
  <2>3. CASE activated
    <3>1. told' = told + 1 /\ event' = "DataReceived" /\ event_queue' = <<>> /\ activated'
      BY <1>4, <2>2, <2>3 DEF TakeRtp, Return
    <3>2. Phase = "active" /\ Phase' = "active"
      BY <1>1, <2>2, <2>3, <3>1 DEF Phase
    <3>3. arrived - told > 0 /\ arrived' - told' = (arrived - told) - 1
      BY <1>1, <2>2, <3>1
    <3>4. Promise!Deliver
      BY <1>2, <3>1, <3>2, <3>3 DEF Promise!Deliver
    <3> QED BY <3>4 DEF Promise!PromiseNext
  <2>4. CASE ~activated
    <3>1. told' = told /\ event' = "ReceiverActivated" /\ event_queue' = <<told + 1>>
      BY <1>4, <2>2, <2>4 DEF TakeRtp, Return
    <3>2. Phase = "silent"
      BY <1>1, <2>2, <2>4 DEF Phase
    <3>3. Phase' = "announced"
      <4>1. event_queue' # <<>>
        BY <3>1
      <4> QED BY <1>1, <4>1 DEF Phase
    <3>4. arrived - told > 0 /\ arrived' - told' = arrived - told
      BY <1>1, <2>2, <3>1
    <3>5. Promise!Activate
      BY <1>2, <3>1, <3>2, <3>3, <3>4 DEF Promise!Activate
    <3> QED BY <3>5 DEF Promise!PromiseNext
  <2> QED BY <2>3, <2>4
<1> QED BY <1>3, <1>4

\* The watcher finds a stream that is active: what is silent measures nothing.
LEMMA WatchKeepsPromise ==
  ASSUME Inv, WatchBandwidth
  PROVE  [Promise!PromiseNext]_(Promise!ReceiverVars)
<1> USE DEF Inv
<1> DEFINE ticked   == AdvanceHistory(statistics, now)
           violated == bandwidth_limit # NoLimit /\ BandwidthMinute(ticked) * 8 > bandwidth_limit
<1>1. /\ UNCHANGED <<handle, event_queue, activated, arrived, told>>
      /\ handle = "held" /\ event_queue = <<>>
      /\ IF violated THEN event' = "BandwidthLimitViolation" ELSE UNCHANGED event
  BY DEF WatchBandwidth, Return, Polling
<1>2. CASE ~violated
  BY <1>1, <1>2, PromiseStutters
<1>3. CASE violated
  <2>1. activated
    <3>1. SUFFICES ASSUME ~activated PROVE FALSE
      BY DEF Typed, TypeOK
    <3>2. statistics \in Stats /\ now \in Nat
      BY DEF Typed, TypeOK
    <3>3. BandwidthMinute(ticked) = 0
      BY <3>1, <3>2, NothingCounted DEF Quiet
    <3>4. bandwidth_limit \in Nat
      BY <1>3, ReceiverAssumption DEF Typed, TypeOK
    <3> HIDE DEF ticked
    <3> QED BY <1>3, <3>3, <3>4
  <2>2. Phase = "active" /\ Phase' = "active" /\ (Live' <=> Live)
    BY <1>1, <2>1 DEF Phase, Live
  <2>3. Promise!ReportViolation
    BY <1>1, <1>3, <2>2 DEF Promise!ReportViolation
  <2> QED BY <2>3 DEF Promise!PromiseNext
<1> QED BY <1>2, <1>3

\* What has been read to the end leaves nothing.
LEMMA EndKeepsPromise == ASSUME Inv, TakeEnd PROVE Promise!PromiseNext
<1> USE DEF Inv
<1>1. /\ handle = "held" /\ handle' = "ended" /\ channel = <<>> /\ event_queue = <<>>
      /\ event' = "end"
  BY DEF TakeEnd, Return, Polling
<1>2. told \in Nat /\ arrived \in Nat /\ told <= arrived /\ Run(told, arrived) = <<>>
  BY <1>1, NoneWaits DEF InOrder, Live, Typed, TypeOK
<1>3. arrived - told = 0
  <2>1. SUFFICES ASSUME told < arrived PROVE FALSE
    BY <1>2
  <2>2. 1 \in 1 .. (arrived - told)
    BY <1>2, <2>1
  <2>3. 1 \in DOMAIN Run(told, arrived)
    BY <2>2 DEF Run
  <2>4. DOMAIN <<>> = {}
    OBVIOUS
  <2> QED BY <1>2, <2>3, <2>4
<1>4. Phase \in {"silent", "active"} /\ Phase' = "over" /\ ~Live'
  BY <1>1 DEF Phase, Live
<1>5. Promise!Finish
  BY <1>1, <1>3, <1>4 DEF Promise!Finish
<1> QED BY <1>5 DEF Promise!PromiseNext

LEMMA PollKeepsPromise ==
  ASSUME Inv, PollDataLost \/ PollTimers \/ PollChannel \/ TakeBye \/ SkipControl \/ ReceiverSleeps
  PROVE  [Promise!PromiseNext]_(Promise!ReceiverVars)
<1> USE DEF Inv
<1>1. CASE PollTimers \/ PollChannel \/ SkipControl \/ ReceiverSleeps
  <2>1. UNCHANGED <<handle, event_queue, activated, arrived, told, event>>
    BY <1>1 DEF PollTimers, PollChannel, SkipControl, ReceiverSleeps
  <2> QED BY <2>1, PromiseStutters
<1>2. CASE PollDataLost
  <2>1. /\ handle = "held" /\ event_queue = <<>> /\ event' = "DataLost"
        /\ UNCHANGED <<handle, event_queue, activated, arrived, told>>
    BY <1>2 DEF PollDataLost, Return
  <2>2. Phase \in {"silent", "active"} /\ Phase' = Phase /\ (Live' <=> Live)
    BY <2>1 DEF Phase, Live
  <2>3. Promise!ReportLoss
    BY <2>1, <2>2 DEF Promise!ReportLoss
  <2> QED BY <2>3 DEF Promise!PromiseNext
<1>3. CASE TakeBye
  <2>1. /\ handle = "held" /\ event_queue = <<>> /\ event' = "ByeSignalReceived"
        /\ activated' = FALSE /\ UNCHANGED <<handle, event_queue, arrived, told>>
    BY <1>3 DEF TakeBye, Return, Polling
  <2>2. Phase \in {"silent", "active"} /\ Phase' = "silent" /\ (Live' <=> Live)
    BY <2>1 DEF Phase, Live
  <2>3. Promise!Silence
    BY <2>1, <2>2 DEF Promise!Silence
  <2> QED BY <2>3 DEF Promise!PromiseNext
<1> QED BY <1>1, <1>2, <1>3

LEMMA StepKeepsPromise == Inv /\ [Next]_vars => [Promise!PromiseNext]_(Promise!ReceiverVars)
<1> SUFFICES ASSUME Inv, [Next]_vars PROVE [Promise!PromiseNext]_(Promise!ReceiverVars)
  OBVIOUS
<1>1. CASE UNCHANGED vars \/ Tick \/ SetBandwidthLimit
  <2>1. UNCHANGED <<handle, event_queue, activated, arrived, told, event>>
    BY <1>1 DEF vars, Tick, SetBandwidthLimit
  <2> QED BY <2>1, PromiseStutters
<1>2. CASE ReceiverPoll
  BY <1>2, DeliveryKeepsPromise, WatchKeepsPromise, EndKeepsPromise, PollKeepsPromise
     DEF ReceiverPoll
<1> QED BY <1>1, <1>2, PeerKeepsPromise, DropKeepsPromise DEF Next

\* Every step of the receiver and its peer is one the events of
\* MediaReceiverEvent promise (receiver.rs:22-38), or is not seen at all.
THEOREM EventsPromised == Spec => Promise!PromiseSteps
BY PromiseBegins, StepKeepsPromise, AlwaysInv, PTL DEF Spec, Promise!PromiseSteps

-----------------------------------------------------------------------------
(***************************************************************************)
(* What the ring holds.                                                    *)
(***************************************************************************)
LEMMA RemainderIs ==
  ASSUME NEW n \in Nat \ {0}, NEW q \in Int, NEW r \in 0 .. n - 1
  PROVE  (q * n + r) % n = r
<1> DEFINE x == q * n + r
           p == x \div n
           e == x % n
<1>1. x \in Int
  <2>1. q * n \in Int /\ r \in Int
    OBVIOUS
  <2> QED BY <2>1
<1>2. x = n * p + e /\ p \in Int /\ e \in 0 .. n - 1
  <2> HIDE DEF x
  <2> QED BY <1>1
<1> HIDE DEF p, e
<1>3. (q - p) * n = e - r
  <2>1. q * n + r = n * p + e
    BY <1>2
  <2>2. (q - p) * n = q * n - n * p
    BY <1>2
  <2>3. q * n \in Int /\ n * p \in Int /\ r \in Int /\ e \in Int
    BY <1>2
  <2> QED BY <2>1, <2>2, <2>3
<1>4. q - p = 0
  <2> DEFINE d == q - p
  <2>1. d \in Int /\ d * n = e - r /\ e - r < n /\ e - r > -n
    BY <1>2, <1>3
  <2> HIDE DEF d
  <2>2. ~ (d >= 1)
    <3>1. SUFFICES ASSUME d >= 1 PROVE FALSE
      OBVIOUS
    <3>2. d * n >= n
      BY <2>1, <3>1
    <3> QED BY <1>2, <2>1, <3>2
  <2>3. ~ (d <= -1)
    <3>1. SUFFICES ASSUME d <= -1 PROVE FALSE
      OBVIOUS
    <3>2. d * n <= -n
      BY <2>1, <3>1
    <3> QED BY <1>2, <2>1, <3>2
  <2>4. d = 0
    BY <2>1, <2>2, <2>3
  <2> QED BY <2>4 DEF d
<1>5. e = r
  BY <1>2, <1>3, <1>4
<1> QED BY <1>5 DEF e

\* The index moves on by the seconds that passed, when they are fewer than a lap.
LEMMA AheadIs ==
  ASSUME NEW a \in Nat, NEW b \in Nat, a <= b, b - a < Span
  PROVE  Ahead(a % Span, b % Span) = b - a
<1> DEFINE p == a \div Span
           q == b \div Span
           r == a % Span
           t == b % Span
<1>1. Span \in Nat \ {0}
  BY StatsAssumption
<1>2. /\ p \in Nat /\ q \in Nat /\ r \in 0 .. Span - 1 /\ t \in 0 .. Span - 1
      /\ a = Span * p + r /\ b = Span * q + t
  BY <1>1
<1> HIDE DEF p, q, r, t
<1>3. Span * p \in Nat /\ Span * q \in Nat /\ Span * (q - p) = Span * q - Span * p
  BY <1>1, <1>2
<1>4. Span * (q - p) = (b - a) - (t - r) /\ Span * (q - p) \in Int
  BY <1>1, <1>2, <1>3
<1>5. q - p \in {0, 1}
  <2> DEFINE d == q - p
  <2>1. d \in Int /\ Span * d > -Span /\ Span * d < 2 * Span
    BY <1>1, <1>2, <1>4
  <2> HIDE DEF d
  <2>2. ~ (d <= -1)
    <3>1. d <= -1 => Span * d <= -Span
      BY <1>1, <2>1
    <3> QED BY <1>1, <2>1, <3>1
  <2>3. ~ (d >= 2)
    <3>1. d >= 2 => Span * d >= 2 * Span
      BY <1>1, <2>1
    <3> QED BY <1>1, <2>1, <3>1
  <2>4. d \in {0, 1}
    BY <2>1, <2>2, <2>3
  <2> QED BY <2>4 DEF d
<1>6. b - a \in 0 .. Span - 1
  BY <1>1
<1>7. CASE q - p = 0
  <2>1. t + Span - r = 1 * Span + (b - a)
    BY <1>1, <1>2, <1>4, <1>7
  <2>2. (1 * Span + (b - a)) % Span = b - a
    BY <1>1, <1>6, RemainderIs
  <2>3. (t + Span - r) % Span = b - a
    BY <2>1, <2>2
  <2> QED BY <2>3 DEF Ahead, t, r
<1>8. CASE q - p = 1
  <2>1. t + Span - r = 0 * Span + (b - a)
    BY <1>1, <1>2, <1>4, <1>8
  <2>2. (0 * Span + (b - a)) % Span = b - a
    BY <1>1, <1>6, RemainderIs
  <2>3. (t + Span - r) % Span = b - a
    BY <2>1, <2>2
  <2> QED BY <2>3 DEF Ahead, t, r
<1> QED BY <1>5, <1>7, <1>8

LEMMA NextLap == ASSUME NEW a \in Nat PROVE (a + Span) % Span = a % Span
<1> DEFINE q == a \div Span
           r == a % Span
<1>1. Span \in Nat \ {0}
  BY StatsAssumption
<1>2. q \in Nat /\ r \in 0 .. Span - 1 /\ a = Span * q + r
  BY <1>1
<1> HIDE DEF q, r
<1>3. (q + 1) * Span = Span * q + Span /\ Span * q \in Nat
  BY <1>1, <1>2
<1>4. a + Span = (q + 1) * Span + r
  BY <1>1, <1>2, <1>3
<1>5. ((q + 1) * Span + r) % Span = r
  <2>1. q + 1 \in Int
    BY <1>2
  <2> QED BY <1>1, <1>2, <2>1, RemainderIs
<1> QED BY <1>4, <1>5 DEF r

\* The ring has been moved on to second last: a slot that holds something
\* holds no more than what its second of the last lap brought.
Measured(stats, counted, last) ==
  /\ stats.index = last % Span
  /\ \A slot \in Slots :
       \/ stats.history[slot] = 0
       \/ \E s \in 0 .. last : last - s < Span /\ s % Span = slot /\ stats.history[slot] <= counted[s]

Moved(stats, counted, second) ==
  \/ stats.history = NewStats.history
  \/ \E last \in 0 .. second : second - last < Span /\ Measured(stats, counted, last)

LEMMA AdvanceMeasures ==
  ASSUME NEW stats \in Stats, NEW counted, NEW second \in Nat, Moved(stats, counted, second)
  PROVE  Measured(AdvanceHistory(stats, second), counted, second)
<1> DEFINE advanced == AdvanceHistory(stats, second)
<1>1. /\ advanced.index = second % Span
      /\ \A slot \in Slots :
           advanced.history[slot] =
             IF Ahead(stats.index, slot) \in 1 .. Ahead(stats.index, second % Span)
             THEN 0 ELSE stats.history[slot]
  BY DEF AdvanceHistory
<1> HIDE DEF advanced
<1>2. CASE stats.history = NewStats.history
  <2>1. ASSUME NEW slot \in Slots PROVE advanced.history[slot] = 0
    BY <1>1, <1>2 DEF NewStats
  <2>2. Measured(advanced, counted, second)
    BY <1>1, <2>1 DEF Measured
  <2> QED BY <2>2 DEF advanced
<1>3. CASE \E last \in 0 .. second : second - last < Span /\ Measured(stats, counted, last)
  <2>1. PICK last \in 0 .. second : second - last < Span /\ Measured(stats, counted, last)
    BY <1>3
  <2>2. Span \in Nat \ {0} /\ last \in Nat /\ last <= second
    BY StatsAssumption
  <2>3. stats.index = last % Span
    BY <2>1 DEF Measured
  <2>4. Ahead(last % Span, second % Span) = second - last
    BY <2>1, <2>2, AheadIs
  <2>5. ASSUME NEW slot \in Slots, advanced.history[slot] # 0
        PROVE  \E s \in 0 .. second :
                 second - s < Span /\ s % Span = slot /\ advanced.history[slot] <= counted[s]
    <3>1. ~ (Ahead(last % Span, slot) \in 1 .. (second - last))
      BY <1>1, <2>3, <2>4, <2>5
    <3>2. advanced.history[slot] = stats.history[slot]
      BY <1>1, <2>3, <2>4, <3>1
    <3>3. PICK s \in 0 .. last :
            last - s < Span /\ s % Span = slot /\ stats.history[slot] <= counted[s]
      BY <2>1, <2>5, <3>2 DEF Measured
    <3>4. second - s < Span
      <4>1. SUFFICES ASSUME second - s >= Span PROVE FALSE
        BY <2>2, <3>3
      <4>2. s + Span \in Nat /\ last <= s + Span /\ (s + Span) - last < Span
        BY <2>1, <2>2, <3>3, <4>1
      <4>3. Ahead(last % Span, (s + Span) % Span) = (s + Span) - last
        BY <2>2, <4>2, AheadIs
      <4>4. (s + Span) % Span = slot
        BY <2>2, <3>3, NextLap
      <4>5. (s + Span) - last \in 1 .. (second - last)
        BY <2>2, <3>3, <4>1
      <4> QED BY <3>1, <4>3, <4>4, <4>5
    <3>5. s \in 0 .. second
      BY <2>2
    <3> QED BY <3>2, <3>3, <3>4, <3>5
  <2>6. Measured(advanced, counted, second)
    BY <1>1, <2>5 DEF Measured
  <2> QED BY <2>6 DEF advanced
<1> QED BY <1>2, <1>3 DEF Moved

\* A payload is added to the slot of its second.
LEMMA RegisterMeasures ==
  ASSUME NEW stats \in Stats, NEW most \in Nat, NEW counted \in [0 .. most -> Nat],
         NEW second \in 0 .. most, NEW payload \in Nat, Moved(stats, counted, second)
  PROVE  Measured(RegisterIncoming(stats, second, payload),
                  [counted EXCEPT ![second] = @ + payload], second)
<1> DEFINE advanced   == AdvanceHistory(stats, second)
           registered == RegisterIncoming(stats, second, payload)
           measured   == [counted EXCEPT ![second] = @ + payload]
<1>1. second \in Nat /\ Span \in Nat \ {0}
  BY StatsAssumption
<1>2. advanced \in Stats /\ Measured(advanced, counted, second)
  BY <1>1, AdvanceMeasures, StatsTyped
<1>3. advanced.index = second % Span /\ advanced.index \in Slots
  BY <1>2 DEF Measured, Stats
<1>4. registered = [advanced EXCEPT !.history[advanced.index] = @ + payload]
  BY DEF RegisterIncoming
<1> HIDE DEF advanced, registered
<1>5. /\ registered.index = second % Span
      /\ \A slot \in Slots :
           registered.history[slot] =
             IF slot = second % Span THEN advanced.history[slot] + payload ELSE advanced.history[slot]
  BY <1>2, <1>3, <1>4 DEF Stats
<1>6. /\ counted[second] \in Nat /\ measured[second] = counted[second] + payload
      /\ \A s \in 0 .. second : measured[s] >= counted[s] /\ counted[s] \in Nat /\ measured[s] \in Nat
  BY <1>1
<1> HIDE DEF measured
<1>7. ASSUME NEW slot \in Slots, registered.history[slot] # 0
      PROVE  \E s \in 0 .. second :
               second - s < Span /\ s % Span = slot /\ registered.history[slot] <= measured[s]
  <2>1. advanced.history[slot] \in Nat
    BY <1>2 DEF Stats
  <2>2. CASE slot = second % Span
    <3>1. advanced.history[slot] <= counted[second]
      <4>1. CASE advanced.history[slot] = 0
        BY <1>6, <4>1
      <4>2. CASE advanced.history[slot] # 0
        <5>1. PICK s \in 0 .. second :
                second - s < Span /\ s % Span = slot /\ advanced.history[slot] <= counted[s]
          BY <1>2, <4>2 DEF Measured
        <5>2. s \in Nat /\ s <= second
          BY <1>1
        <5>3. Ahead(s % Span, second % Span) = second - s
          BY <1>1, <5>1, <5>2, AheadIs
        <5>4. Ahead(second % Span, second % Span) = second - second
          BY <1>1, AheadIs
        <5>5. s = second
          BY <1>1, <2>2, <5>1, <5>2, <5>3, <5>4
        <5> QED BY <5>1, <5>5
      <4> QED BY <4>1, <4>2
    <3>2. registered.history[slot] <= measured[second]
      BY <1>5, <1>6, <2>1, <2>2, <3>1
    <3>3. second \in 0 .. second /\ second - second < Span
      BY <1>1
    <3> QED BY <2>2, <3>2, <3>3
  <2>3. CASE slot # second % Span
    <3>1. PICK s \in 0 .. second :
            second - s < Span /\ s % Span = slot /\ advanced.history[slot] <= counted[s]
      BY <1>2, <1>5, <1>7, <2>3 DEF Measured
    <3>2. registered.history[slot] <= measured[s]
      BY <1>5, <1>6, <2>1, <2>3, <3>1
    <3> QED BY <3>1, <3>2
  <2> QED BY <2>2, <2>3
<1>8. Measured(registered, measured, second)
  BY <1>5, <1>7 DEF Measured
<1> QED BY <1>8 DEF registered, measured

\* An average above the limit comes from a second above it.
LEMMA ViolationMeasured ==
  ASSUME NEW stats \in Stats, NEW counted, NEW second \in Nat, Measured(stats, counted, second),
         \A s \in 0 .. second : counted[s] \in Nat,
         NEW limit \in Nat, BandwidthMinute(stats) * 8 > limit
  PROVE  \E s \in 0 .. second : second - s < Span /\ counted[s] * 8 > limit
<1> DEFINE m == limit \div 8
           r == limit % 8
<1>1. m \in Nat /\ r \in 0 .. 7 /\ limit = 8 * m + r
  OBVIOUS
<1> HIDE DEF m, r
<1>2. ~ \A slot \in Slots : stats.history[slot] <= m
  <2>1. SUFFICES ASSUME \A slot \in Slots : stats.history[slot] <= m PROVE FALSE
    OBVIOUS
  <2>2. BandwidthMinute(stats) \in Nat /\ BandwidthMinute(stats) <= m
    BY <1>1, <2>1, MinuteBounded
  <2> QED BY <1>1, <2>2
<1>3. PICK slot \in Slots : ~ (stats.history[slot] <= m)
  BY <1>2
<1>4. stats.history[slot] \in Nat
  BY DEF Stats
<1>5. PICK s \in 0 .. second : second - s < Span /\ stats.history[slot] <= counted[s]
  BY <1>1, <1>3, <1>4 DEF Measured
<1>6. counted[s] * 8 > limit
  BY <1>1, <1>3, <1>4, <1>5
<1> QED BY <1>5, <1>6

-----------------------------------------------------------------------------
(***************************************************************************)
(* The ring of a receiver that is read, and when it was moved on.          *)
(***************************************************************************)
Zero == statistics.history = NewStats.history

\* The watcher is at most one interval ahead, and behind by no more than the
\* application was late.
Timed ==
  /\ watch \in Nat \cup {NoLimit} /\ bytes \in [0 .. MaxTime -> Nat]
  /\ handle \in {"none", "queued"} => watch = NoLimit /\ Zero /\ pc = "app"
  /\ pc \in {"timers", "channel"} => watch # NoLimit
  /\ handle = "held" /\ watch # NoLimit => watch <= now + WatchInterval /\ now <= watch + late

\* The ring was moved on not longer ago than the watcher's last interval began.
Ring ==
  handle = "held" =>
    \/ Zero
    \/ /\ watch # NoLimit
       /\ \E last \in 0 .. now : watch <= last + WatchInterval /\ Measured(statistics, bytes, last)

Metered == Timed /\ Ring

LEMMA PeerMetered ==
  ASSUME Inv, Metered, PeerSignals \/ PeerPoll PROVE Metered'
<1>1. /\ UNCHANGED <<clock, pc, receiver, bytes>>
      /\ \/ handle' = handle
         \/ handle = "none" /\ handle' = "queued"
         \/ handle = "queued" /\ handle' = "held"
  BY DEF PeerSignals, AddStream, RemoveStream, FlushControl, PeerPoll, PollQueued,
         PollStreamReceiver, ReceiveRtp, ReceiveRtcp, Inv, Unused
<1>2. Timed'
  BY <1>1 DEF Metered, Timed, Zero
<1>3. Ring'
  BY <1>1 DEF Metered, Timed, Ring, Zero
<1> QED BY <1>2, <1>3 DEF Metered

\* The receiver is given up, or a step leaves the measurement alone.
LEMMA LeftMetered ==
  ASSUME Inv, Metered,
         \/ DropReceiver \/ TakeEnd
         \/ PollEventQueue \/ PollDataLost \/ PollChannel \/ SkipControl \/ ReceiverSleeps
  PROVE  Metered'
<1>1. /\ UNCHANGED <<clock, statistics, watch, bytes>>
      /\ handle' \in {handle, "dropped", "ended"}
      /\ handle \in {"none", "queued"} => handle' = "dropped"
      /\ pc' \in {"timers", "channel"} => pc \in {"timers", "channel"}
  BY DEF DropReceiver, TakeEnd, PollEventQueue, PollDataLost, PollChannel, SkipControl,
         ReceiverSleeps, Return, Inv, Polling
<1>2. Timed'
  BY <1>1 DEF Metered, Timed, Zero
<1>3. Ring'
  BY <1>1 DEF Metered, Ring, Zero
<1> QED BY <1>2, <1>3 DEF Metered

\* An announcement or a bye restarts the measurement.
LEMMA RestartMetered ==
  ASSUME Inv, Metered, UNCHANGED <<clock, handle>>, handle = "held",
         statistics'.history = NewStats.history, bytes' = NothingMeasured, watch' = watch,
         pc' \in {"timers", "channel"} => pc \in {"timers", "channel"}
  PROVE  Metered'
<1>1. bytes' \in [0 .. MaxTime -> Nat]
  BY DEF NothingMeasured
<1>2. Timed'
  BY <1>1 DEF Metered, Timed
<1>3. Ring'
  BY DEF Ring, Zero
<1> QED BY <1>2, <1>3 DEF Metered

LEMMA PollTimersMetered == ASSUME Inv, Metered, PollTimers PROVE Metered'
<1>1. /\ handle = "held" /\ watch' = IF watch = NoLimit THEN now ELSE watch
      /\ UNCHANGED <<clock, handle, statistics, bytes>> /\ pc' = "timers"
  BY DEF PollTimers
<1>2. now \in Nat /\ late \in Nat /\ WatchInterval \in Nat
  BY ReceiverAssumption DEF Inv, Typed, TypeOK
<1>3. Timed'
  BY <1>1, <1>2 DEF Metered, Timed, NoLimit
<1>4. Ring'
  BY <1>1 DEF Metered, Ring, Zero
<1> QED BY <1>3, <1>4 DEF Metered

\* The ring has not been left alone for a whole lap.
LEMMA MovedInTime ==
  ASSUME Inv, Metered, handle = "held"
  PROVE  Moved(statistics, bytes, now)
<1>1. CASE Zero
  BY <1>1 DEF Zero, Moved
<1>2. CASE ~Zero
  <2>1. PICK last \in 0 .. now :
          watch <= last + WatchInterval /\ Measured(statistics, bytes, last)
    BY <1>2 DEF Metered, Ring
  <2>2. watch \in Nat /\ now <= watch + late
    BY <1>2 DEF Metered, Ring, Timed
  <2>3. now \in Nat /\ late \in Nat /\ late <= MaxLate
    BY ReceiverAssumption DEF Inv, Typed, TypeOK
  <2>4. /\ Span \in Nat /\ WatchInterval \in Nat /\ MaxLate \in Nat
        /\ WatchInterval + MaxLate < Span
    BY ReceiverAssumption, StatsAssumption
  <2>5. now - last < Span
    BY <2>1, <2>2, <2>3, <2>4
  <2> QED BY <2>1, <2>5 DEF Moved
<1> QED BY <1>1, <1>2

LEMMA WatchMetered ==
  ASSUME Inv, Metered, WatchBandwidth
  PROVE  /\ Metered'
         /\ Measured(AdvanceHistory(statistics, now), bytes, now)
<1> DEFINE ticked == AdvanceHistory(statistics, now)
<1>1. /\ handle = "held" /\ pc = "timers" /\ watch <= now /\ watch' = watch + WatchInterval
      /\ UNCHANGED <<clock, handle>>
      /\ \/ statistics' = ticked /\ bytes' = bytes
         \/ statistics' = ResetBandwidth(ticked) /\ bytes' = NothingMeasured
  BY DEF WatchBandwidth, SendRemb, Inv, Polling
<1>2. statistics \in Stats /\ now \in Nat /\ late \in Nat /\ WatchInterval \in Nat
  BY ReceiverAssumption DEF Inv, Typed, TypeOK
<1>3. Measured(ticked, bytes, now)
  BY <1>1, <1>2, MovedInTime, AdvanceMeasures
<1>4. ResetBandwidth(ticked).history = NewStats.history
  <2>1. ticked \in Stats /\ 0 \in Nat
    BY <1>2, StatsTyped
  <2> QED BY <2>1, StatsTyped
<1> HIDE DEF ticked
<1>5. watch \in Nat /\ now <= watch + late
  BY <1>1 DEF Metered, Timed
<1>6. watch' \in Nat /\ watch' # NoLimit /\ watch' <= now + WatchInterval /\ now <= watch' + late
  BY <1>1, <1>2, <1>5 DEF NoLimit
<1>7. bytes' \in [0 .. MaxTime -> Nat]
  BY <1>1 DEF NothingMeasured, Metered, Timed
<1>8. Timed'
  BY <1>1, <1>6, <1>7 DEF Timed
<1>9. Ring'
  <2>1. CASE statistics' = ticked /\ bytes' = bytes
    <3>1. now \in 0 .. now
      BY <1>2
    <3>2. Measured(statistics', bytes', now)
      BY <1>3, <2>1
    <3> QED BY <1>1, <1>6, <3>1, <3>2 DEF Ring
  <2>2. CASE statistics' = ResetBandwidth(ticked)
    BY <1>4, <2>2 DEF Ring, Zero
  <2> QED BY <1>1, <2>1, <2>2
<1> QED BY <1>3, <1>8, <1>9 DEF Metered, ticked

LEMMA TakeRtpMetered == ASSUME Inv, Metered, TakeRtp PROVE Metered'
<1> DEFINE packet     == Head(channel)
           registered == RegisterIncoming(statistics, now, packet.payload)
           measured   == [bytes EXCEPT ![now] = @ + packet.payload]
<1>1. /\ pc = "channel" /\ channel # <<>> /\ IsRtp(packet) /\ pc' = "app"
      /\ UNCHANGED <<clock, handle, watch>>
      /\ \/ statistics' = registered /\ bytes' = measured
         \/ statistics' = ResetBandwidth(registered) /\ bytes' = NothingMeasured
  BY DEF TakeRtp, IsRtp, Return, SendRemb
<1>2. handle = "held" /\ packet.payload \in Payloads
  BY <1>1, HeadTaken
<1>3. packet.payload \in Nat
  <2> HIDE DEF packet
  <2> QED BY <1>2, ReceiverAssumption
<1>4. /\ statistics \in Stats /\ now \in 0 .. MaxTime /\ now \in Nat /\ MaxTime \in Nat
      /\ bytes \in [0 .. MaxTime -> Nat]
  BY ReceiverAssumption DEF Inv, Typed, TypeOK, Metered, Timed
<1>5. Measured(registered, measured, now)
  <2>1. Moved(statistics, bytes, now)
    BY <1>2, MovedInTime
  <2> HIDE DEF packet
  <2> QED BY <1>3, <1>4, <2>1, RegisterMeasures
<1>6. ResetBandwidth(registered).history = NewStats.history
  <2>1. registered \in Stats /\ 0 \in Nat
    <3> HIDE DEF packet
    <3> QED BY <1>3, <1>4, StatsTyped
  <2> HIDE DEF registered
  <2> QED BY <2>1, StatsTyped
<1>7. measured \in [0 .. MaxTime -> Nat] /\ NothingMeasured \in [0 .. MaxTime -> Nat]
  <2>1. bytes[now] + packet.payload \in Nat
    BY <1>3, <1>4
  <2> QED BY <1>4, <2>1 DEF NothingMeasured
<1> HIDE DEF packet, registered, measured
<1>8. Timed'
  BY <1>1, <1>2, <1>7 DEF Metered, Timed
<1>9. Ring'
  <2>1. CASE statistics' = registered /\ bytes' = measured
    <3>1. now \in 0 .. now /\ Measured(statistics', bytes', now)
      BY <1>4, <1>5, <2>1
    <3>2. watch # NoLimit /\ watch <= now + WatchInterval
      BY <1>1, <1>2 DEF Metered, Timed
    <3> QED BY <1>1, <3>1, <3>2 DEF Ring
  <2>2. CASE statistics' = ResetBandwidth(registered)
    BY <1>6, <2>2 DEF Ring, Zero
  <2> QED BY <1>1, <2>1, <2>2
<1> QED BY <1>8, <1>9 DEF Metered

LEMMA TickMetered == ASSUME Inv, Metered, Tick PROVE Metered'
<1>1. /\ pc \in {"app", "idle"} /\ now' = now + 1
      /\ UNCHANGED <<handle, pc, statistics, watch, bytes>>
      /\ late' = IF handle = "held" /\ (pc = "app" \/ Woken) THEN late + 1 ELSE late
  BY DEF Tick
<1>2. now \in Nat /\ late \in Nat /\ WatchInterval \in Nat
  BY ReceiverAssumption DEF Inv, Typed, TypeOK
<1>3. handle = "held" /\ watch # NoLimit => now' <= watch + late'
  <2> SUFFICES ASSUME handle = "held", watch # NoLimit PROVE now' <= watch + late'
    OBVIOUS
  <2>1. watch \in Nat /\ now <= watch + late
    BY DEF Metered, Timed
  <2>2. watch <= now => late' = late + 1
    BY <1>1 DEF Woken
  <2>3. late' \in {late, late + 1}
    BY <1>1
  <2> QED BY <1>1, <1>2, <2>1, <2>2, <2>3
<1>4. Timed'
  <2>1. handle = "held" /\ watch # NoLimit => watch <= now' + WatchInterval
    BY <1>1, <1>2 DEF Metered, Timed
  <2> QED BY <1>1, <1>3, <2>1 DEF Metered, Timed, Zero
<1>5. Ring'
  <2>1. 0 .. now \subseteq 0 .. now'
    BY <1>1, <1>2
  <2> QED BY <1>1, <2>1 DEF Metered, Ring, Zero
<1> QED BY <1>4, <1>5 DEF Metered

LEMMA NextMetered == Inv /\ Metered /\ [Next]_vars => Metered'
<1> SUFFICES ASSUME Inv, Metered, [Next]_vars PROVE Metered'
  OBVIOUS
<1>1. CASE UNCHANGED vars
  BY <1>1 DEF vars, Metered, Timed, Ring, Zero
<1>2. CASE SetBandwidthLimit \/ TakeBye
  <2>1. /\ UNCHANGED <<clock, handle, watch>> /\ handle = "held"
        /\ statistics' = ResetBandwidth(statistics) /\ bytes' = NothingMeasured
        /\ pc' \in {"timers", "channel"} => pc \in {"timers", "channel"}
    BY <1>2 DEF SetBandwidthLimit, SendRemb, TakeBye, Return, Inv, Polling
  <2>2. statistics \in Stats /\ 0 \in Nat
    BY DEF Inv, Typed, TypeOK
  <2>3. statistics'.history = NewStats.history
    BY <2>1, <2>2, StatsTyped
  <2> QED BY <2>1, <2>3, RestartMetered
<1>3. CASE ReceiverPoll /\ ~TakeBye
  BY <1>3, LeftMetered, PollTimersMetered, WatchMetered, TakeRtpMetered DEF ReceiverPoll
<1> QED BY <1>1, <1>2, <1>3, PeerMetered, LeftMetered, TickMetered DEF Next

LEMMA InitMetered == Init => Metered
<1> SUFFICES ASSUME Init PROVE Metered
  OBVIOUS
<1>1. bytes \in [0 .. MaxTime -> Nat] /\ watch = NoLimit /\ statistics = NewStats
      /\ handle = "none" /\ pc = "app"
  BY DEF Init, NewReceiver, NothingMeasured
<1> QED BY <1>1 DEF Metered, Timed, Ring, Zero

\* A violation is reported only of a stream that brought more than the limit in
\* one of the seconds the ring still covers, and since the limit was last
\* announced (receiver.rs:225-239, receiver_stats.rs:38-68, 94-107).
THEOREM ViolationsAreTrue == Spec => ViolationsTrue
<1> DEFINE Real ==
      Violated =>
        \E second \in 0 .. now : now - second < Span /\ bytes[second] * 8 > bandwidth_limit
<1>1. Inv /\ Metered /\ [Next]_vars => [Real]_vars
  <2> SUFFICES ASSUME Inv, Metered, [Next]_vars, Violated
               PROVE  \E second \in 0 .. now : now - second < Span /\ bytes[second] * 8 > bandwidth_limit
    OBVIOUS
  <2> DEFINE ticked == AdvanceHistory(statistics, now)
  <2>1. pc = "timers" /\ pc' = "app"
    BY DEF Violated
  <2>2. WatchBandwidth
    BY <2>1 DEF Next, Tick, PeerSignals, AddStream, RemoveStream, FlushControl,
       PeerPoll, PollQueued, PollStreamReceiver, ReceiveRtp, ReceiveRtcp, SetBandwidthLimit,
       DropReceiver, ReceiverPoll, PollEventQueue, PollDataLost, PollTimers, PollChannel,
       TakeRtp, TakeBye, SkipControl, TakeEnd, ReceiverSleeps, vars
  <2>3. bandwidth_limit # NoLimit /\ BandwidthMinute(ticked) * 8 > bandwidth_limit
    BY <2>1, <2>2 DEF WatchBandwidth
  <2>4. bandwidth_limit \in Nat
    BY <2>3, ReceiverAssumption DEF Inv, Typed, TypeOK
  <2>5. statistics \in Stats /\ now \in Nat /\ now <= MaxTime /\ bytes \in [0 .. MaxTime -> Nat]
    BY ReceiverAssumption DEF Inv, Typed, TypeOK, Metered, Timed
  <2>6. Measured(ticked, bytes, now) /\ ticked \in Stats
    BY <2>2, <2>5, WatchMetered, StatsTyped
  <2>7. \A s \in 0 .. now : bytes[s] \in Nat
    BY <2>5, ReceiverAssumption
  <2> HIDE DEF ticked
  <2> QED BY <2>3, <2>4, <2>5, <2>6, <2>7, ViolationMeasured
<1>2. Spec => []Metered
  BY InitMetered, NextMetered, AlwaysInv, PTL DEF Spec
<1> QED BY <1>1, <1>2, AlwaysInv, PTL DEF Spec, ViolationsTrue
=============================================================================
