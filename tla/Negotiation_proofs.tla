------------------------- MODULE Negotiation_proofs --------------------------
(***************************************************************************)
(* Theorems about Negotiation, for every set of media, ssrcs and           *)
(* initiators.                                                             *)
(***************************************************************************)
EXTENDS Negotiation, TLAPS, FiniteSetTheorems, NaturalsInduction, WellFoundedInduction

-----------------------------------------------------------------------------
(* The two peers, the least number of a set, and what a loop computes.     *)

LEMMA TwoPeers ==
  ASSUME NEW p \in Peer
  PROVE  /\ Other(p) \in Peer /\ Other(p) # p
         /\ Other(Other(p)) = p
         /\ \A q \in Peer : q = p \/ q = Other(p)
<1>1. IsFiniteSet(Peer) /\ Cardinality(Peer) = 2
  BY NegotiationAssumption
<1>2. IsFiniteSet(Peer \ {p}) /\ Cardinality(Peer \ {p}) = 1
  BY <1>1, FS_RemoveElement
<1>3. PICK q : Peer \ {p} = {q}
  BY <1>2, FS_Singleton
<1>4. q \in Peer /\ q # p /\ \A r \in Peer : r = p \/ r = q
  BY <1>3
<1>5. Other(p) = q
  BY <1>4 DEF Other
<1>6. Other(q) = p
  BY <1>4 DEF Other
<1> QED BY <1>4, <1>5, <1>6

Before == {x \in Nat \X Nat : x[1] < x[2]}

LEMMA LeastMember ==
  ASSUME NEW T \in SUBSET Nat, T # {}
  PROVE  \E n \in T : \A m \in T : n <= m
<1>1. IsWellFoundedOn(Before, Nat)
  BY NatLessThanWellFounded DEF OpToRel, Before
<1>2. PICK n \in T : \A m \in T : ~ (<<m, n>> \in Before)
  BY <1>1, WFMin, Zenon
<1>3. ASSUME NEW m \in T PROVE n <= m
  <2>1. m \in Nat /\ n \in Nat
    OBVIOUS
  <2>2. <<m, n>> \in Nat \X Nat /\ <<m, n>>[1] = m /\ <<m, n>>[2] = n
    BY <2>1
  <2>3. ~ (m < n)
    BY <1>2, <2>2 DEF Before
  <2> QED BY <2>1, <2>3
<1> QED BY <1>3

LEMMA MinMember ==
  ASSUME NEW T \in SUBSET Nat, T # {}
  PROVE  Min(T) \in T
<1>1. PICK n \in T : \A m \in T : n <= m
  BY LeastMember
<1>2. Min(T) \in T
  BY <1>1 DEF Min
<1> QED BY <1>2

Iterates(f, a, step, n) ==
  /\ f[0] = a
  /\ \A k \in 1 .. n : f[k] = step[k][f[k - 1]]

\* A loop of n steps on the values of S.
LEMMA LoopExists ==
  ASSUME NEW S, NEW a \in S, NEW n \in Nat, NEW step \in [1 .. n -> [S -> S]]
  PROVE  \E f \in [0 .. n -> S] : Iterates(f, a, step, n)
<1> DEFINE Runs(m) == \E f \in [0 .. m -> S] : Iterates(f, a, step, m)
           T == {m \in Nat : m <= n /\ ~ Runs(m)}
<1>1. T = {}
  <2> SUFFICES ASSUME T # {} PROVE FALSE
    OBVIOUS
  <2>1. PICK m \in T : \A j \in T : m <= j
    <3>1. T \in SUBSET Nat
      OBVIOUS
    <3> HIDE DEF T
    <3> QED BY <3>1, LeastMember
  <2>2. m # 0
    <3> DEFINE f == [k \in 0 .. 0 |-> a]
    <3>1. f \in [0 .. 0 -> S] /\ f[0] = a /\ 1 .. 0 = {}
      OBVIOUS
    <3> HIDE DEF f
    <3>2. Runs(0)
      BY <3>1 DEF Iterates
    <3> QED BY <3>2
  <2>3. m \in Nat /\ m <= n /\ m - 1 \in Nat /\ m - 1 \notin T
    BY <2>1, <2>2
  <2>4. PICK f \in [0 .. m - 1 -> S] : Iterates(f, a, step, m - 1)
    BY <2>3
  <2> DEFINE g == [k \in 0 .. m |-> IF k = m THEN step[m][f[m - 1]] ELSE f[k]]
  <2>5. m \in 1 .. n /\ m - 1 \in 0 .. m - 1
    BY <2>2, <2>3
  <2>6. step[m][f[m - 1]] \in S
    BY <2>5
  <2>7. g \in [0 .. m -> S]
    BY <2>3, <2>6
  <2>8. g[0] = a
    BY <2>2, <2>3, <2>4 DEF Iterates
  <2>9. ASSUME NEW k \in 1 .. m PROVE g[k] = step[k][g[k - 1]]
    <3>1. g[k - 1] = f[k - 1]
      BY <2>3
    <3>2. CASE k = m
      BY <2>3, <3>1, <3>2
    <3>3. CASE k # m
      <4>1. k \in 1 .. m - 1 /\ g[k] = f[k]
        BY <2>3, <3>3
      <4> QED BY <2>4, <3>1, <4>1 DEF Iterates
    <3> QED BY <3>2, <3>3
  <2> HIDE DEF g
  <2>10. Runs(m)
    BY <2>7, <2>8, <2>9 DEF Iterates
  <2> QED BY <2>10
<1>2. n \notin T
  BY <1>1
<1> QED BY <1>2
-----------------------------------------------------------------------------
(***************************************************************************)
(* What holds of each PeerConnection.                                      *)
(***************************************************************************)
Medium == [type : Media \cup {Application}, streams : SUBSET Streams]

Partial(D, S) == UNION {[E -> S] : E \in SUBSET D}

PeerRecord ==
  [signalling_state : SignallingState, lines : Seq(Line), senders : Partial(Streams, Sender),
   receivers : Partial(Streams, Nat), channel : BOOLEAN, owner : Nat, made : Nat]

Belongs(p, pc) == DOMAIN pc.senders \subseteq Ssrc[p] /\ DOMAIN pc.receivers \subseteq Ssrc[Other(p)]

\* The ids are those of made lines, each once.
Distinct(pc) ==
  /\ \A i \in DOMAIN pc.lines : pc.lines[i].id <= pc.made
  /\ \A i, j \in DOMAIN pc.lines : pc.lines[i].id = pc.lines[j].id => i = j
  /\ pc.owner <= pc.made

\* The indexes are 1 .. n, each once.
Places(pc, n) ==
  /\ \A i \in DOMAIN pc.lines : pc.lines[i].index <= n
  /\ \A k \in 1 .. n : \E i \in DOMAIN pc.lines : pc.lines[i].index = k
  /\ \A i, j \in DOMAIN pc.lines :
       pc.lines[i].index = pc.lines[j].index /\ pc.lines[i].index # NoIndex => i = j
InPlace(pc) == \E n \in Nat : Places(pc, n)

OnLine(pc) ==
  \A s \in DOMAIN pc.senders : \E i \in DOMAIN pc.lines :
    pc.lines[i].id = pc.senders[s].line /\ s \in pc.lines[i].local

\* What has not been described is pending.
Unregistered(pc) ==
  \A i \in DOMAIN pc.lines : pc.lines[i].index = NoIndex => Pending(pc.lines[i].state)

Channelled(pc) ==
  /\ pc.channel <=> \E i \in DOMAIN pc.lines : pc.lines[i].type = Application
  /\ \A i \in DOMAIN pc.lines : pc.lines[i].type = Application => pc.lines[i].local = {}

StaleSeen(pc) ==
  \A s \in DOMAIN pc.senders : pc.senders[s].stale =>
    \/ Pending(pc.senders[s].state)
    \/ \E i \in DOMAIN pc.lines :
         pc.lines[i].id = pc.senders[s].line /\ Pending(pc.lines[i].state)

Sound(p, pc) ==
  /\ pc \in PeerRecord /\ Belongs(p, pc)
  /\ Distinct(pc) /\ InPlace(pc) /\ OnLine(pc) /\ Unregistered(pc) /\ Channelled(pc)
  /\ StaleSeen(pc)

\* A registered line stays where it is.
Stays(pc, pd) ==
  /\ pd.signalling_state = pc.signalling_state
  /\ \A i \in DOMAIN pc.lines : pc.lines[i].index # NoIndex =>
       \E j \in DOMAIN pd.lines : /\ pd.lines[j].id = pc.lines[i].id
                                  /\ pd.lines[j].index = pc.lines[i].index
                                  /\ pd.lines[j].type = pc.lines[i].type

LEMMA StaysOn == \A pc : Stays(pc, pc)
BY DEF Stays

LEMMA StaysTransitive == \A pc, pd, pe : Stays(pc, pd) /\ Stays(pd, pe) => Stays(pc, pe)
BY DEF Stays

LEMMA RecordTypes ==
  ASSUME NEW pc \in PeerRecord
  PROVE  /\ pc.signalling_state \in SignallingState /\ pc.lines \in Seq(Line)
         /\ pc.senders \in Partial(Streams, Sender) /\ pc.receivers \in Partial(Streams, Nat)
         /\ pc.channel \in BOOLEAN /\ pc.owner \in Nat /\ pc.made \in Nat
         /\ Len(pc.lines) \in Nat /\ DOMAIN pc.lines = 1 .. Len(pc.lines)
         /\ \A i \in DOMAIN pc.lines : pc.lines[i] \in Line
         /\ DOMAIN pc.senders \subseteq Streams /\ DOMAIN pc.receivers \subseteq Streams
         /\ \A s \in DOMAIN pc.senders : pc.senders[s] \in Sender
         /\ \A s \in DOMAIN pc.receivers : pc.receivers[s] \in Nat
<1>1. /\ pc.signalling_state \in SignallingState /\ pc.lines \in Seq(Line)
      /\ pc.senders \in Partial(Streams, Sender) /\ pc.receivers \in Partial(Streams, Nat)
      /\ pc.channel \in BOOLEAN /\ pc.owner \in Nat /\ pc.made \in Nat
  BY DEF PeerRecord
<1>2. /\ Len(pc.lines) \in Nat /\ DOMAIN pc.lines = 1 .. Len(pc.lines)
      /\ \A i \in DOMAIN pc.lines : pc.lines[i] \in Line
  BY <1>1
<1>3. /\ DOMAIN pc.senders \subseteq Streams
      /\ \A s \in DOMAIN pc.senders : pc.senders[s] \in Sender
  BY <1>1 DEF Partial
<1>4. /\ DOMAIN pc.receivers \subseteq Streams
      /\ \A s \in DOMAIN pc.receivers : pc.receivers[s] \in Nat
  BY <1>1 DEF Partial
<1> QED BY <1>1, <1>2, <1>3, <1>4

LEMMA PartialMade ==
  ASSUME NEW D, NEW S, NEW E \in SUBSET D, NEW f \in [E -> S]
  PROVE  f \in Partial(D, S)
BY DEF Partial

\* Fields that are replaced.
LEMMA RecordMade ==
  ASSUME NEW pc \in PeerRecord
  PROVE  /\ \A v \in Seq(Line) :
              [pc EXCEPT !.lines = v] \in PeerRecord
         /\ \A w \in Partial(Streams, Sender) : [pc EXCEPT !.senders = w] \in PeerRecord
         /\ \A v \in Seq(Line), w \in Partial(Streams, Sender) :
              [pc EXCEPT !.senders = w, !.lines = v] \in PeerRecord
         /\ \A w \in Partial(Streams, Nat) : [pc EXCEPT !.receivers = w] \in PeerRecord
         /\ \A state \in SignallingState : [pc EXCEPT !.signalling_state = state] \in PeerRecord
         /\ [pc EXCEPT !.channel = TRUE] \in PeerRecord
<1>1. \A v \in Seq(Line) : [pc EXCEPT !.lines = v] \in PeerRecord
  BY DEF PeerRecord
<1>2. \A w \in Partial(Streams, Sender) : [pc EXCEPT !.senders = w] \in PeerRecord
  BY DEF PeerRecord
<1>3. \A v \in Seq(Line), w \in Partial(Streams, Sender) :
              [pc EXCEPT !.senders = w, !.lines = v] \in PeerRecord
  BY DEF PeerRecord
<1>4. \A w \in Partial(Streams, Nat) : [pc EXCEPT !.receivers = w] \in PeerRecord
  BY DEF PeerRecord
<1>5. \A state \in SignallingState : [pc EXCEPT !.signalling_state = state] \in PeerRecord
  BY DEF PeerRecord
<1>6. [pc EXCEPT !.channel = TRUE] \in PeerRecord
  BY DEF PeerRecord
<1> QED BY <1>1, <1>2, <1>3, <1>4, <1>5, <1>6

LEMMA LineFields ==
  ASSUME NEW l \in Line
  PROVE  /\ l.id \in Nat /\ l.id # 0 /\ l.type \in Media \cup {Application} /\ l.index \in Nat
         /\ l.state \in NegotiationState /\ l.codecs \in BOOLEAN
         /\ l.local \in SUBSET Streams /\ l.remote \in SUBSET Streams
BY DEF Line, NoOwner

\* The lines are those there were, changed in state, index or remote streams.
SameLines(pc, pd) ==
  /\ DOMAIN pd.lines = DOMAIN pc.lines
  /\ \A i \in DOMAIN pc.lines : /\ pd.lines[i].id = pc.lines[i].id
                                /\ pd.lines[i].type = pc.lines[i].type
                                /\ pd.lines[i].local = pc.lines[i].local
  /\ pd.made = pc.made /\ pd.owner = pc.owner /\ pd.channel = pc.channel
  /\ DOMAIN pd.senders = DOMAIN pc.senders
  /\ \A s \in DOMAIN pc.senders : pd.senders[s].line = pc.senders[s].line

LEMMA SameLinesSound ==
  ASSUME NEW pc, NEW pd, SameLines(pc, pd), Distinct(pc), OnLine(pc), Channelled(pc)
  PROVE  Distinct(pd) /\ OnLine(pd) /\ Channelled(pd)
<1>1. Distinct(pd)
  BY DEF SameLines, Distinct
<1>2. OnLine(pd)
  BY DEF SameLines, OnLine
<1>3. Channelled(pd)
  BY DEF SameLines, Channelled
<1> QED BY <1>1, <1>2, <1>3

\* They keep their indexes too.
LEMMA SameIndexesSound ==
  ASSUME NEW pc, NEW pd, SameLines(pc, pd), InPlace(pc),
         \A i \in DOMAIN pc.lines : pd.lines[i].index = pc.lines[i].index,
         pd.signalling_state = pc.signalling_state
  PROVE  InPlace(pd) /\ Stays(pc, pd)
<1>1. PICK n \in Nat : Places(pc, n)
  BY DEF InPlace
<1>2. Places(pd, n)
  BY <1>1 DEF SameLines, Places
<1>3. Stays(pc, pd)
  BY DEF SameLines, Stays
<1> QED BY <1>2, <1>3 DEF InPlace
-----------------------------------------------------------------------------
(* Promotion, and what is written to a description.                        *)

LEMMA PromotedIs ==
  ASSUME NEW pc \in PeerRecord, NEW ids, NEW from, NEW state \in NegotiationState
  PROVE  LET pd == Promoted(pc, ids, from, state)
         IN  /\ pd \in PeerRecord /\ SameLines(pc, pd)
             /\ pd.signalling_state = pc.signalling_state /\ pd.receivers = pc.receivers
             /\ \A i \in DOMAIN pc.lines :
                  /\ pd.lines[i].index = pc.lines[i].index
                  /\ pd.lines[i].state = IF pc.lines[i].id \in ids /\ pc.lines[i].state \in from
                                         THEN state ELSE pc.lines[i].state
             /\ \A s \in DOMAIN pc.senders :
                  /\ pd.senders[s].stale = pc.senders[s].stale
                  /\ pd.senders[s].state = IF pc.senders[s].state \in from
                                           THEN state ELSE pc.senders[s].state
<1> DEFINE v == [i \in DOMAIN pc.lines |->
                   IF pc.lines[i].id \in ids /\ pc.lines[i].state \in from
                   THEN [pc.lines[i] EXCEPT !.state = state] ELSE pc.lines[i]]
           w == [s \in DOMAIN pc.senders |->
                   IF pc.senders[s].state \in from
                   THEN [pc.senders[s] EXCEPT !.state = state] ELSE pc.senders[s]]
           pd == [pc EXCEPT !.lines = v, !.senders = w]
<1>1. pd = Promoted(pc, ids, from, state)
  BY DEF Promoted, PeerRecord
<1>2. ASSUME NEW i \in DOMAIN pc.lines
      PROVE  /\ v[i] \in Line
             /\ v[i].id = pc.lines[i].id /\ v[i].type = pc.lines[i].type
             /\ v[i].local = pc.lines[i].local /\ v[i].index = pc.lines[i].index
             /\ v[i].state = IF pc.lines[i].id \in ids /\ pc.lines[i].state \in from
                             THEN state ELSE pc.lines[i].state
  <2>1. pc.lines[i] \in Line
    BY RecordTypes
  <2> QED BY <2>1 DEF Line
<1>3. ASSUME NEW s \in DOMAIN pc.senders
      PROVE  /\ w[s] \in Sender
             /\ w[s].line = pc.senders[s].line /\ w[s].stale = pc.senders[s].stale
             /\ w[s].state = IF pc.senders[s].state \in from THEN state ELSE pc.senders[s].state
  <2>1. pc.senders[s] \in Sender
    BY RecordTypes
  <2> QED BY <2>1 DEF Sender
<1>4. DOMAIN v = DOMAIN pc.lines /\ DOMAIN w = DOMAIN pc.senders
  OBVIOUS
<1>5. v \in Seq(Line)
  <2>1. Len(pc.lines) \in Nat /\ DOMAIN pc.lines = 1 .. Len(pc.lines)
    BY RecordTypes
  <2>2. v \in [1 .. Len(pc.lines) -> Line]
    BY <1>2, <2>1
  <2> HIDE DEF v
  <2> QED BY <2>1, <2>2
<1>6. w \in Partial(Streams, Sender)
  <2>1. DOMAIN pc.senders \in SUBSET Streams
    BY RecordTypes
  <2>2. w \in [DOMAIN pc.senders -> Sender]
    BY <1>3
  <2> HIDE DEF w
  <2> QED BY <2>1, <2>2, PartialMade
<1> HIDE DEF v, w
<1>7. /\ pd \in PeerRecord /\ pd.lines = v /\ pd.senders = w
      /\ pd.signalling_state = pc.signalling_state /\ pd.receivers = pc.receivers
      /\ pd.made = pc.made /\ pd.owner = pc.owner /\ pd.channel = pc.channel
  BY <1>5, <1>6 DEF PeerRecord
<1> HIDE DEF pd
<1>8. SameLines(pc, pd)
  BY <1>2, <1>3, <1>4, <1>7 DEF SameLines
<1>9. \A i \in DOMAIN pc.lines :
        /\ pd.lines[i].index = pc.lines[i].index
        /\ pd.lines[i].state = IF pc.lines[i].id \in ids /\ pc.lines[i].state \in from
                               THEN state ELSE pc.lines[i].state
  BY <1>2, <1>7
<1>10. \A s \in DOMAIN pc.senders :
         /\ pd.senders[s].stale = pc.senders[s].stale
         /\ pd.senders[s].state = IF pc.senders[s].state \in from
                                  THEN state ELSE pc.senders[s].state
  BY <1>3, <1>7
<1>11. pd \in PeerRecord /\ pd.signalling_state = pc.signalling_state /\ pd.receivers = pc.receivers
  BY <1>7
<1> QED BY <1>1, <1>8, <1>9, <1>10, <1>11

LEMMA StateSound ==
  ASSUME NEW p \in Peer, NEW pc, Sound(p, pc), NEW state \in SignallingState
  PROVE  Sound(p, [pc EXCEPT !.signalling_state = state])
<1> DEFINE pd == [pc EXCEPT !.signalling_state = state]
<1>1. pc \in PeerRecord
  BY DEF Sound
<1>2. /\ pd \in PeerRecord
      /\ pd.lines = pc.lines /\ pd.senders = pc.senders /\ pd.receivers = pc.receivers
      /\ pd.channel = pc.channel /\ pd.owner = pc.owner /\ pd.made = pc.made
  BY <1>1 DEF PeerRecord
<1> HIDE DEF pd
<1>3. Belongs(p, pd) /\ Distinct(pd) /\ InPlace(pd)
  BY <1>2 DEF Sound, Belongs, Distinct, InPlace, Places
<1>4. OnLine(pd) /\ Unregistered(pd) /\ Channelled(pd) /\ StaleSeen(pd)
  BY <1>2 DEF Sound, OnLine, Unregistered, Channelled, StaleSeen
<1>5. Sound(p, pd)
  BY <1>2, <1>3, <1>4 DEF Sound
<1> QED BY <1>5 DEF pd

\* What keeps the pending states of what is not described stays sound.
LEMMA PromotedSound ==
  ASSUME NEW p \in Peer, NEW pc, Sound(p, pc), NEW ids, NEW from, NEW state \in NegotiationState,
         Unregistered(Promoted(pc, ids, from, state)), StaleSeen(Promoted(pc, ids, from, state))
  PROVE  Sound(p, Promoted(pc, ids, from, state)) /\ Stays(pc, Promoted(pc, ids, from, state))
<1> DEFINE pd == Promoted(pc, ids, from, state)
<1>1. pc \in PeerRecord /\ Distinct(pc) /\ InPlace(pc) /\ OnLine(pc) /\ Channelled(pc) /\ Belongs(p, pc)
  BY DEF Sound
<1>2. /\ pd \in PeerRecord /\ SameLines(pc, pd)
      /\ pd.signalling_state = pc.signalling_state /\ pd.receivers = pc.receivers
      /\ \A i \in DOMAIN pc.lines : pd.lines[i].index = pc.lines[i].index
  BY <1>1, PromotedIs
<1>3. Unregistered(pd) /\ StaleSeen(pd)
  OBVIOUS
<1> HIDE DEF pd
<1>4. Distinct(pd) /\ OnLine(pd) /\ Channelled(pd)
  BY <1>1, <1>2, SameLinesSound
<1>5. InPlace(pd) /\ Stays(pc, pd)
  BY <1>1, <1>2, SameIndexesSound
<1>6. Belongs(p, pd)
  BY <1>1, <1>2 DEF Belongs, SameLines
<1>7. Sound(p, pd)
  BY <1>2, <1>3, <1>4, <1>5, <1>6 DEF Sound
<1> QED BY <1>5, <1>7 DEF pd

\* An answer settles what was propagated: what is pending stays so.
LEMMA SettledSound ==
  ASSUME NEW p \in Peer, NEW pc, Sound(p, pc)
  PROVE  LET pd == Promoted(pc, LineIds(Range(pc.lines)), {"Propagated"}, "Negotiated")
         IN  Sound(p, pd) /\ Stays(pc, pd)
<1> DEFINE ids == LineIds(Range(pc.lines))
           pd == Promoted(pc, ids, {"Propagated"}, "Negotiated")
<1>1. pc \in PeerRecord /\ "Negotiated" \in NegotiationState
  BY DEF Sound, NegotiationState
<1> HIDE DEF ids
<1>2. /\ SameLines(pc, pd)
      /\ \A i \in DOMAIN pc.lines :
           /\ pd.lines[i].index = pc.lines[i].index
           /\ Pending(pc.lines[i].state) => Pending(pd.lines[i].state)
      /\ \A s \in DOMAIN pc.senders :
           /\ pd.senders[s].stale = pc.senders[s].stale
           /\ Pending(pc.senders[s].state) => Pending(pd.senders[s].state)
  BY <1>1, PromotedIs DEF Pending
<1> HIDE DEF pd
<1>3. Unregistered(pd)
  BY <1>2 DEF Sound, SameLines, Unregistered
<1>4. StaleSeen(pd)
  BY <1>2 DEF Sound, SameLines, StaleSeen
<1> QED BY <1>1, <1>3, <1>4, PromotedSound DEF pd, ids
\* After write_sdp no registered line has a sender with a change that was not
\* written, and an offer registers all lines.
Ready(pc, mode) ==
  /\ \A s \in DOMAIN pc.senders, i \in DOMAIN pc.lines :
       pc.lines[i].id = pc.senders[s].line /\ pc.lines[i].index # NoIndex => ~pc.senders[s].stale
  /\ mode = "offer" => \A i \in DOMAIN pc.lines : pc.lines[i].index # NoIndex

LEMMA RegisteredIds ==
  ASSUME NEW pc \in PeerRecord, Distinct(pc), NEW i \in DOMAIN pc.lines
  PROVE  pc.lines[i].id \in LineIds(Registered(pc)) <=> pc.lines[i].index # NoIndex
BY DEF LineIds, Registered, Range, Distinct

LEMMA OfferPromotedSound ==
  ASSUME NEW p \in Peer, NEW pc, Sound(p, pc), Ready(pc, "offer")
  PROVE  LET pd == Promoted(pc, LineIds(Registered(pc)), {"None", "Changed"}, "Propagated")
         IN  Sound(p, pd) /\ Stays(pc, pd)
<1> DEFINE ids == LineIds(Registered(pc))
           pd == Promoted(pc, ids, {"None", "Changed"}, "Propagated")
<1>1. pc \in PeerRecord /\ "Propagated" \in NegotiationState
  BY DEF Sound, NegotiationState
<1> HIDE DEF ids
<1>2. /\ SameLines(pc, pd)
      /\ \A i \in DOMAIN pc.lines : pd.lines[i].index = pc.lines[i].index
      /\ \A s \in DOMAIN pc.senders : pd.senders[s].stale = pc.senders[s].stale
  BY <1>1, PromotedIs
<1> HIDE DEF pd
<1>3. Unregistered(pd)
  BY <1>2 DEF SameLines, Unregistered, Ready
<1>4. \A s \in DOMAIN pc.senders : ~pc.senders[s].stale
  BY DEF Sound, OnLine, Ready
<1>5. StaleSeen(pd)
  BY <1>2, <1>4 DEF SameLines, StaleSeen
<1> QED BY <1>1, <1>3, <1>5, PromotedSound DEF pd, ids

LEMMA AnswerPromotedSound ==
  ASSUME NEW p \in Peer, NEW pc, Sound(p, pc), Ready(pc, "answer")
  PROVE  LET pd == Promoted(pc, LineIds(Registered(pc)), NegotiationState, "Negotiated")
         IN  Sound(p, pd) /\ Stays(pc, pd)
<1> DEFINE ids == LineIds(Registered(pc))
           pd == Promoted(pc, ids, NegotiationState, "Negotiated")
<1>1. pc \in PeerRecord /\ Distinct(pc) /\ "Negotiated" \in NegotiationState
  BY DEF Sound, NegotiationState
<1>2. \A i \in DOMAIN pc.lines : pc.lines[i].id \in ids <=> pc.lines[i].index # NoIndex
  BY <1>1, RegisteredIds
<1> HIDE DEF ids
<1>3. /\ SameLines(pc, pd)
      /\ \A i \in DOMAIN pc.lines :
           /\ pd.lines[i].index = pc.lines[i].index
           /\ pc.lines[i].id \notin ids => pd.lines[i].state = pc.lines[i].state
      /\ \A s \in DOMAIN pc.senders : pd.senders[s].stale = pc.senders[s].stale
  BY <1>1, PromotedIs
<1> HIDE DEF pd
<1>4. Unregistered(pd)
  BY <1>2, <1>3 DEF Sound, SameLines, Unregistered
<1>5. ASSUME NEW s \in DOMAIN pc.senders, pc.senders[s].stale
      PROVE  \E i \in DOMAIN pc.lines :
               pc.lines[i].id = pc.senders[s].line /\ Pending(pd.lines[i].state)
  <2>1. PICK i \in DOMAIN pc.lines : pc.lines[i].id = pc.senders[s].line
    BY DEF Sound, OnLine
  <2>2. pc.lines[i].index = NoIndex
    BY <1>5, <2>1 DEF Ready
  <2>3. Pending(pc.lines[i].state)
    BY <2>2 DEF Sound, Unregistered
  <2> QED BY <1>2, <1>3, <2>1, <2>2, <2>3
<1>6. StaleSeen(pd)
  BY <1>3, <1>5 DEF SameLines, StaleSeen
<1> QED BY <1>1, <1>4, <1>6, PromotedSound DEF pd, ids

LEMMA WrittenSound ==
  ASSUME NEW p \in Peer, NEW pc, Sound(p, pc), NEW mode,
         mode = "offer" => \A i \in DOMAIN pc.lines : pc.lines[i].index # NoIndex
  PROVE  Sound(p, Written(pc)) /\ Stays(pc, Written(pc)) /\ Ready(Written(pc), mode)
<1> DEFINE w == [s \in DOMAIN pc.senders |->
                   IF \E l \in Registered(pc) : l.id = pc.senders[s].line
                   THEN [pc.senders[s] EXCEPT !.stale = FALSE] ELSE pc.senders[s]]
           pd == [pc EXCEPT !.senders = w]
<1>1. pc \in PeerRecord /\ Distinct(pc) /\ InPlace(pc) /\ OnLine(pc) /\ Channelled(pc) /\ Belongs(p, pc)
      /\ Unregistered(pc) /\ StaleSeen(pc)
  BY DEF Sound
<1>2. pd = Written(pc)
  BY <1>1 DEF Written, PeerRecord
<1>3. ASSUME NEW s \in DOMAIN pc.senders
      PROVE  /\ w[s] \in Sender
             /\ w[s].line = pc.senders[s].line /\ w[s].state = pc.senders[s].state
             /\ w[s].stale => pc.senders[s].stale
             /\ (\E i \in DOMAIN pc.lines :
                   pc.lines[i].id = pc.senders[s].line /\ pc.lines[i].index # NoIndex) => ~w[s].stale
  <2>1. pc.senders[s] \in Sender
    BY <1>1, RecordTypes
  <2>2. (\E i \in DOMAIN pc.lines :
           pc.lines[i].id = pc.senders[s].line /\ pc.lines[i].index # NoIndex)
          => \E l \in Registered(pc) : l.id = pc.senders[s].line
    BY DEF Registered, Range
  <2> QED BY <2>1, <2>2 DEF Sender
<1>4. DOMAIN w = DOMAIN pc.senders
  OBVIOUS
<1>5. w \in Partial(Streams, Sender)
  <2>1. DOMAIN pc.senders \in SUBSET Streams
    BY <1>1, RecordTypes
  <2>2. w \in [DOMAIN pc.senders -> Sender]
    BY <1>3
  <2> HIDE DEF w
  <2> QED BY <2>1, <2>2, PartialMade
<1> HIDE DEF w
<1>6. /\ pd \in PeerRecord /\ pd.lines = pc.lines /\ pd.senders = w
      /\ pd.signalling_state = pc.signalling_state /\ pd.receivers = pc.receivers
      /\ pd.made = pc.made /\ pd.owner = pc.owner /\ pd.channel = pc.channel
  BY <1>1, <1>5 DEF PeerRecord
<1> HIDE DEF pd
<1>7. SameLines(pc, pd)
  BY <1>3, <1>4, <1>6 DEF SameLines
<1>8. Distinct(pd) /\ OnLine(pd) /\ Channelled(pd)
  BY <1>1, <1>7, SameLinesSound
<1>9. InPlace(pd) /\ Stays(pc, pd)
  BY <1>1, <1>6, <1>7, SameIndexesSound
<1>10. Belongs(p, pd) /\ Unregistered(pd)
  BY <1>1, <1>4, <1>6 DEF Belongs, Unregistered
<1>11. StaleSeen(pd)
  BY <1>1, <1>3, <1>4, <1>6 DEF StaleSeen
<1>12. Ready(pd, mode)
  BY <1>3, <1>4, <1>6 DEF Ready
<1>13. Sound(p, pd)
  BY <1>6, <1>8, <1>9, <1>10, <1>11 DEF Sound
<1> QED BY <1>2, <1>9, <1>12, <1>13
-----------------------------------------------------------------------------
(* The indexes an offer assigns.                                           *)

\* The loop again, of any f that follows its steps.
LEMMA LoopTyped ==
  ASSUME NEW S, NEW a \in S, NEW n \in Nat, NEW step \in [1 .. n -> [S -> S]],
         NEW f, f[0] = a, \A k \in 1 .. n : f[k - 1] \in S => f[k] = step[k][f[k - 1]]
  PROVE  \A k \in 0 .. n : f[k] \in S
<1> DEFINE T == {k \in Nat : k <= n /\ f[k] \notin S}
<1>1. T = {}
  <2> SUFFICES ASSUME T # {} PROVE FALSE
    OBVIOUS
  <2>1. PICK k \in T : \A j \in T : k <= j
    <3>1. T \in SUBSET Nat
      OBVIOUS
    <3> HIDE DEF T
    <3> QED BY <3>1, LeastMember
  <2>2. k # 0
    OBVIOUS
  <2>3. k \in 1 .. n /\ k - 1 \in Nat /\ k - 1 \notin T /\ k - 1 <= n
    BY <2>1, <2>2
  <2>4. f[k - 1] \in S
    BY <2>3
  <2>5. f[k] = step[k][f[k - 1]] /\ step[k][f[k - 1]] \in S
    BY <2>3, <2>4
  <2> QED BY <2>1, <2>5
<1> QED BY <1>1

Counting(f, pc, first) ==
  f = [i \in 0 .. Len(pc.lines) |->
         IF i = 0 THEN first
         ELSE IF pc.lines[i].index = NoIndex THEN f[i - 1] + 1 ELSE f[i - 1]]

LEMMA AssignedFrom ==
  ASSUME NEW pc \in PeerRecord, NEW first \in Nat
  PROVE  \E f :
           /\ f[0] = first
           /\ \A i \in 1 .. Len(pc.lines) :
                f[i] = IF pc.lines[i].index = NoIndex THEN f[i - 1] + 1 ELSE f[i - 1]
           /\ \A i \in 0 .. Len(pc.lines) : f[i] \in Nat
           /\ AssignFrom(pc, first) =
                [pc EXCEPT !.lines = [i \in DOMAIN pc.lines |->
                   IF pc.lines[i].index = NoIndex THEN [pc.lines[i] EXCEPT !.index = f[i - 1]]
                   ELSE pc.lines[i]]]
<1> DEFINE n == Len(pc.lines)
           step == [k \in 1 .. n |-> [x \in Nat |-> IF pc.lines[k].index = NoIndex THEN x + 1 ELSE x]]
           f == CHOOSE f : Counting(f, pc, first)
<1>1. n \in Nat
  BY RecordTypes
<1>2. step \in [1 .. n -> [Nat -> Nat]]
  OBVIOUS
<1>3. \E g : Counting(g, pc, first)
  <2>1. PICK g \in [0 .. n -> Nat] : Iterates(g, first, step, n)
    <3> HIDE DEF n, step
    <3> QED BY <1>1, <1>2, LoopExists
  <2>2. ASSUME NEW i \in 0 .. n
        PROVE  g[i] = IF i = 0 THEN first
                      ELSE IF pc.lines[i].index = NoIndex THEN g[i - 1] + 1 ELSE g[i - 1]
    <3>1. CASE i = 0
      BY <2>1, <3>1 DEF Iterates
    <3>2. CASE i # 0
      <4>1. i \in 1 .. n /\ i - 1 \in 0 .. n
        BY <1>1, <3>2
      <4>2. g[i] = step[i][g[i - 1]] /\ g[i - 1] \in Nat
        BY <2>1, <4>1 DEF Iterates
      <4> QED BY <3>2, <4>1, <4>2
    <3> QED BY <3>1, <3>2
  <2>3. g = [i \in 0 .. n |-> g[i]]
    OBVIOUS
  <2> QED BY <2>2, <2>3 DEF Counting
<1>4. Counting(f, pc, first)
  BY <1>3, Zenon
<1>5. AssignFrom(pc, first) =
        [pc EXCEPT !.lines = [i \in DOMAIN pc.lines |->
           IF pc.lines[i].index = NoIndex THEN [pc.lines[i] EXCEPT !.index = f[i - 1]]
           ELSE pc.lines[i]]]
  BY DEF AssignFrom, Counting, PeerRecord
<1> HIDE DEF f
<1>6. \A i \in 0 .. n :
        f[i] = IF i = 0 THEN first
               ELSE IF pc.lines[i].index = NoIndex THEN f[i - 1] + 1 ELSE f[i - 1]
  BY <1>4 DEF Counting
<1>7. /\ f[0] = first
      /\ \A i \in 1 .. n :
           f[i] = IF pc.lines[i].index = NoIndex THEN f[i - 1] + 1 ELSE f[i - 1]
  <2>1. 0 \in 0 .. n /\ \A i \in 1 .. n : i \in 0 .. n /\ i # 0
    BY <1>1
  <2> QED BY <1>6, <2>1
<1>8. \A i \in 0 .. n : f[i] \in Nat
  <2>1. \A k \in 1 .. n : f[k - 1] \in Nat => f[k] = step[k][f[k - 1]]
    BY <1>7
  <2> HIDE DEF n, step
  <2> QED BY <1>1, <1>2, <1>7, <2>1, LoopTyped
<1> QED BY <1>5, <1>7, <1>8

LEMMA MaxIndex ==
  ASSUME NEW pc \in PeerRecord, NEW n \in Nat, Places(pc, n)
  PROVE  Max(Indexes(pc) \cup {NoIndex}) = n
<1> DEFINE S == Indexes(pc) \cup {NoIndex}
<1>1. \A x \in S : x \in Nat /\ x <= n
  <2>1. \A i \in DOMAIN pc.lines : pc.lines[i].index \in Nat /\ pc.lines[i].index <= n
    BY RecordTypes, LineFields DEF Places
  <2> QED BY <2>1 DEF Indexes, Registered, Range, NoIndex
<1>2. n \in S
  <2>1. CASE n = 0
    BY <2>1 DEF NoIndex
  <2>2. CASE n # 0
    <3>1. PICK i \in DOMAIN pc.lines : pc.lines[i].index = n
      <4>1. n \in 1 .. n
        BY <2>2
      <4> QED BY <4>1 DEF Places
    <3> QED BY <2>2, <3>1 DEF Indexes, Registered, Range, NoIndex
  <2> QED BY <2>1, <2>2
<1> HIDE DEF S
<1>3. \A x \in S : (\A y \in S : x >= y) => x = n
  <2> SUFFICES ASSUME NEW x \in S, \A y \in S : x >= y PROVE x = n
    OBVIOUS
  <2>1. x >= n /\ x <= n /\ x \in Nat
    BY <1>1, <1>2
  <2> QED BY <2>1
<1>4. \E x \in S : \A y \in S : x >= y
  BY <1>1, <1>2
<1>5. Max(S) = n
  BY <1>3, <1>4 DEF Max
<1> QED BY <1>5 DEF S
\* Every line has an index then, and the new ones follow the old ones.
LEMMA AssignedSound ==
  ASSUME NEW p \in Peer, NEW pc, Sound(p, pc)
  PROVE  LET pd == AssignIndexes(pc)
         IN  /\ Sound(p, pd) /\ Stays(pc, pd)
             /\ \A i \in DOMAIN pd.lines : pd.lines[i].index # NoIndex
<1>1. pc \in PeerRecord /\ Distinct(pc) /\ OnLine(pc) /\ Channelled(pc) /\ Belongs(p, pc)
      /\ Unregistered(pc) /\ StaleSeen(pc)
  BY DEF Sound
<1>2. PICK n \in Nat : Places(pc, n)
  BY DEF Sound, InPlace
<1> DEFINE N == Len(pc.lines)
           New(i) == pc.lines[i].index = NoIndex
<1>3. AssignIndexes(pc) = AssignFrom(pc, n + 1) /\ n + 1 \in Nat
  <2>1. Max(Indexes(pc) \cup {NoIndex}) = n
    BY <1>1, <1>2, MaxIndex
  <2> QED BY <2>1 DEF AssignIndexes
<1>4. PICK f :
        /\ f[0] = n + 1
        /\ \A i \in 1 .. N : f[i] = IF New(i) THEN f[i - 1] + 1 ELSE f[i - 1]
        /\ \A i \in 0 .. N : f[i] \in Nat
        /\ AssignFrom(pc, n + 1) =
             [pc EXCEPT !.lines = [i \in DOMAIN pc.lines |->
                IF New(i) THEN [pc.lines[i] EXCEPT !.index = f[i - 1]] ELSE pc.lines[i]]]
  BY <1>1, <1>3, AssignedFrom
<1> DEFINE v == [i \in DOMAIN pc.lines |->
                   IF New(i) THEN [pc.lines[i] EXCEPT !.index = f[i - 1]] ELSE pc.lines[i]]
           pd == [pc EXCEPT !.lines = v]
<1>5. AssignIndexes(pc) = pd
  BY <1>3, <1>4
<1>6. N \in Nat /\ DOMAIN pc.lines = 1 .. N
  BY <1>1, RecordTypes
\* What has been given after k lines.
<1> DEFINE Given(k) == /\ f[k] >= n + 1
                       /\ \A m \in n + 1 .. f[k] - 1 : \E j \in 1 .. k : New(j) /\ f[j - 1] = m
                       /\ \A j \in 1 .. k : New(j) => f[j - 1] < f[k]
           T == {k \in Nat : k <= N /\ ~ Given(k)}
<1>7. T = {}
  <2> SUFFICES ASSUME T # {} PROVE FALSE
    OBVIOUS
  <2>1. PICK k \in T : \A j \in T : k <= j
    <3>1. T \in SUBSET Nat
      OBVIOUS
    <3> HIDE DEF T
    <3> QED BY <3>1, LeastMember
  <2>2. k # 0
    <3>1. f[0] = n + 1 /\ 1 .. 0 = {} /\ n + 1 .. (n + 1) - 1 = {}
      BY <1>4
    <3>2. Given(0)
      BY <3>1
    <3> QED BY <3>2
  <2>3. k \in 1 .. N /\ k - 1 \in Nat /\ k - 1 \notin T /\ k - 1 <= N /\ k - 1 \in 0 .. N /\ k \in 0 .. N
    BY <1>6, <2>1, <2>2
  <2>4. Given(k - 1)
    BY <2>3
  <2>5. f[k] \in Nat /\ f[k - 1] \in Nat /\ f[k] = IF New(k) THEN f[k - 1] + 1 ELSE f[k - 1]
    BY <1>4, <2>3
  <2>6. 1 .. k = (1 .. (k - 1)) \cup {k}
    BY <2>3
  <2> HIDE DEF T
  <2>7. CASE ~New(k)
    <3>1. f[k] = f[k - 1]
      BY <2>5, <2>7
    <3>2. Given(k)
      BY <2>4, <2>6, <2>7, <3>1
    <3> QED BY <2>1, <3>2 DEF T
  <2>8. CASE New(k)
    <3>1. f[k] = f[k - 1] + 1 /\ f[k] >= n + 1
      BY <2>4, <2>5, <2>8
    <3>2. ASSUME NEW m \in n + 1 .. f[k] - 1
          PROVE  \E j \in 1 .. k : New(j) /\ f[j - 1] = m
      <4>1. CASE m = f[k - 1]
        BY <2>6, <2>8, <4>1
      <4>2. CASE m # f[k - 1]
        <5>1. m \in n + 1 .. f[k - 1] - 1
          BY <2>5, <3>1, <4>2
        <5> QED BY <2>4, <2>6, <5>1
      <4> QED BY <4>1, <4>2
    <3>3. ASSUME NEW j \in 1 .. k, New(j) PROVE f[j - 1] < f[k]
      <4>1. CASE j = k
        BY <2>5, <3>1, <4>1
      <4>2. CASE j # k
        <5>1. j \in 1 .. (k - 1) /\ j - 1 \in 0 .. N
          BY <2>3, <4>2
        <5>2. f[j - 1] < f[k - 1] /\ f[j - 1] \in Nat
          BY <1>4, <2>4, <3>3, <5>1
        <5> QED BY <2>5, <3>1, <5>2
      <4> QED BY <4>1, <4>2
    <3>4. Given(k)
      BY <3>1, <3>2, <3>3
    <3> QED BY <2>1, <3>4 DEF T
  <2> QED BY <2>7, <2>8
<1>8. \A k \in 0 .. N : Given(k)
  BY <1>6, <1>7
<1> HIDE DEF T
<1>9. ASSUME NEW i \in DOMAIN pc.lines
      PROVE  /\ v[i] \in Line
             /\ v[i].id = pc.lines[i].id /\ v[i].type = pc.lines[i].type
             /\ v[i].local = pc.lines[i].local /\ v[i].state = pc.lines[i].state
             /\ v[i].index = IF New(i) THEN f[i - 1] ELSE pc.lines[i].index
  <2>1. pc.lines[i] \in Line
    BY <1>1, RecordTypes
  <2>2. f[i - 1] \in Nat
    <3>1. i - 1 \in 0 .. N
      BY <1>6
    <3> QED BY <1>4, <3>1
  <2> QED BY <2>1, <2>2 DEF Line
<1>10. DOMAIN v = DOMAIN pc.lines
  OBVIOUS
<1>11. v \in Seq(Line)
  <2>1. v \in [1 .. N -> Line]
    BY <1>6, <1>9, <1>10
  <2> HIDE DEF v, N
  <2> QED BY <1>6, <2>1
<1> HIDE DEF v
<1>12. /\ pd \in PeerRecord /\ pd.lines = v /\ pd.senders = pc.senders
       /\ pd.signalling_state = pc.signalling_state /\ pd.receivers = pc.receivers
       /\ pd.made = pc.made /\ pd.owner = pc.owner /\ pd.channel = pc.channel
  BY <1>1, <1>11 DEF PeerRecord
<1> HIDE DEF pd
<1>13. SameLines(pc, pd)
  BY <1>9, <1>10, <1>12 DEF SameLines
<1>14. Distinct(pd) /\ OnLine(pd) /\ Channelled(pd)
  BY <1>1, <1>13, SameLinesSound
<1>15. \A i \in DOMAIN pc.lines :
         /\ pc.lines[i].index \in Nat /\ pc.lines[i].index <= n
         /\ New(i) => f[i - 1] >= n + 1 /\ f[i - 1] <= f[N] - 1 /\ f[i - 1] \in Nat
  <2> SUFFICES ASSUME NEW i \in DOMAIN pc.lines
               PROVE  /\ pc.lines[i].index \in Nat /\ pc.lines[i].index <= n
                      /\ New(i) => f[i - 1] >= n + 1 /\ f[i - 1] <= f[N] - 1 /\ f[i - 1] \in Nat
    OBVIOUS
  <2>1. pc.lines[i].index \in Nat /\ pc.lines[i].index <= n
    BY <1>1, <1>2, RecordTypes, LineFields DEF Places
  <2>2. i \in 1 .. N /\ i - 1 \in 0 .. N /\ N \in 0 .. N
    BY <1>6
  <2>3. f[i - 1] \in Nat /\ f[N] \in Nat /\ f[i - 1] >= n + 1
    BY <1>4, <1>8, <2>2
  <2>4. New(i) => f[i - 1] < f[N]
    BY <1>8, <2>2
  <2> QED BY <2>1, <2>3, <2>4
<1>16. f[N] - 1 \in Nat /\ f[N] - 1 >= n
  <2>1. N \in 0 .. N
    BY <1>6
  <2>2. f[N] \in Nat /\ f[N] >= n + 1
    BY <1>4, <1>8, <2>1
  <2> QED BY <2>2
<1>17. Places(pd, f[N] - 1)
  <2>1. ASSUME NEW i \in DOMAIN pd.lines PROVE pd.lines[i].index <= f[N] - 1
    <3>1. i \in DOMAIN pc.lines /\ pd.lines[i].index = IF New(i) THEN f[i - 1] ELSE pc.lines[i].index
      BY <1>9, <1>10, <1>12
    <3> QED BY <1>15, <1>16, <3>1
  <2>2. ASSUME NEW k \in 1 .. f[N] - 1 PROVE \E i \in DOMAIN pd.lines : pd.lines[i].index = k
    <3>1. CASE k <= n
      <4>1. k \in 1 .. n
        BY <1>16, <3>1
      <4>2. PICK i \in DOMAIN pc.lines : pc.lines[i].index = k
        BY <1>2, <4>1 DEF Places
      <4>3. ~New(i)
        BY <4>1, <4>2 DEF NoIndex
      <4> QED BY <1>9, <1>10, <1>12, <4>2, <4>3
    <3>2. CASE k > n
      <4>1. k \in n + 1 .. f[N] - 1 /\ N \in 0 .. N
        BY <1>6, <1>16, <3>2
      <4>2. PICK i \in 1 .. N : New(i) /\ f[i - 1] = k
        BY <1>8, <4>1
      <4> QED BY <1>6, <1>9, <1>10, <1>12, <4>2
    <3> QED BY <1>16, <3>1, <3>2
  <2>3. ASSUME NEW i \in DOMAIN pd.lines, NEW j \in DOMAIN pd.lines, i # j
        PROVE  pd.lines[i].index # pd.lines[j].index
    <3>1. /\ i \in DOMAIN pc.lines /\ pd.lines[i].index = IF New(i) THEN f[i - 1] ELSE pc.lines[i].index
          /\ j \in DOMAIN pc.lines /\ pd.lines[j].index = IF New(j) THEN f[j - 1] ELSE pc.lines[j].index
      BY <1>9, <1>10, <1>12
    <3>2. i \in 1 .. N /\ j \in 1 .. N /\ i - 1 \in 0 .. N /\ j - 1 \in 0 .. N
      BY <1>6, <3>1
    <3>3. CASE New(i) /\ New(j)
      <4>1. CASE i < j
        <5>1. i \in 1 .. (j - 1)
          BY <3>2, <4>1
        <5>2. f[i - 1] < f[j - 1]
          BY <1>8, <3>2, <3>3, <5>1
        <5> QED BY <1>4, <3>1, <3>2, <3>3, <5>2
      <4>2. CASE j < i
        <5>1. j \in 1 .. (i - 1)
          BY <3>2, <4>2
        <5>2. f[j - 1] < f[i - 1]
          BY <1>8, <3>2, <3>3, <5>1
        <5> QED BY <1>4, <3>1, <3>2, <3>3, <5>2
      <4> QED BY <2>3, <3>2, <4>1, <4>2
    <3>4. CASE New(i) # New(j)
      BY <1>15, <3>1, <3>4
    <3>5. CASE ~New(i) /\ ~New(j)
      BY <1>2, <2>3, <3>1, <3>5 DEF Places
    <3> QED BY <3>3, <3>4, <3>5
  <2> QED BY <2>1, <2>2, <2>3 DEF Places
<1>18. \A i \in DOMAIN pd.lines : pd.lines[i].index # NoIndex
  <2> SUFFICES ASSUME NEW i \in DOMAIN pd.lines PROVE pd.lines[i].index # NoIndex
    OBVIOUS
  <2>1. i \in DOMAIN pc.lines /\ pd.lines[i].index = IF New(i) THEN f[i - 1] ELSE pc.lines[i].index
    BY <1>9, <1>10, <1>12
  <2> QED BY <1>15, <2>1 DEF NoIndex
<1>19. InPlace(pd) /\ Belongs(p, pd) /\ Unregistered(pd)
  BY <1>1, <1>12, <1>16, <1>17, <1>18 DEF InPlace, Belongs, Unregistered
<1>20. StaleSeen(pd)
  BY <1>1, <1>9, <1>10, <1>12 DEF StaleSeen
<1>21. Stays(pc, pd)
  BY <1>9, <1>10, <1>12 DEF Stays
<1>22. Sound(p, pd)
  BY <1>12, <1>14, <1>19, <1>20 DEF Sound
<1> QED BY <1>5, <1>18, <1>21, <1>22
-----------------------------------------------------------------------------
(* The senders that are gone, and their lines.                             *)

LEMMA BereftLine ==
  ASSUME NEW pc, NEW l \in Line
  PROVE  /\ Bereft(pc, l) \in Line
         /\ Bereft(pc, l).id = l.id /\ Bereft(pc, l).type = l.type /\ Bereft(pc, l).index = l.index
         /\ Bereft(pc, l).local = l.local \ Gone(pc)
         /\ Pending(l.state) => Pending(Bereft(pc, l).state)
<1>1. CASE ~Loses(pc, l)
  <2>1. Bereft(pc, l) = l
    BY <1>1 DEF Bereft
  <2>2. l.local \cap Gone(pc) = {}
    BY <1>1 DEF Loses
  <2>3. l.local = l.local \ Gone(pc)
    BY <2>2
  <2> QED BY <2>1, <2>3
<1>2. CASE Loses(pc, l)
  <2> DEFINE state == IF l.state # "None" THEN "Changed" ELSE l.state
             b == [l EXCEPT !.local = l.local \ Gone(pc), !.state = state]
  <2>1. Bereft(pc, l) = b
    BY <1>2 DEF Bereft, Line
  <2>2. state \in NegotiationState /\ Pending(state)
    BY LineFields DEF NegotiationState, Pending
  <2> HIDE DEF state
  <2>3. l.local \ Gone(pc) \in SUBSET Streams
    BY LineFields
  <2>4. /\ b \in Line /\ b.id = l.id /\ b.type = l.type /\ b.index = l.index
        /\ b.local = l.local \ Gone(pc) /\ b.state = state
    BY <2>2, <2>3 DEF Line
  <2> QED BY <2>1, <2>2, <2>4
<1> QED BY <1>1, <1>2

Keeping(f, pc) ==
  f = [n \in 0 .. Len(pc.lines) |->
         IF n = 0 THEN <<>>
         ELSE IF Kept(pc, pc.lines[n]) THEN Append(f[n - 1], Bereft(pc, pc.lines[n]))
              ELSE f[n - 1]]

\* The lines that are left of the first k ones.
Sifted(pc, lines, k) ==
  /\ \A j \in DOMAIN lines : \E i \in 1 .. k :
       Kept(pc, pc.lines[i]) /\ lines[j] = Bereft(pc, pc.lines[i])
  /\ \A i \in 1 .. k : Kept(pc, pc.lines[i]) =>
       \E j \in DOMAIN lines : lines[j] = Bereft(pc, pc.lines[i])
  /\ \A j, m \in DOMAIN lines : lines[j].id = lines[m].id => j = m

LEMMA SiftedStep ==
  ASSUME NEW pc \in PeerRecord, Distinct(pc), NEW k \in 1 .. Len(pc.lines),
         NEW lines \in Seq(Line), Sifted(pc, lines, k - 1)
  PROVE  Sifted(pc, IF Kept(pc, pc.lines[k]) THEN Append(lines, Bereft(pc, pc.lines[k]))
                    ELSE lines, k)
<1>1. /\ k \in DOMAIN pc.lines /\ \A i \in 1 .. k : i \in DOMAIN pc.lines
      /\ 1 .. k = (1 .. (k - 1)) \cup {k} /\ k \notin 1 .. (k - 1)
  BY RecordTypes
<1>2. CASE ~Kept(pc, pc.lines[k])
  BY <1>1, <1>2 DEF Sifted
<1>3. CASE Kept(pc, pc.lines[k])
  <2> DEFINE b == Bereft(pc, pc.lines[k])
             n == Len(lines)
             more == Append(lines, b)
  <2>1. b \in Line /\ b.id = pc.lines[k].id
    BY <1>1, RecordTypes, BereftLine
  <2> HIDE DEF b
  <2>2. /\ n \in Nat /\ DOMAIN lines = 1 .. n /\ DOMAIN more = (1 .. n) \cup {n + 1}
        /\ more[n + 1] = b /\ \A j \in 1 .. n : more[j] = lines[j]
    BY <2>1
  <2> HIDE DEF more, n
  <2>3. ASSUME NEW j \in 1 .. n PROVE lines[j].id # b.id
    <3>1. PICK i \in 1 .. (k - 1) : lines[j] = Bereft(pc, pc.lines[i])
      BY <2>2 DEF Sifted
    <3>2. lines[j].id = pc.lines[i].id /\ i # k
      BY <1>1, <3>1, RecordTypes, BereftLine
    <3> QED BY <1>1, <2>1, <3>2 DEF Distinct
  <2>4. \A j \in DOMAIN more : \E i \in 1 .. k :
          Kept(pc, pc.lines[i]) /\ more[j] = Bereft(pc, pc.lines[i])
    BY <1>1, <1>3, <2>2 DEF Sifted, b
  <2>5. \A i \in 1 .. k : Kept(pc, pc.lines[i]) =>
          \E j \in DOMAIN more : more[j] = Bereft(pc, pc.lines[i])
    BY <1>1, <2>2 DEF Sifted, b
  <2>6. \A j, m \in DOMAIN more : more[j].id = more[m].id => j = m
    BY <2>2, <2>3 DEF Sifted
  <2>7. Sifted(pc, more, k)
    BY <2>4, <2>5, <2>6 DEF Sifted
  <2> QED BY <1>3, <2>7 DEF more, b
<1> QED BY <1>2, <1>3

LEMMA ClosedRemoved ==
  ASSUME NEW pc \in PeerRecord, Distinct(pc)
  PROVE  \E lines \in Seq(Line) :
           /\ Sifted(pc, lines, Len(pc.lines))
           /\ RemoveClosed(pc) =
                [pc EXCEPT !.senders = Restrict(pc.senders, DOMAIN pc.senders \ Gone(pc)),
                           !.lines = lines]
<1> DEFINE n == Len(pc.lines)
           next(k, x) == IF Kept(pc, pc.lines[k]) THEN Append(x, Bereft(pc, pc.lines[k])) ELSE x
           step == [k \in 1 .. n |-> [x \in Seq(Line) |-> next(k, x)]]
           f == CHOOSE f : Keeping(f, pc)
<1>1. n \in Nat /\ DOMAIN pc.lines = 1 .. n
  BY RecordTypes
<1>2. ASSUME NEW k \in 1 .. n, NEW x \in Seq(Line) PROVE next(k, x) \in Seq(Line)
  <2>1. Bereft(pc, pc.lines[k]) \in Line
    BY <1>1, RecordTypes, BereftLine
  <2> QED BY <2>1
<1> HIDE DEF next
<1>3. step \in [1 .. n -> [Seq(Line) -> Seq(Line)]]
  BY <1>2
<1>4. \E g : Keeping(g, pc)
  <2>1. PICK g \in [0 .. n -> Seq(Line)] : Iterates(g, <<>>, step, n)
    <3>1. <<>> \in Seq(Line)
      OBVIOUS
    <3> HIDE DEF n, step
    <3> QED BY <1>1, <1>3, <3>1, LoopExists
  <2>2. ASSUME NEW i \in 0 .. n
        PROVE  g[i] = IF i = 0 THEN <<>> ELSE next(i, g[i - 1])
    <3>1. CASE i = 0
      BY <2>1, <3>1 DEF Iterates
    <3>2. CASE i # 0
      <4>1. i \in 1 .. n /\ i - 1 \in 0 .. n
        BY <1>1, <3>2
      <4>2. g[i] = step[i][g[i - 1]] /\ g[i - 1] \in Seq(Line)
        BY <2>1, <4>1 DEF Iterates
      <4> QED BY <3>2, <4>1, <4>2
    <3> QED BY <3>1, <3>2
  <2>3. g = [i \in 0 .. n |-> g[i]]
    OBVIOUS
  <2>4. g = [i \in 0 .. n |-> IF i = 0 THEN <<>> ELSE next(i, g[i - 1])]
    BY <2>2, <2>3
  <2>5. Keeping(g, pc)
    BY <2>4 DEF Keeping, next
  <2> QED BY <2>5
<1>5. Keeping(f, pc)
  BY <1>4, Zenon
<1>6. RemoveClosed(pc) =
        [pc EXCEPT !.senders = Restrict(pc.senders, DOMAIN pc.senders \ Gone(pc)),
                   !.lines = f[n]]
  BY DEF RemoveClosed, Keeping, PeerRecord
<1> HIDE DEF f
<1>7. f[0] = <<>> /\ \A i \in 1 .. n : f[i] = next(i, f[i - 1])
  <2>1. \A i \in 0 .. n : f[i] = IF i = 0 THEN <<>> ELSE next(i, f[i - 1])
    BY <1>5 DEF Keeping, next
  <2>2. 0 \in 0 .. n /\ \A i \in 1 .. n : i \in 0 .. n /\ i # 0
    BY <1>1
  <2> QED BY <2>1, <2>2
<1>8. \A i \in 0 .. n : f[i] \in Seq(Line)
  <2>1. \A k \in 1 .. n : f[k - 1] \in Seq(Line) => f[k] = step[k][f[k - 1]]
    BY <1>7
  <2>2. f[0] \in Seq(Line)
    BY <1>7
  <2> HIDE DEF n, step
  <2> QED BY <1>1, <1>3, <2>1, <2>2, LoopTyped
<1> DEFINE T == {k \in Nat : k <= n /\ ~ Sifted(pc, f[k], k)}
<1>9. T = {}
  <2> SUFFICES ASSUME T # {} PROVE FALSE
    OBVIOUS
  <2>1. PICK k \in T : \A j \in T : k <= j
    <3>1. T \in SUBSET Nat
      OBVIOUS
    <3> HIDE DEF T
    <3> QED BY <3>1, LeastMember
  <2>2. k # 0
    <3>1. Sifted(pc, <<>>, 0)
      BY DEF Sifted
    <3> QED BY <1>7, <3>1
  <2>3. k \in 1 .. n /\ k - 1 \in Nat /\ k - 1 \notin T /\ k - 1 <= n /\ k - 1 \in 0 .. n
    BY <1>1, <2>1, <2>2
  <2>4. Sifted(pc, f[k - 1], k - 1) /\ f[k - 1] \in Seq(Line) /\ f[k] = next(k, f[k - 1])
    BY <1>7, <1>8, <2>3
  <2>5. Sifted(pc, f[k], k)
    BY <2>3, <2>4, SiftedStep DEF next
  <2> QED BY <2>5
<1>10. Sifted(pc, f[n], n) /\ f[n] \in Seq(Line)
  <2>1. n \in 0 .. n /\ n \notin T
    BY <1>1, <1>9
  <2> QED BY <1>1, <1>8, <2>1
<1> QED BY <1>6, <1>10
LEMMA ClosedSound ==
  ASSUME NEW p \in Peer, NEW pc, Sound(p, pc)
  PROVE  LET pd == RemoveClosed(pc)
         IN  /\ Sound(p, pd) /\ Stays(pc, pd)
             /\ (\A i \in DOMAIN pc.lines : pc.lines[i].index # NoIndex)
                  => \A i \in DOMAIN pd.lines : pd.lines[i].index # NoIndex
<1>1. pc \in PeerRecord /\ Distinct(pc) /\ OnLine(pc) /\ Channelled(pc) /\ Belongs(p, pc)
      /\ Unregistered(pc) /\ StaleSeen(pc)
  BY DEF Sound
<1> DEFINE n == Len(pc.lines)
           left == DOMAIN pc.senders \ Gone(pc)
           w == Restrict(pc.senders, left)
<1>2. PICK lines \in Seq(Line) :
        Sifted(pc, lines, n) /\ RemoveClosed(pc) = [pc EXCEPT !.senders = w, !.lines = lines]
  BY <1>1, ClosedRemoved
<1> DEFINE pd == [pc EXCEPT !.senders = w, !.lines = lines]
<1>3. n \in Nat /\ DOMAIN pc.lines = 1 .. n
  BY <1>1, RecordTypes
<1> HIDE DEF n
<1>4. /\ DOMAIN w = left /\ left \subseteq DOMAIN pc.senders
      /\ \A s \in left : w[s] = pc.senders[s]
  BY DEF Restrict
<1>5. w \in Partial(Streams, Sender)
  <2>1. left \in SUBSET Streams /\ \A s \in left : w[s] \in Sender
    BY <1>1, <1>4, RecordTypes
  <2>2. w \in [left -> Sender]
    BY <1>4, <2>1 DEF Restrict
  <2> HIDE DEF w, left
  <2> QED BY <2>1, <2>2, PartialMade
<1> HIDE DEF w
<1>6. /\ pd \in PeerRecord /\ pd.lines = lines /\ pd.senders = w
      /\ pd.signalling_state = pc.signalling_state /\ pd.receivers = pc.receivers
      /\ pd.made = pc.made /\ pd.owner = pc.owner /\ pd.channel = pc.channel
  BY <1>1, <1>5 DEF PeerRecord
<1> HIDE DEF pd
\* Where a line that is left comes from.
<1>7. ASSUME NEW j \in DOMAIN lines
      PROVE  \E i \in DOMAIN pc.lines :
               /\ lines[j].id = pc.lines[i].id /\ lines[j].type = pc.lines[i].type
               /\ lines[j].index = pc.lines[i].index
               /\ lines[j].local = pc.lines[i].local \ Gone(pc)
               /\ Pending(pc.lines[i].state) => Pending(lines[j].state)
  <2>1. PICK i \in DOMAIN pc.lines : lines[j] = Bereft(pc, pc.lines[i])
    BY <1>2, <1>3 DEF Sifted
  <2>2. pc.lines[i] \in Line
    BY <1>1, RecordTypes
  <2> QED BY <2>1, <2>2, BereftLine
\* Which lines are left.
<1>8. ASSUME NEW i \in DOMAIN pc.lines, Kept(pc, pc.lines[i])
      PROVE  \E j \in DOMAIN lines :
               /\ lines[j].id = pc.lines[i].id /\ lines[j].type = pc.lines[i].type
               /\ lines[j].index = pc.lines[i].index
               /\ lines[j].local = pc.lines[i].local \ Gone(pc)
               /\ Pending(pc.lines[i].state) => Pending(lines[j].state)
  <2>1. PICK j \in DOMAIN lines : lines[j] = Bereft(pc, pc.lines[i])
    BY <1>2, <1>3, <1>8 DEF Sifted
  <2>2. pc.lines[i] \in Line
    BY <1>1, RecordTypes
  <2> QED BY <2>1, <2>2, BereftLine
<1>9. \A i \in DOMAIN pc.lines : pc.lines[i].index # NoIndex => Kept(pc, pc.lines[i])
  BY DEF Kept
<1>10. \A j, m \in DOMAIN lines : lines[j].id = lines[m].id => j = m
  BY <1>2 DEF Sifted
<1>11. Distinct(pd)
  BY <1>1, <1>6, <1>7, <1>10 DEF Distinct
<1>12. InPlace(pd)
  <2>1. PICK k \in Nat : Places(pc, k)
    BY DEF Sound, InPlace
  <2>2. \A j \in DOMAIN lines : lines[j].index <= k
    BY <1>7, <2>1 DEF Places
  <2>3. ASSUME NEW m \in 1 .. k PROVE \E j \in DOMAIN lines : lines[j].index = m
    <3>1. PICK i \in DOMAIN pc.lines : pc.lines[i].index = m
      BY <2>1 DEF Places
    <3>2. Kept(pc, pc.lines[i])
      BY <1>9, <3>1 DEF NoIndex
    <3> QED BY <1>8, <3>1, <3>2
  <2>4. ASSUME NEW i \in DOMAIN lines, NEW j \in DOMAIN lines,
               lines[i].index = lines[j].index, lines[i].index # NoIndex
        PROVE  i = j
    <3>1. PICK c \in DOMAIN pc.lines :
            lines[i].id = pc.lines[c].id /\ lines[i].index = pc.lines[c].index
      BY <1>7
    <3>2. PICK d \in DOMAIN pc.lines :
            lines[j].id = pc.lines[d].id /\ lines[j].index = pc.lines[d].index
      BY <1>7
    <3>3. c = d
      BY <2>1, <2>4, <3>1, <3>2 DEF Places
    <3> QED BY <1>10, <3>1, <3>2, <3>3
  <2>5. Places(pd, k)
    BY <1>6, <2>2, <2>3, <2>4 DEF Places
  <2> QED BY <2>5 DEF InPlace
<1>13. ASSUME NEW s \in left
       PROVE  \E i \in DOMAIN pc.lines : /\ pc.lines[i].id = pc.senders[s].line
                                         /\ s \in pc.lines[i].local /\ Kept(pc, pc.lines[i])
  <2>1. PICK i \in DOMAIN pc.lines : pc.lines[i].id = pc.senders[s].line /\ s \in pc.lines[i].local
    BY <1>1, <1>4 DEF OnLine
  <2>2. s \in pc.lines[i].local \ Gone(pc)
    BY <2>1
  <2> QED BY <2>1, <2>2 DEF Kept
<1>14. OnLine(pd)
  <2> SUFFICES ASSUME NEW s \in left
               PROVE  \E j \in DOMAIN lines : lines[j].id = w[s].line /\ s \in lines[j].local
    BY <1>4, <1>6 DEF OnLine
  <2>1. PICK i \in DOMAIN pc.lines : /\ pc.lines[i].id = pc.senders[s].line
                                     /\ s \in pc.lines[i].local /\ Kept(pc, pc.lines[i])
    BY <1>13
  <2>2. PICK j \in DOMAIN lines : /\ lines[j].id = pc.lines[i].id
                                  /\ lines[j].local = pc.lines[i].local \ Gone(pc)
    BY <1>8, <2>1
  <2> QED BY <1>4, <2>1, <2>2
<1>15. Unregistered(pd)
  BY <1>1, <1>6, <1>7 DEF Unregistered
<1>16. Channelled(pd)
  <2>1. \A i \in DOMAIN pc.lines : pc.lines[i].type = Application => Kept(pc, pc.lines[i])
    BY <1>1 DEF Channelled, Kept, Loses
  <2>2. (\E i \in DOMAIN pc.lines : pc.lines[i].type = Application)
          <=> \E j \in DOMAIN lines : lines[j].type = Application
    BY <1>7, <1>8, <2>1
  <2>3. ASSUME NEW j \in DOMAIN lines, lines[j].type = Application PROVE lines[j].local = {}
    <3>1. PICK i \in DOMAIN pc.lines : /\ lines[j].type = pc.lines[i].type
                                       /\ lines[j].local = pc.lines[i].local \ Gone(pc)
      BY <1>7
    <3> QED BY <1>1, <2>3, <3>1 DEF Channelled
  <2> QED BY <1>1, <1>6, <2>2, <2>3 DEF Channelled
<1>17. StaleSeen(pd)
  <2> SUFFICES ASSUME NEW s \in left, pc.senders[s].stale, ~Pending(pc.senders[s].state)
               PROVE  \E j \in DOMAIN lines :
                        lines[j].id = pc.senders[s].line /\ Pending(lines[j].state)
    BY <1>4, <1>6 DEF StaleSeen
  <2>1. PICK i \in DOMAIN pc.lines : pc.lines[i].id = pc.senders[s].line /\ Pending(pc.lines[i].state)
    BY <1>1, <1>4 DEF StaleSeen
  <2>2. PICK c \in DOMAIN pc.lines : pc.lines[c].id = pc.senders[s].line /\ Kept(pc, pc.lines[c])
    BY <1>13
  <2>3. i = c
    BY <1>1, <2>1, <2>2 DEF Distinct
  <2> QED BY <1>8, <2>1, <2>2, <2>3
<1>18. Belongs(p, pd)
  BY <1>1, <1>4, <1>6 DEF Belongs
<1>19. Sound(p, pd)
  BY <1>6, <1>11, <1>12, <1>14, <1>15, <1>16, <1>17, <1>18 DEF Sound
<1>20. Stays(pc, pd)
  BY <1>6, <1>8, <1>9 DEF Stays
<1>21. (\A i \in DOMAIN pc.lines : pc.lines[i].index # NoIndex)
         => \A i \in DOMAIN pd.lines : pd.lines[i].index # NoIndex
  BY <1>6, <1>7
<1> QED BY <1>2, <1>19, <1>20, <1>21 DEF pd
-----------------------------------------------------------------------------
(* Lines that are added.                                                   *)

LEMMA NewLineFields ==
  ASSUME NEW id \in Nat \ {0}, NEW type \in Media \cup {Application}
  PROVE  /\ NewLine(id, type) \in Line
         /\ NewLine(id, type).id = id /\ NewLine(id, type).type = type
         /\ NewLine(id, type).index = NoIndex /\ NewLine(id, type).state = "None"
         /\ NewLine(id, type).local = {} /\ NewLine(id, type).remote = {}
BY DEF NewLine, Line, NoOwner, NoIndex, NegotiationState

LEMMA AppendedIs ==
  ASSUME NEW pc \in PeerRecord, NEW line \in Line
  PROVE  LET pd == AppendLine(pc, line)
             n  == Len(pc.lines)
         IN  /\ pd \in PeerRecord
             /\ DOMAIN pd.lines = DOMAIN pc.lines \cup {n + 1} /\ n + 1 \notin DOMAIN pc.lines
             /\ pd.lines[n + 1] = line /\ \A i \in DOMAIN pc.lines : pd.lines[i] = pc.lines[i]
             /\ pd.made = pc.made + 1 /\ pd.owner \in {pc.owner, line.id}
             /\ pd.signalling_state = pc.signalling_state /\ pd.channel = pc.channel
             /\ pd.senders = pc.senders /\ pd.receivers = pc.receivers
<1> DEFINE v == Append(pc.lines, line)
           owner == IF pc.owner = NoOwner THEN line.id ELSE pc.owner
           made == pc.made + 1
           pd == [pc EXCEPT !.lines = v, !.made = made, !.owner = owner]
           n == Len(pc.lines)
<1>1. AppendLine(pc, line) = pd
  BY DEF AppendLine, PeerRecord
<1>2. /\ pc.lines \in Seq(Line) /\ pc.made \in Nat /\ pc.owner \in Nat /\ n \in Nat
      /\ DOMAIN pc.lines = 1 .. n /\ line.id \in Nat
  BY RecordTypes, LineFields
<1>3. /\ v \in Seq(Line) /\ DOMAIN v = (1 .. n) \cup {n + 1} /\ n + 1 \notin 1 .. n
      /\ v[n + 1] = line /\ \A i \in 1 .. n : v[i] = pc.lines[i]
  BY <1>2
<1>4. owner \in Nat /\ owner \in {pc.owner, line.id} /\ made \in Nat
  BY <1>2
<1> HIDE DEF v, owner, n, made
<1>5. /\ pd \in PeerRecord /\ pd.lines = v /\ pd.made = made /\ pd.owner = owner
      /\ pd.signalling_state = pc.signalling_state /\ pd.channel = pc.channel
      /\ pd.senders = pc.senders /\ pd.receivers = pc.receivers
  BY <1>2, <1>3, <1>4 DEF PeerRecord
<1> HIDE DEF pd
<1> QED BY <1>1, <1>2, <1>3, <1>4, <1>5 DEF n, made

\* A new line of the next id, without senders; the lines of channels apart.
LEMMA AppendedSound ==
  ASSUME NEW p \in Peer, NEW pc, Sound(p, pc), NEW line \in Line,
         line.id = pc.made + 1, line.state = "None", line.local = {},
         NEW k \in Nat, line.index = NoIndex \/ (line.index = k + 1 /\ Places(pc, k))
  PROVE  LET pd == AppendLine(pc, line)
         IN  /\ pd \in PeerRecord /\ Belongs(p, pd) /\ Distinct(pd) /\ InPlace(pd) /\ OnLine(pd)
             /\ Unregistered(pd) /\ StaleSeen(pd) /\ Stays(pc, pd)
             /\ pd.channel = pc.channel
             /\ line.type # Application => Channelled(pd)
<1> DEFINE pd == AppendLine(pc, line)
           n == Len(pc.lines)
<1>1. pc \in PeerRecord /\ Distinct(pc) /\ OnLine(pc) /\ Channelled(pc) /\ Belongs(p, pc)
      /\ Unregistered(pc) /\ StaleSeen(pc)
  BY DEF Sound
<1>2. /\ pd \in PeerRecord
      /\ DOMAIN pd.lines = DOMAIN pc.lines \cup {n + 1} /\ n + 1 \notin DOMAIN pc.lines
      /\ pd.lines[n + 1] = line /\ \A i \in DOMAIN pc.lines : pd.lines[i] = pc.lines[i]
      /\ pd.made = pc.made + 1 /\ pd.owner \in {pc.owner, line.id}
      /\ pd.signalling_state = pc.signalling_state /\ pd.channel = pc.channel
      /\ pd.senders = pc.senders /\ pd.receivers = pc.receivers
  BY <1>1, AppendedIs
<1> HIDE DEF pd, n
<1>3. /\ pc.made \in Nat /\ pc.owner \in Nat
      /\ \A i \in DOMAIN pc.lines : pc.lines[i].id \in Nat /\ pc.lines[i].index \in Nat
  BY <1>1, RecordTypes, LineFields
<1>4. Distinct(pd)
  <2>1. \A i \in DOMAIN pc.lines : pc.lines[i].id <= pc.made /\ pc.lines[i].id # pc.made + 1
    BY <1>1, <1>3 DEF Distinct
  <2>2. \A i \in DOMAIN pd.lines : pd.lines[i].id <= pd.made
    BY <1>2, <1>3, <2>1
  <2>3. \A i, j \in DOMAIN pd.lines : pd.lines[i].id = pd.lines[j].id => i = j
    BY <1>1, <1>2, <2>1 DEF Distinct
  <2>4. pd.owner <= pd.made
    BY <1>1, <1>2, <1>3 DEF Distinct
  <2> QED BY <2>2, <2>3, <2>4 DEF Distinct
<1>5. InPlace(pd)
  <2>1. CASE line.index = NoIndex
    <3>1. PICK m \in Nat : Places(pc, m)
      BY DEF Sound, InPlace
    <3>2. \A i \in DOMAIN pd.lines : pd.lines[i].index <= m
      BY <1>2, <2>1, <3>1 DEF Places, NoIndex
    <3>3. \A j \in 1 .. m : \E i \in DOMAIN pd.lines : pd.lines[i].index = j
      BY <1>2, <3>1 DEF Places
    <3>4. \A i, j \in DOMAIN pd.lines :
            pd.lines[i].index = pd.lines[j].index /\ pd.lines[i].index # NoIndex => i = j
      BY <1>2, <2>1, <3>1 DEF Places
    <3>5. Places(pd, m)
      BY <3>2, <3>3, <3>4 DEF Places
    <3> QED BY <3>5 DEF InPlace
  <2>2. CASE line.index = k + 1 /\ Places(pc, k)
    <3>1. \A i \in DOMAIN pc.lines : pc.lines[i].index <= k /\ pc.lines[i].index # k + 1
      BY <1>3, <2>2 DEF Places
    <3>2. \A i \in DOMAIN pd.lines : pd.lines[i].index <= k + 1
      BY <1>2, <1>3, <2>2, <3>1
    <3>3. \A j \in 1 .. k + 1 : \E i \in DOMAIN pd.lines : pd.lines[i].index = j
      <4>1. 1 .. k + 1 = (1 .. k) \cup {k + 1}
        OBVIOUS
      <4> QED BY <1>2, <2>2, <4>1 DEF Places
    <3>4. \A i, j \in DOMAIN pd.lines :
            pd.lines[i].index = pd.lines[j].index /\ pd.lines[i].index # NoIndex => i = j
      BY <1>2, <2>2, <3>1 DEF Places
    <3>5. Places(pd, k + 1)
      BY <3>2, <3>3, <3>4 DEF Places
    <3> QED BY <3>5 DEF InPlace
  <2> QED BY <2>1, <2>2
<1>6. OnLine(pd)
  BY <1>1, <1>2 DEF OnLine
<1>7. Unregistered(pd)
  BY <1>1, <1>2 DEF Unregistered, Pending
<1>8. StaleSeen(pd)
  BY <1>1, <1>2 DEF StaleSeen
<1>9. Stays(pc, pd)
  BY <1>2 DEF Stays
<1>10. line.type # Application => Channelled(pd)
  BY <1>1, <1>2 DEF Channelled
<1>11. Belongs(p, pd)
  BY <1>1, <1>2 DEF Belongs
<1> QED BY <1>2, <1>4, <1>5, <1>6, <1>7, <1>8, <1>9, <1>10, <1>11 DEF pd

\* The line that is allocated is free, and all that was there is.
LEMMA AllocatedSound ==
  ASSUME NEW p \in Peer, NEW pc, Sound(p, pc), NEW type \in Media \cup {Application}
  PROVE  LET pd == Allocate(pc, type)
         IN  /\ pd \in PeerRecord /\ Belongs(p, pd) /\ Distinct(pd) /\ InPlace(pd) /\ OnLine(pd)
             /\ Unregistered(pd) /\ StaleSeen(pd) /\ Stays(pc, pd)
             /\ type # Application => Channelled(pd)
             /\ Min(FreeLine(pd, type)) \in FreeLine(pd, type)
             /\ \A i \in DOMAIN pd.lines : pd.lines[i].type = Application =>
                  pd.lines[i].local = {}
<1> DEFINE pd == Allocate(pc, type)
           line == NewLine(pc.made + 1, type)
<1>1. pc \in PeerRecord /\ pc.made \in Nat /\ Channelled(pc)
  BY RecordTypes DEF Sound
<1>2. /\ line \in Line /\ line.id = pc.made + 1 /\ line.type = type
      /\ line.index = NoIndex /\ line.state = "None" /\ line.local = {}
  BY <1>1, NewLineFields
<1> HIDE DEF line
<1>3. CASE FreeLine(pc, type) # {}
  <2>1. pd = pc
    BY <1>3 DEF Allocate
  <2>2. Stays(pc, pc)
    BY StaysOn
  <2>3. /\ pd \in PeerRecord /\ Belongs(p, pd) /\ Distinct(pd) /\ InPlace(pd) /\ OnLine(pd)
        /\ Unregistered(pd) /\ StaleSeen(pd) /\ Channelled(pd) /\ Stays(pc, pd)
    BY <2>1, <2>2 DEF Sound
  <2>4. FreeLine(pd, type) # {}
    BY <1>3, <2>1
  <2>5. \A i \in DOMAIN pd.lines : pd.lines[i].type = Application => pd.lines[i].local = {}
    BY <2>3 DEF Channelled
  <2>6. FreeLine(pd, type) \in SUBSET Nat
    <3>1. DOMAIN pd.lines \subseteq Nat
      BY <2>3, RecordTypes
    <3> QED BY <3>1 DEF FreeLine
  <2> QED BY <2>3, <2>4, <2>5, <2>6, MinMember
<1>4. CASE FreeLine(pc, type) = {}
  <2>1. pd = AppendLine(pc, line)
    BY <1>4 DEF Allocate, line
  <2>2. /\ pd \in PeerRecord /\ Belongs(p, pd) /\ Distinct(pd) /\ InPlace(pd) /\ OnLine(pd)
        /\ Unregistered(pd) /\ StaleSeen(pd) /\ Stays(pc, pd)
        /\ line.type # Application => Channelled(pd)
    <3>1. 0 \in Nat
      OBVIOUS
    <3> QED BY <1>2, <2>1, <3>1, AppendedSound
  <2>3. /\ DOMAIN pd.lines = DOMAIN pc.lines \cup {Len(pc.lines) + 1}
        /\ pd.lines[Len(pc.lines) + 1] = line
        /\ \A i \in DOMAIN pc.lines : pd.lines[i] = pc.lines[i]
    BY <1>1, <1>2, <2>1, AppendedIs
  <2>4. Len(pc.lines) + 1 \in FreeLine(pd, type)
    BY <1>2, <2>3 DEF FreeLine
  <2>5. \A i \in DOMAIN pd.lines : pd.lines[i].type = Application => pd.lines[i].local = {}
    BY <1>1, <1>2, <2>3 DEF Channelled
  <2>6. FreeLine(pd, type) \in SUBSET Nat
    <3>1. DOMAIN pd.lines \subseteq Nat
      BY <2>2, RecordTypes
    <3> QED BY <3>1 DEF FreeLine
  <2>7. Min(FreeLine(pd, type)) \in FreeLine(pd, type)
    BY <2>4, <2>6, MinMember
  <2> QED BY <1>2, <2>2, <2>5, <2>7
<1> QED BY <1>3, <1>4
-----------------------------------------------------------------------------
(* The media of a description that is applied.                             *)

LEMMA OwnStreams ==
  ASSUME NEW p \in Peer
  PROVE  Ssrc[p] \subseteq Streams /\ Ssrc[Other(p)] \subseteq Streams
BY TwoPeers DEF Streams

LEMMA FollowSound ==
  ASSUME NEW p \in Peer, NEW pc, Sound(p, pc), NEW line \in Line,
         line.remote \subseteq Ssrc[Other(p)]
  PROVE  LET pd == FollowStreams(pc, line)
         IN  Sound(p, pd) /\ Stays(pc, pd) /\ pd.lines = pc.lines
<1>1. pc \in PeerRecord /\ Belongs(p, pc)
  BY DEF Sound
<1> DEFINE left == {s \in DOMAIN pc.receivers : pc.receivers[s] # line.id \/ s \in line.remote}
           r == [s \in left \cup line.remote |-> IF s \in left THEN pc.receivers[s] ELSE line.id]
           pd == [pc EXCEPT !.receivers = r]
<1>2. FollowStreams(pc, line) = pd
  BY <1>1 DEF FollowStreams, PeerRecord
<1>3. DOMAIN r \subseteq Ssrc[Other(p)]
  BY <1>1 DEF Belongs
<1>4. r \in Partial(Streams, Nat)
  <2>1. line.id \in Nat /\ \A s \in DOMAIN pc.receivers : pc.receivers[s] \in Nat
    BY <1>1, RecordTypes, LineFields
  <2>2. r \in [left \cup line.remote -> Nat]
    BY <2>1
  <2>3. left \cup line.remote \in SUBSET Streams
    BY <1>3, OwnStreams
  <2> HIDE DEF r, left
  <2> QED BY <2>2, <2>3, PartialMade
<1> HIDE DEF r
<1>5. /\ pd \in PeerRecord /\ pd.receivers = r
      /\ pd.signalling_state = pc.signalling_state /\ pd.lines = pc.lines /\ pd.senders = pc.senders
      /\ pd.channel = pc.channel /\ pd.owner = pc.owner /\ pd.made = pc.made
  BY <1>1, <1>4 DEF PeerRecord
<1> HIDE DEF pd
<1>6. Belongs(p, pd)
  BY <1>1, <1>3, <1>5 DEF Belongs
<1>7. Distinct(pd) /\ InPlace(pd)
  BY <1>5 DEF Sound, Distinct, InPlace, Places
<1>8. OnLine(pd) /\ Unregistered(pd) /\ Channelled(pd) /\ StaleSeen(pd)
  BY <1>5 DEF Sound, OnLine, Unregistered, Channelled, StaleSeen
<1>9. Stays(pc, pd)
  BY <1>5 DEF Stays
<1>10. Sound(p, pd)
  BY <1>5, <1>6, <1>7, <1>8 DEF Sound
<1> QED BY <1>2, <1>5, <1>9, <1>10

\* The first k media have their lines.
Covers(pc, k) == \A j \in 1 .. k : \E i \in DOMAIN pc.lines : pc.lines[i].index = j

\* What one media may turn the state into.
Advance(p, pc, k, result) ==
  /\ result \in [ok : BOOLEAN, pc : PeerRecord]
  /\ Sound(p, result.pc) /\ Stays(pc, result.pc)
  /\ result.ok => Covers(result.pc, k)

\* The media before it have the indexes 1 .. k - 1, no line has k.
LEMMA NextPlace ==
  ASSUME NEW p \in Peer, NEW pc, Sound(p, pc), NEW k \in Nat, k # 0, Covers(pc, k - 1),
         \A i \in DOMAIN pc.lines : pc.lines[i].index # k
  PROVE  Places(pc, k - 1)
<1>1. PICK n \in Nat : Places(pc, n)
  BY DEF Sound, InPlace
<1>2. ~ (k <= n)
  <2> SUFFICES ASSUME k <= n PROVE FALSE
    OBVIOUS
  <2>1. k \in 1 .. n
    OBVIOUS
  <2> QED BY <1>1, <2>1 DEF Places
<1>3. ~ (n < k - 1)
  <2> SUFFICES ASSUME n < k - 1 PROVE FALSE
    OBVIOUS
  <2>1. n + 1 \in 1 .. k - 1
    OBVIOUS
  <2>2. PICK i \in DOMAIN pc.lines : pc.lines[i].index = n + 1
    BY <2>1 DEF Covers
  <2> QED BY <1>1, <2>2 DEF Places
<1>4. n = k - 1
  BY <1>2, <1>3
<1> QED BY <1>1, <1>4

LEMMA LineForIs ==
  ASSUME NEW pc \in PeerRecord, NEW k, NEW media, LineFor(pc, k, media) # {}
  PROVE  LET i == Min(LineFor(pc, k, media))
         IN  /\ i \in DOMAIN pc.lines
             /\ \/ pc.lines[i].index = k
                \/ /\ pc.lines[i].index = NoIndex
                   /\ \A j \in DOMAIN pc.lines : pc.lines[j].index # k
<1> DEFINE here == {i \in DOMAIN pc.lines : pc.lines[i].index = k}
           free == {i \in DOMAIN pc.lines :
                      pc.lines[i].index = NoIndex /\ pc.lines[i].type = media.type}
<1>1. DOMAIN pc.lines \subseteq Nat
  BY RecordTypes
<1>2. LineFor(pc, k, media) = IF here # {} THEN here ELSE IF free # {} THEN {Min(free)} ELSE {}
  BY DEF LineFor
<1>3. CASE here # {}
  <2>1. LineFor(pc, k, media) = here /\ here \in SUBSET Nat
    BY <1>1, <1>2, <1>3
  <2>2. Min(here) \in here
    BY <1>3, <2>1, MinMember
  <2> QED BY <2>1, <2>2
<1>4. CASE here = {}
  <2>1. free # {} /\ LineFor(pc, k, media) = {Min(free)} /\ free \in SUBSET Nat
    BY <1>1, <1>2, <1>4
  <2>2. Min(free) \in free
    BY <2>1, MinMember
  <2>3. LineFor(pc, k, media) \in SUBSET Nat
    BY <2>1, <2>2
  <2>4. Min(LineFor(pc, k, media)) \in LineFor(pc, k, media)
    BY <2>3, MinMember
  <2> QED BY <1>4, <2>1, <2>2, <2>4
<1> QED BY <1>3, <1>4
LEMMA FromSdpFields ==
  ASSUME NEW line \in Line, NEW k \in Nat, NEW media \in Medium
  PROVE  LET l == FromSdp(line, k, media)
         IN  /\ l \in Line /\ l.id = line.id /\ l.type = line.type /\ l.index = k
             /\ l.state = line.state /\ l.local = line.local /\ l.remote = media.streams
BY DEF FromSdp, Line, Medium

\* The line of a media, before its streams are followed.
LEMMA UpdatedSound ==
  ASSUME NEW p \in Peer, NEW pc, Sound(p, pc), NEW k \in Nat, k # 0, Covers(pc, k - 1),
         NEW media \in Medium, media.streams \subseteq Ssrc[Other(p)],
         LineFor(pc, k, media) # {}
  PROVE  LET i    == Min(LineFor(pc, k, media))
             line == FromSdp(pc.lines[i], k, media)
             pd   == [pc EXCEPT !.lines = [pc.lines EXCEPT ![i] = line]]
         IN  /\ Sound(p, pd) /\ Stays(pc, pd) /\ Covers(pd, k)
             /\ i \in DOMAIN pc.lines /\ line \in Line
             /\ line.id = pc.lines[i].id /\ line.type = pc.lines[i].type
             /\ line.index = k /\ line.remote = media.streams
             /\ pc.lines[i].index \in {k, NoIndex}
             /\ DOMAIN pd.lines = DOMAIN pc.lines
             /\ \A j \in DOMAIN pc.lines : pd.lines[j] = IF j = i THEN line ELSE pc.lines[j]
             /\ pd.senders = pc.senders /\ pd.receivers = pc.receivers /\ pd.channel = pc.channel
<1> DEFINE i == Min(LineFor(pc, k, media))
           line == FromSdp(pc.lines[i], k, media)
           v == [pc.lines EXCEPT ![i] = line]
           pd == [pc EXCEPT !.lines = v]
<1>1. pc \in PeerRecord /\ Distinct(pc) /\ OnLine(pc) /\ Channelled(pc) /\ Belongs(p, pc)
      /\ Unregistered(pc) /\ StaleSeen(pc)
  BY DEF Sound
<1>2. /\ i \in DOMAIN pc.lines
      /\ \/ pc.lines[i].index = k
         \/ /\ pc.lines[i].index = NoIndex
            /\ \A j \in DOMAIN pc.lines : pc.lines[j].index # k
  BY <1>1, LineForIs
<1> HIDE DEF i
<1>3. pc.lines[i] \in Line
  BY <1>1, <1>2, RecordTypes
<1>4. /\ line \in Line /\ line.id = pc.lines[i].id /\ line.type = pc.lines[i].type /\ line.index = k
      /\ line.state = pc.lines[i].state /\ line.local = pc.lines[i].local
      /\ line.remote = media.streams
  BY <1>3, FromSdpFields
<1> HIDE DEF line
<1>6. /\ v \in Seq(Line) /\ DOMAIN v = DOMAIN pc.lines
      /\ \A j \in DOMAIN pc.lines : v[j] = IF j = i THEN line ELSE pc.lines[j]
  <2>1. pc.lines \in Seq(Line)
    BY <1>1, RecordTypes
  <2> QED BY <1>2, <1>4, <2>1
<1> HIDE DEF v
<1>7. /\ pd \in PeerRecord /\ pd.lines = v /\ pd.senders = pc.senders
      /\ pd.signalling_state = pc.signalling_state /\ pd.receivers = pc.receivers
      /\ pd.made = pc.made /\ pd.owner = pc.owner /\ pd.channel = pc.channel
  BY <1>1, <1>6 DEF PeerRecord
<1> HIDE DEF pd
<1>8. SameLines(pc, pd)
  BY <1>4, <1>6, <1>7 DEF SameLines
<1>9. Distinct(pd) /\ OnLine(pd) /\ Channelled(pd)
  BY <1>1, <1>8, SameLinesSound
<1>10. \A j \in DOMAIN pc.lines :
         v[j].index = (IF j = i THEN k ELSE pc.lines[j].index) /\ v[j].state = pc.lines[j].state
  BY <1>4, <1>6
<1>11. InPlace(pd) /\ Covers(pd, k) /\ Stays(pc, pd)
  <2>1. CASE pc.lines[i].index = k
    <3>1. \A j \in DOMAIN pc.lines : pd.lines[j].index = pc.lines[j].index
      BY <1>7, <1>10, <2>1
    <3>2. InPlace(pd) /\ Stays(pc, pd)
      BY <1>7, <1>8, <3>1, SameIndexesSound DEF Sound
    <3>3. 1 .. k = (1 .. k - 1) \cup {k}
      OBVIOUS
    <3>4. Covers(pd, k)
      BY <1>2, <1>6, <1>7, <1>10, <3>1, <3>3 DEF Covers
    <3> QED BY <3>2, <3>4
  <2>2. CASE /\ pc.lines[i].index = NoIndex
             /\ \A j \in DOMAIN pc.lines : pc.lines[j].index # k
    <3>1. Places(pc, k - 1)
      BY <2>2, NextPlace
    <3>2. 1 .. k = (1 .. k - 1) \cup {k}
      OBVIOUS
    <3>3. \A j \in DOMAIN pd.lines : pd.lines[j].index <= k
      <4>1. \A j \in DOMAIN pc.lines : pc.lines[j].index \in Nat /\ pc.lines[j].index <= k - 1
        BY <1>1, <3>1, RecordTypes, LineFields DEF Places
      <4> QED BY <1>6, <1>7, <1>10, <4>1
    <3>4. \A m \in 1 .. k : \E j \in DOMAIN pd.lines : pd.lines[j].index = m
      <4> SUFFICES ASSUME NEW m \in 1 .. k PROVE \E j \in DOMAIN pd.lines : pd.lines[j].index = m
        OBVIOUS
      <4>1. CASE m = k
        BY <1>2, <1>6, <1>7, <1>10, <4>1
      <4>2. CASE m # k
        <5>1. m \in 1 .. k - 1
          BY <4>2
        <5>2. PICK j \in DOMAIN pc.lines : pc.lines[j].index = m
          BY <3>1, <5>1 DEF Places
        <5>3. j # i
          BY <2>2, <5>2 DEF NoIndex
        <5> QED BY <1>6, <1>7, <1>10, <5>2, <5>3
      <4> QED BY <4>1, <4>2
    <3>5. \A j, m \in DOMAIN pd.lines :
            pd.lines[j].index = pd.lines[m].index /\ pd.lines[j].index # NoIndex => j = m
      BY <1>6, <1>7, <1>10, <2>2, <3>1 DEF Places
    <3>6. Places(pd, k) /\ Covers(pd, k)
      BY <3>3, <3>4, <3>5 DEF Places, Covers
    <3>7. Stays(pc, pd)
      BY <1>7, <1>8, <1>10, <2>2 DEF Stays, SameLines
    <3> QED BY <3>6, <3>7 DEF InPlace
  <2> QED BY <1>2, <2>1, <2>2
<1>12. Unregistered(pd)
  BY <1>1, <1>6, <1>7, <1>10 DEF Unregistered, NoIndex
<1>13. StaleSeen(pd)
  BY <1>1, <1>7, <1>8, <1>10 DEF StaleSeen, SameLines
<1>14. Belongs(p, pd)
  BY <1>1, <1>7 DEF Belongs
<1>15. Sound(p, pd)
  BY <1>7, <1>9, <1>11, <1>12, <1>13, <1>14 DEF Sound
<1> QED BY <1>2, <1>4, <1>6, <1>7, <1>11, <1>15 DEF pd, v, line, i

LEMMA UpdateSound ==
  ASSUME NEW p \in Peer, NEW pc, Sound(p, pc), NEW k \in Nat, k # 0, Covers(pc, k - 1),
         NEW media \in Medium, media.streams \subseteq Ssrc[Other(p)],
         LineFor(pc, k, media) # {}
  PROVE  Advance(p, pc, k, UpdateLine(pc, Min(LineFor(pc, k, media)), k, media))
<1> DEFINE i == Min(LineFor(pc, k, media))
           line == FromSdp(pc.lines[i], k, media)
           pd == [pc EXCEPT !.lines = [pc.lines EXCEPT ![i] = line]]
           fits == IF line.type = Application THEN pc.channel ELSE media.type # Application
<1>1. pc \in PeerRecord
  BY DEF Sound
<1>2. /\ Sound(p, pd) /\ Stays(pc, pd) /\ Covers(pd, k)
      /\ line \in Line /\ line.remote = media.streams
  BY UpdatedSound
<1> HIDE DEF i
<1>3. UpdateLine(pc, i, k, media) =
        IF fits THEN [ok |-> TRUE, pc |-> FollowStreams(pd, line)] ELSE [ok |-> FALSE, pc |-> pd]
  <2>1. [pc EXCEPT !.lines[i] = line] = pd
    BY <1>1 DEF PeerRecord
  <2> QED BY <2>1 DEF UpdateLine
<1> HIDE DEF line, fits, pd
<1>4. LET pe == FollowStreams(pd, line)
      IN  Sound(p, pe) /\ Stays(pd, pe) /\ pe.lines = pd.lines
  BY <1>2, FollowSound
<1>5. ASSUME NEW pe, Sound(p, pe), Stays(pd, pe), pe.lines = pd.lines, NEW ok \in BOOLEAN
      PROVE  Advance(p, pc, k, [ok |-> ok, pc |-> pe])
  <2>1. Stays(pc, pe)
    BY <1>2, <1>5, StaysTransitive
  <2>2. Covers(pe, k)
    BY <1>2, <1>5 DEF Covers
  <2>3. pe \in PeerRecord
    BY <1>5 DEF Sound
  <2> QED BY <1>5, <2>1, <2>2, <2>3 DEF Advance
<1>6. Advance(p, pc, k, [ok |-> TRUE, pc |-> FollowStreams(pd, line)])
  BY <1>4, <1>5
<1>7. Advance(p, pc, k, [ok |-> FALSE, pc |-> pd])
  BY <1>2, <1>5, StaysOn
<1> QED BY <1>3, <1>6, <1>7 DEF i

LEMMA AddSound ==
  ASSUME NEW p \in Peer, NEW pc, Sound(p, pc), NEW k \in Nat, k # 0, Covers(pc, k - 1),
         NEW media \in Medium, media.streams \subseteq Ssrc[Other(p)],
         LineFor(pc, k, media) = {}
  PROVE  Advance(p, pc, k, AddLine(p, pc, k, media))
<1> DEFINE line == FromSdp(NewLine(pc.made + 1, media.type), k, media)
           pd == AppendLine(pc, line)
           pe == [pd EXCEPT !.channel = TRUE]
           pf == [pd EXCEPT !.lines = pc.lines]
           n == Len(pc.lines)
<1>1. pc \in PeerRecord /\ pc.made \in Nat /\ pc.owner \in Nat /\ Distinct(pc)
      /\ Channelled(pc) /\ pc.lines \in Seq(Line)
  BY RecordTypes DEF Sound
<1>2. /\ line \in Line /\ line.id = pc.made + 1 /\ line.type = media.type /\ line.index = k
      /\ line.state = "None" /\ line.local = {} /\ line.remote = media.streams
  <2>1. pc.made + 1 \in Nat \ {0} /\ media.type \in Media \cup {Application}
    BY <1>1 DEF Medium
  <2> DEFINE fresh == NewLine(pc.made + 1, media.type)
  <2>2. /\ fresh \in Line /\ fresh.id = pc.made + 1 /\ fresh.type = media.type
        /\ fresh.state = "None" /\ fresh.local = {}
    BY <2>1, NewLineFields
  <2> HIDE DEF fresh
  <2>3. LET l == FromSdp(fresh, k, media)
        IN  /\ l \in Line /\ l.id = fresh.id /\ l.type = fresh.type /\ l.index = k
            /\ l.state = fresh.state /\ l.local = fresh.local /\ l.remote = media.streams
    BY <2>2, FromSdpFields
  <2> QED BY <2>2, <2>3 DEF fresh
<1>3. \A i \in DOMAIN pc.lines : pc.lines[i].index # k
  BY DEF LineFor
<1>4. Places(pc, k - 1) /\ k - 1 \in Nat /\ (k - 1) + 1 = k
  BY <1>3, NextPlace
<1> HIDE DEF line
<1>5. /\ pd \in PeerRecord /\ Belongs(p, pd) /\ Distinct(pd) /\ InPlace(pd) /\ OnLine(pd)
      /\ Unregistered(pd) /\ StaleSeen(pd) /\ Stays(pc, pd)
      /\ pd.channel = pc.channel
      /\ line.type # Application => Channelled(pd)
  BY <1>2, <1>4, AppendedSound
<1>6. /\ DOMAIN pd.lines = DOMAIN pc.lines \cup {n + 1} /\ n + 1 \notin DOMAIN pc.lines
      /\ pd.lines[n + 1] = line /\ \A i \in DOMAIN pc.lines : pd.lines[i] = pc.lines[i]
      /\ pd.made = pc.made + 1 /\ pd.owner \in {pc.owner, line.id}
      /\ pd.signalling_state = pc.signalling_state
      /\ pd.senders = pc.senders /\ pd.receivers = pc.receivers
  BY <1>1, <1>2, AppendedIs
<1>7. Covers(pd, k)
  <2>1. 1 .. k = (1 .. k - 1) \cup {k}
    OBVIOUS
  <2> QED BY <1>2, <1>6, <2>1 DEF Covers
<1>8. AddLine(p, pc, k, media) =
        IF media.type # Application THEN [ok |-> TRUE, pc |-> FollowStreams(pd, line)]
        ELSE IF pc.channel \/ p \in ChannelsAllow THEN [ok |-> TRUE, pc |-> pe]
             ELSE [ok |-> FALSE, pc |-> pf]
  BY DEF AddLine, line
<1> HIDE DEF pd, n
<1>9. CASE media.type # Application
  <2>1. Sound(p, pd)
    BY <1>2, <1>5, <1>9 DEF Sound
  <2> DEFINE pg == FollowStreams(pd, line)
  <2>2. Sound(p, pg) /\ Stays(pd, pg) /\ pg.lines = pd.lines
    BY <1>2, <2>1, FollowSound
  <2> HIDE DEF pg
  <2>3. Stays(pc, pg) /\ Covers(pg, k) /\ pg \in PeerRecord
    BY <1>5, <1>7, <2>2, StaysTransitive DEF Covers, Sound
  <2>4. Advance(p, pc, k, [ok |-> TRUE, pc |-> pg])
    BY <2>2, <2>3 DEF Advance
  <2> QED BY <1>8, <1>9, <2>4 DEF pg
<1>10. CASE media.type = Application /\ (pc.channel \/ p \in ChannelsAllow)
  <2>1. /\ pe \in PeerRecord /\ pe.channel = TRUE
        /\ pe.lines = pd.lines /\ pe.made = pd.made /\ pe.owner = pd.owner
        /\ pe.signalling_state = pd.signalling_state
        /\ pe.senders = pd.senders /\ pe.receivers = pd.receivers
    BY <1>5 DEF PeerRecord
  <2> HIDE DEF pe
  <2>2. Channelled(pe)
    BY <1>1, <1>2, <1>6, <1>10, <2>1 DEF Channelled
  <2>3. Belongs(p, pe) /\ Distinct(pe) /\ InPlace(pe)
    BY <1>5, <2>1 DEF Belongs, Distinct, InPlace, Places
  <2>4. OnLine(pe) /\ Unregistered(pe) /\ StaleSeen(pe)
    BY <1>5, <2>1 DEF OnLine, Unregistered, StaleSeen
  <2>5. Sound(p, pe)
    BY <2>1, <2>2, <2>3, <2>4 DEF Sound
  <2>6. Stays(pc, pe) /\ Covers(pe, k)
    BY <1>5, <1>7, <2>1 DEF Stays, Covers
  <2>7. Advance(p, pc, k, [ok |-> TRUE, pc |-> pe])
    BY <2>1, <2>5, <2>6 DEF Advance
  <2> QED BY <1>8, <1>10, <2>7
<1>11. CASE media.type = Application /\ ~ (pc.channel \/ p \in ChannelsAllow)
  <2>1. /\ pf \in PeerRecord /\ pf.channel = pc.channel
        /\ pf.lines = pc.lines /\ pf.made = pc.made + 1 /\ pf.owner \in {pc.owner, pc.made + 1}
        /\ pf.signalling_state = pc.signalling_state
        /\ pf.senders = pc.senders /\ pf.receivers = pc.receivers
    BY <1>1, <1>2, <1>5, <1>6 DEF PeerRecord
  <2> HIDE DEF pf
  <2>2. Distinct(pf)
    <3>1. \A i \in DOMAIN pc.lines : pc.lines[i].id \in Nat
      BY <1>1, RecordTypes, LineFields
    <3> QED BY <1>1, <2>1, <3>1 DEF Distinct
  <2>3. Belongs(p, pf) /\ InPlace(pf) /\ OnLine(pf)
    BY <2>1 DEF Sound, Belongs, InPlace, Places, OnLine
  <2>4. Unregistered(pf) /\ Channelled(pf) /\ StaleSeen(pf)
    BY <2>1 DEF Sound, Unregistered, Channelled, StaleSeen
  <2>5. Sound(p, pf)
    BY <2>1, <2>2, <2>3, <2>4 DEF Sound
  <2>6. Stays(pc, pf)
    BY <2>1 DEF Stays
  <2>7. Advance(p, pc, k, [ok |-> FALSE, pc |-> pf])
    BY <2>1, <2>5, <2>6 DEF Advance
  <2> QED BY <1>8, <1>11, <2>7
<1> QED BY <1>9, <1>10, <1>11
\* One turn of the loop.
Apply(p, acc, k, media) ==
  IF ~acc.ok THEN acc
  ELSE IF LineFor(acc.pc, k, media) = {} THEN AddLine(p, acc.pc, k, media)
  ELSE UpdateLine(acc.pc, Min(LineFor(acc.pc, k, media)), k, media)

Applying(f, p, pc, description, n) ==
  f = [k \in 0 .. n |->
         IF k = 0 THEN [ok |-> TRUE, pc |-> pc] ELSE Apply(p, f[k - 1], k, description[k])]

LEMMA ApplyExists ==
  ASSUME NEW p, NEW pc, NEW description, NEW n \in Nat
  PROVE  \E f : Applying(f, p, pc, description, n)
<1> DEFINE T == {m \in Nat : ~ \E f : Applying(f, p, pc, description, m)}
<1>1. T = {}
  <2> SUFFICES ASSUME T # {} PROVE FALSE
    OBVIOUS
  <2>1. PICK m \in T : \A j \in T : m <= j
    <3>1. T \in SUBSET Nat
      OBVIOUS
    <3> HIDE DEF T
    <3> QED BY <3>1, LeastMember
  <2>2. m # 0
    <3> DEFINE f == [k \in 0 .. 0 |-> [ok |-> TRUE, pc |-> pc]]
    <3>1. f = [k \in 0 .. 0 |->
                 IF k = 0 THEN [ok |-> TRUE, pc |-> pc] ELSE Apply(p, f[k - 1], k, description[k])]
      OBVIOUS
    <3> HIDE DEF f
    <3>2. Applying(f, p, pc, description, 0)
      BY <3>1 DEF Applying
    <3> QED BY <3>2
  <2>3. m \in Nat /\ m - 1 \in Nat /\ m - 1 \notin T
    BY <2>1, <2>2
  <2>4. PICK f : Applying(f, p, pc, description, m - 1)
    BY <2>3
  <2> DEFINE next == Apply(p, f[m - 1], m, description[m])
             g == [k \in 0 .. m |-> IF k = m THEN next ELSE f[k]]
  <2>5. ASSUME NEW k \in 0 .. m
        PROVE  g[k] = IF k = 0 THEN [ok |-> TRUE, pc |-> pc]
                      ELSE Apply(p, g[k - 1], k, description[k])
    <3>1. CASE k = 0
      <4>1. 0 \in 0 .. m - 1 /\ g[k] = f[0]
        BY <2>2, <2>3, <3>1
      <4> QED BY <2>4, <3>1, <4>1 DEF Applying
    <3>2. CASE k # 0
      <4>1. g[k - 1] = f[k - 1] /\ k - 1 \in 0 .. m - 1
        BY <2>3, <3>2
      <4>2. CASE k = m
        BY <3>2, <4>1, <4>2
      <4>3. CASE k # m
        <5>1. k \in 0 .. m - 1 /\ g[k] = f[k]
          BY <2>3, <4>3
        <5> QED BY <2>4, <3>2, <4>1, <5>1 DEF Applying
      <4> QED BY <4>2, <4>3
    <3> QED BY <3>1, <3>2
  <2>6. g = [k \in 0 .. m |-> g[k]]
    OBVIOUS
  <2> HIDE DEF g
  <2>7. g = [k \in 0 .. m |-> IF k = 0 THEN [ok |-> TRUE, pc |-> pc]
                              ELSE Apply(p, g[k - 1], k, description[k])]
    BY <2>5, <2>6
  <2>8. Applying(g, p, pc, description, m)
    BY <2>7 DEF Applying
  <2> QED BY <2>3, <2>8
<1>2. n \notin T
  BY <1>1
<1> QED BY <1>2

LEMMA AppliedMedia ==
  ASSUME NEW p \in Peer, NEW pc, Sound(p, pc), NEW description \in Seq(Medium),
         \A k \in DOMAIN description : description[k].streams \subseteq Ssrc[Other(p)]
  PROVE  LET result == ApplyMedia(p, pc, description)
         IN  /\ result \in [ok : BOOLEAN, pc : PeerRecord]
             /\ Sound(p, result.pc) /\ Stays(pc, result.pc)
<1> DEFINE n == Len(description)
           f == CHOOSE f : Applying(f, p, pc, description, n)
<1>1. n \in Nat /\ DOMAIN description = 1 .. n
  OBVIOUS
<1>2. \E g : Applying(g, p, pc, description, n)
  BY <1>1, ApplyExists, Zenon
<1>3. Applying(f, p, pc, description, n)
  BY <1>2, Zenon
<1>4. ApplyMedia(p, pc, description) = f[n]
  BY DEF ApplyMedia, Applying, Apply
<1> HIDE DEF f
<1>5. f[0] = [ok |-> TRUE, pc |-> pc] /\ \A k \in 1 .. n : f[k] = Apply(p, f[k - 1], k, description[k])
  <2>1. 0 \in 0 .. n /\ \A k \in 1 .. n : k \in 0 .. n /\ k # 0
    BY <1>1
  <2> QED BY <1>3, <2>1 DEF Applying
<1> HIDE DEF n
<1> DEFINE T == {k \in Nat : k <= n /\ ~ Advance(p, pc, k, f[k])}
<1>6. T = {}
  <2> SUFFICES ASSUME T # {} PROVE FALSE
    OBVIOUS
  <2>1. PICK k \in T : \A j \in T : k <= j
    <3>1. T \in SUBSET Nat
      OBVIOUS
    <3> HIDE DEF T
    <3> QED BY <3>1, LeastMember
  <2>2. k # 0
    <3>1. pc \in PeerRecord /\ Stays(pc, pc) /\ Covers(pc, 0)
      BY StaysOn DEF Sound, Covers
    <3>2. Advance(p, pc, 0, [ok |-> TRUE, pc |-> pc])
      BY <3>1 DEF Advance
    <3> QED BY <1>5, <3>2
  <2>3. k \in 1 .. n /\ k \in Nat /\ k - 1 \in Nat /\ k - 1 \notin T /\ k - 1 <= n
    BY <1>1, <2>1, <2>2
  <2> DEFINE acc == f[k - 1]
             media == description[k]
  <2>4. /\ acc \in [ok : BOOLEAN, pc : PeerRecord]
        /\ Sound(p, acc.pc) /\ Stays(pc, acc.pc)
        /\ acc.ok => Covers(acc.pc, k - 1)
    BY <2>3 DEF Advance
  <2>5. media \in Medium /\ media.streams \subseteq Ssrc[Other(p)]
    BY <1>1, <2>3
  <2>6. f[k] = Apply(p, acc, k, media)
    BY <1>5, <2>3
  <2> HIDE DEF acc, media
  <2>7. CASE ~acc.ok
    <3>1. f[k] = acc
      BY <2>6, <2>7 DEF Apply
    <3>2. Advance(p, pc, k, f[k])
      BY <2>4, <2>7, <3>1 DEF Advance
    <3> QED BY <2>1, <3>2
  <2>8. CASE acc.ok
    <3>1. Advance(p, acc.pc, k, f[k])
      <4>1. CASE LineFor(acc.pc, k, media) = {}
        <5>1. f[k] = AddLine(p, acc.pc, k, media)
          BY <2>6, <2>8, <4>1 DEF Apply
        <5> QED BY <2>2, <2>3, <2>4, <2>5, <2>8, <4>1, <5>1, AddSound
      <4>2. CASE LineFor(acc.pc, k, media) # {}
        <5>1. f[k] = UpdateLine(acc.pc, Min(LineFor(acc.pc, k, media)), k, media)
          BY <2>6, <2>8, <4>2 DEF Apply
        <5> QED BY <2>2, <2>3, <2>4, <2>5, <2>8, <4>2, <5>1, UpdateSound
      <4> QED BY <4>1, <4>2
    <3>2. Advance(p, pc, k, f[k])
      BY <2>4, <3>1, StaysTransitive DEF Advance
    <3> QED BY <2>1, <3>2
  <2> QED BY <2>7, <2>8
<1>7. Advance(p, pc, n, f[n])
  <2>1. n \notin T
    BY <1>6
  <2> QED BY <1>1, <2>1
<1> QED BY <1>4, <1>7 DEF Advance
-----------------------------------------------------------------------------
(***************************************************************************)
(* The invariant: each peer is sound, what is being written is ready to be *)
(* promoted, and at most one of the peers answers the other.               *)
(***************************************************************************)
Has(w, mode) == \E i \in DOMAIN w : w[i].mode = mode
Once(w, mode) == \A i, j \in DOMAIN w : w[i].mode = mode /\ w[j].mode = mode => i = j

\* The streams of a description are those of the peer q it is from.
From(q, d) == \A k \in DOMAIN d.media : d.media[k].streams \subseteq Ssrc[q]

Writing(p) ==
  \/ describing[p] = <<>>
  \/ LET d == Head(describing[p])
     IN  /\ describing[p] = <<d>> /\ From(p, d) /\ Ready(peer[p], d.mode)
         /\ peer[p].signalling_state \in
              IF d.mode = "offer" THEN {"None", "NegotiationRequired"} ELSE {"HaveRemoteOffer"}

Carried(p) == \A i \in DOMAIN wire[p] : From(Other(p), wire[p][i])

\* Whose turn it is after an offer of p.
Turn(p) ==
  LET q == Other(p)
  IN  /\ Once(wire[q], "offer") /\ Once(wire[p], "answer")
      /\ Has(wire[q], "offer") =>
           /\ peer[p].signalling_state = "HaveLocalOffer"
           /\ peer[q].signalling_state # "HaveRemoteOffer"
           /\ ~Has(wire[p], "answer")
      /\ Has(wire[p], "answer") =>
           /\ peer[p].signalling_state = "HaveLocalOffer"
           /\ peer[q].signalling_state # "HaveRemoteOffer"
      /\ peer[q].signalling_state = "HaveRemoteOffer" =>
           peer[p].signalling_state = "HaveLocalOffer"

Typed ==
  /\ peer \in [Peer -> PeerRecord] /\ describing \in [Peer -> Seq(Description)]
  /\ wire \in [Peer -> Seq(Description)]
  /\ used \subseteq Streams /\ failed \in BOOLEAN /\ refused \in BOOLEAN

Inv ==
  /\ Typed
  /\ \A p \in Peer : Sound(p, peer[p]) /\ Writing(p) /\ Carried(p) /\ Turn(p)
-----------------------------------------------------------------------------
(* The steps on one peer.                                                  *)

Placed(pc, pd) ==
  \A i \in DOMAIN pc.lines : pc.lines[i].index # NoIndex =>
    \E j \in DOMAIN pd.lines : /\ pd.lines[j].id = pc.lines[i].id
                               /\ pd.lines[j].index = pc.lines[i].index
                               /\ pd.lines[j].type = pc.lines[i].type

\* Other senders on the same lines.
LEMMA SendersSound ==
  ASSUME NEW p \in Peer, NEW pc, Sound(p, pc), NEW w \in Partial(Streams, Sender),
         DOMAIN w \subseteq Ssrc[p],
         OnLine([pc EXCEPT !.senders = w]), StaleSeen([pc EXCEPT !.senders = w])
  PROVE  LET pd == [pc EXCEPT !.senders = w]
         IN  /\ Sound(p, pd) /\ Stays(pc, pd)
             /\ pd.senders = w /\ pd.lines = pc.lines
<1> DEFINE pd == [pc EXCEPT !.senders = w]
<1>1. pc \in PeerRecord /\ Belongs(p, pc) /\ OnLine(pd) /\ StaleSeen(pd)
  BY DEF Sound
<1>2. /\ pd \in PeerRecord /\ pd.lines = pc.lines /\ pd.senders = w
      /\ pd.signalling_state = pc.signalling_state /\ pd.receivers = pc.receivers
      /\ pd.made = pc.made /\ pd.owner = pc.owner /\ pd.channel = pc.channel
  BY <1>1 DEF PeerRecord
<1> HIDE DEF pd
<1>3. Distinct(pd) /\ InPlace(pd)
  BY <1>2 DEF Sound, Distinct, InPlace, Places
<1>4. Unregistered(pd) /\ Channelled(pd) /\ Belongs(p, pd)
  BY <1>1, <1>2 DEF Sound, Unregistered, Channelled, Belongs
<1>5. Stays(pc, pd)
  BY <1>2 DEF Stays
<1>6. Sound(p, pd)
  BY <1>1, <1>2, <1>3, <1>4 DEF Sound
<1> QED BY <1>2, <1>5, <1>6 DEF pd

\* A sender that changes but for its line.
LEMMA SenderSound ==
  ASSUME NEW p \in Peer, NEW pc, Sound(p, pc), NEW s \in DOMAIN pc.senders, NEW sender \in Sender,
         sender.line = pc.senders[s].line, sender.stale => pc.senders[s].stale \/ Pending(sender.state),
         Pending(pc.senders[s].state) => Pending(sender.state)
  PROVE  LET pd == [pc EXCEPT !.senders[s] = sender]
         IN  /\ Sound(p, pd) /\ Stays(pc, pd) /\ pd.lines = pc.lines
             /\ pd.senders = [pc.senders EXCEPT ![s] = sender]
<1> DEFINE w == [pc.senders EXCEPT ![s] = sender]
           pd == [pc EXCEPT !.senders = w]
<1>1. pc \in PeerRecord /\ Belongs(p, pc) /\ OnLine(pc) /\ StaleSeen(pc)
  BY DEF Sound
<1>2. [pc EXCEPT !.senders[s] = sender] = pd
  BY <1>1 DEF PeerRecord
<1>3. /\ DOMAIN w = DOMAIN pc.senders
      /\ \A r \in DOMAIN pc.senders : w[r] = IF r = s THEN sender ELSE pc.senders[r]
  OBVIOUS
<1>4. w \in Partial(Streams, Sender)
  <2>1. DOMAIN pc.senders \in SUBSET Streams /\ \A r \in DOMAIN pc.senders : w[r] \in Sender
    BY <1>1, <1>3, RecordTypes
  <2>2. w \in [DOMAIN pc.senders -> Sender]
    BY <1>3, <2>1
  <2> HIDE DEF w
  <2> QED BY <2>1, <2>2, PartialMade
<1> HIDE DEF w
<1>5. pd.senders = w /\ pd.lines = pc.lines
  BY <1>1 DEF PeerRecord
<1>6. OnLine(pd)
  BY <1>1, <1>3, <1>5 DEF OnLine
<1>7. StaleSeen(pd)
  BY <1>1, <1>3, <1>5 DEF StaleSeen
<1>8. DOMAIN w \subseteq Ssrc[p]
  BY <1>1, <1>3 DEF Belongs
<1>9. Sound(p, pd) /\ Stays(pc, pd)
  BY <1>4, <1>6, <1>7, <1>8, SendersSound
<1> QED BY <1>2, <1>5, <1>9 DEF w

\* register_property, and the end of a handle.
LEMMA TouchedSender ==
  ASSUME NEW p \in Peer, NEW pc, Sound(p, pc), NEW s \in DOMAIN pc.senders,
         pc.senders[s].state # "Propagated", NEW quiet \in BOOLEAN
  PROVE  LET pd == [pc EXCEPT !.senders[s].state = Touched(@),
                              !.senders[s].stale = @ \/ quiet]
         IN  /\ Sound(p, pd) /\ Stays(pc, pd)
             /\ \A mode : ~quiet /\ Ready(pc, mode) => Ready(pd, mode)
<1> DEFINE old == pc.senders[s]
           sender == [old EXCEPT !.state = Touched(old.state), !.stale = old.stale \/ quiet]
           pd == [pc EXCEPT !.senders[s] = sender]
<1>1. pc \in PeerRecord
  BY DEF Sound
<1>2. old \in Sender
  BY <1>1, RecordTypes
<1>3. Touched(old.state) \in NegotiationState /\ Pending(Touched(old.state))
  BY <1>2 DEF Sender, NegotiationState, Touched, Pending
<1>4. (old.stale \/ quiet) \in BOOLEAN
  BY <1>2 DEF Sender
<1>5. /\ sender \in Sender /\ sender.line = old.line /\ Pending(sender.state)
      /\ sender.stale = (old.stale \/ quiet)
  BY <1>2, <1>3, <1>4 DEF Sender
<1>6. [pc EXCEPT !.senders[s].state = Touched(@), !.senders[s].stale = @ \/ quiet] = pd
  <2>1. old = [line |-> old.line, state |-> old.state, stale |-> old.stale, open |-> old.open]
    BY <1>2 DEF Sender
  <2> QED BY <1>1, <1>2, <2>1 DEF PeerRecord, Sender
<1> HIDE DEF sender
<1>7. /\ Sound(p, pd) /\ Stays(pc, pd) /\ pd.lines = pc.lines
      /\ pd.senders = [pc.senders EXCEPT ![s] = sender]
  BY <1>5, SenderSound
<1> HIDE DEF pd
<1>8. /\ DOMAIN pd.senders = DOMAIN pc.senders
      /\ \A r \in DOMAIN pc.senders : /\ pd.senders[r].line = pc.senders[r].line
                                      /\ ~quiet => pd.senders[r].stale = pc.senders[r].stale
  <2>1. ~quiet => sender.stale = old.stale
    BY <1>2, <1>5 DEF Sender
  <2> QED BY <1>5, <1>7, <2>1
<1>9. \A mode : ~quiet /\ Ready(pc, mode) => Ready(pd, mode)
  BY <1>7, <1>8 DEF Ready
<1> QED BY <1>6, <1>7, <1>9

LEMMA DroppedSender ==
  ASSUME NEW p \in Peer, NEW pc, Sound(p, pc), NEW s \in DOMAIN pc.senders
  PROVE  LET pd == [pc EXCEPT !.senders[s].open = FALSE]
         IN  /\ Sound(p, pd) /\ Stays(pc, pd)
             /\ \A mode : Ready(pc, mode) => Ready(pd, mode)
<1> DEFINE old == pc.senders[s]
           sender == [old EXCEPT !.open = FALSE]
           pd == [pc EXCEPT !.senders[s] = sender]
<1>1. pc \in PeerRecord
  BY DEF Sound
<1>2. old \in Sender
  BY <1>1, RecordTypes
<1>3. /\ sender \in Sender /\ sender.line = old.line /\ sender.state = old.state
      /\ sender.stale = old.stale
  BY <1>2 DEF Sender
<1>4. [pc EXCEPT !.senders[s].open = FALSE] = pd
  BY <1>1 DEF PeerRecord
<1> HIDE DEF sender
<1>5. /\ Sound(p, pd) /\ Stays(pc, pd) /\ pd.lines = pc.lines
      /\ pd.senders = [pc.senders EXCEPT ![s] = sender]
  BY <1>3, SenderSound
<1> HIDE DEF pd
<1>6. \A mode : Ready(pc, mode) => Ready(pd, mode)
  BY <1>3, <1>5 DEF Ready
<1> QED BY <1>4, <1>5, <1>6
\* register_local_codec
LEMMA CodecSound ==
  ASSUME NEW p \in Peer, NEW pc, Sound(p, pc), NEW i \in DOMAIN pc.lines,
         pc.lines[i].state # "Propagated"
  PROVE  LET pd == [pc EXCEPT !.lines[i].codecs = TRUE, !.lines[i].state = Touched(@)]
         IN  Sound(p, pd) /\ Stays(pc, pd)
<1> DEFINE old == pc.lines[i]
           line == [old EXCEPT !.codecs = TRUE, !.state = Touched(old.state)]
           v == [pc.lines EXCEPT ![i] = line]
           pd == [pc EXCEPT !.lines = v]
<1>1. pc \in PeerRecord /\ Distinct(pc) /\ OnLine(pc) /\ Channelled(pc) /\ Belongs(p, pc)
      /\ Unregistered(pc) /\ StaleSeen(pc) /\ InPlace(pc) /\ pc.lines \in Seq(Line)
  BY RecordTypes DEF Sound
<1>2. old \in Line
  BY <1>1, RecordTypes
<1>3. Touched(old.state) \in NegotiationState /\ Pending(Touched(old.state))
  BY <1>2, LineFields DEF NegotiationState, Touched, Pending
<1>4. /\ line \in Line /\ line.id = old.id /\ line.type = old.type /\ line.index = old.index
      /\ line.local = old.local /\ Pending(line.state)
  BY <1>2, <1>3 DEF Line
<1>5. [pc EXCEPT !.lines[i].codecs = TRUE, !.lines[i].state = Touched(@)] = pd
  BY <1>1, <1>2 DEF PeerRecord, Line
<1> HIDE DEF line
<1>6. /\ v \in Seq(Line) /\ DOMAIN v = DOMAIN pc.lines
      /\ \A j \in DOMAIN pc.lines : v[j] = IF j = i THEN line ELSE pc.lines[j]
  BY <1>1, <1>4
<1> HIDE DEF v
<1>7. /\ pd \in PeerRecord /\ pd.lines = v /\ pd.senders = pc.senders
      /\ pd.signalling_state = pc.signalling_state /\ pd.receivers = pc.receivers
      /\ pd.made = pc.made /\ pd.owner = pc.owner /\ pd.channel = pc.channel
  BY <1>1, <1>6 DEF PeerRecord
<1> HIDE DEF pd
<1>8. SameLines(pc, pd) /\ \A j \in DOMAIN pc.lines : pd.lines[j].index = pc.lines[j].index
  BY <1>4, <1>6, <1>7 DEF SameLines
<1>9. Distinct(pd) /\ OnLine(pd) /\ Channelled(pd)
  BY <1>1, <1>8, SameLinesSound
<1>10. InPlace(pd) /\ Stays(pc, pd)
  BY <1>1, <1>7, <1>8, SameIndexesSound
<1>11. \A j \in DOMAIN pc.lines :
         v[j].id = pc.lines[j].id /\ (Pending(pc.lines[j].state) => Pending(v[j].state))
  BY <1>4, <1>6
<1>12. Unregistered(pd) /\ StaleSeen(pd) /\ Belongs(p, pd)
  BY <1>1, <1>6, <1>7, <1>8, <1>11 DEF Unregistered, StaleSeen, Belongs
<1>13. Sound(p, pd)
  BY <1>7, <1>9, <1>10, <1>12 DEF Sound
<1> QED BY <1>5, <1>10, <1>13

\* application_channel
LEMMA ChannelSound ==
  ASSUME NEW p \in Peer, NEW pc, Sound(p, pc)
  PROVE  LET pd == [Allocate(pc, Application) EXCEPT !.channel = TRUE]
         IN  Sound(p, pd) /\ Stays(pc, pd)
<1> DEFINE pb == Allocate(pc, Application)
           pd == [pb EXCEPT !.channel = TRUE]
<1>1. /\ pb \in PeerRecord /\ Belongs(p, pb) /\ Distinct(pb) /\ InPlace(pb) /\ OnLine(pb)
      /\ Unregistered(pb) /\ StaleSeen(pb) /\ Stays(pc, pb)
      /\ Min(FreeLine(pb, Application)) \in FreeLine(pb, Application)
      /\ \A i \in DOMAIN pb.lines : pb.lines[i].type = Application => pb.lines[i].local = {}
  BY AllocatedSound
<1> HIDE DEF pb
<1>2. /\ pd \in PeerRecord /\ pd.channel = TRUE
      /\ pd.lines = pb.lines /\ pd.senders = pb.senders
      /\ pd.signalling_state = pb.signalling_state /\ pd.receivers = pb.receivers
      /\ pd.made = pb.made /\ pd.owner = pb.owner
  BY <1>1 DEF PeerRecord
<1> HIDE DEF pd
<1>3. Belongs(p, pd) /\ Distinct(pd) /\ InPlace(pd) /\ OnLine(pd)
  BY <1>1, <1>2 DEF Belongs, Distinct, InPlace, Places, OnLine
<1>4. Unregistered(pd) /\ StaleSeen(pd) /\ Stays(pc, pd)
  BY <1>1, <1>2 DEF Unregistered, StaleSeen, Stays
<1>5. \E i \in DOMAIN pb.lines : pb.lines[i].type = Application
  BY <1>1 DEF FreeLine
<1>6. Channelled(pd)
  BY <1>1, <1>2, <1>5 DEF Channelled
<1>7. Sound(p, pd)
  BY <1>2, <1>3, <1>4, <1>6 DEF Sound
<1> QED BY <1>4, <1>7 DEF pd, pb

\* create_media_sender
LEMMA CreatedSound ==
  ASSUME NEW p \in Peer, NEW pc, Sound(p, pc), NEW type \in Media, NEW s \in Ssrc[p]
  PROVE  LET pb == Allocate(pc, type)
             i  == Min(FreeLine(pb, type))
             pd == [pb EXCEPT !.lines[i].local = @ \cup {s},
                              !.senders = [r \in DOMAIN @ \cup {s} |->
                                 IF r = s THEN NewSender(pb.lines[i].id) ELSE @[r]]]
         IN  Sound(p, pd) /\ Stays(pc, pd)
<1> DEFINE pb == Allocate(pc, type)
           i  == Min(FreeLine(pb, type))
           line == [pb.lines[i] EXCEPT !.local = pb.lines[i].local \cup {s}]
           v == [pb.lines EXCEPT ![i] = line]
           new == NewSender(pb.lines[i].id)
           w == [r \in DOMAIN pb.senders \cup {s} |-> IF r = s THEN new ELSE pb.senders[r]]
           pd == [pb EXCEPT !.lines = v, !.senders = w]
<1>1. /\ pb \in PeerRecord /\ Belongs(p, pb) /\ Distinct(pb) /\ InPlace(pb) /\ OnLine(pb)
      /\ Unregistered(pb) /\ StaleSeen(pb) /\ Stays(pc, pb)
      /\ type # Application => Channelled(pb)
      /\ i \in FreeLine(pb, type)
  BY AllocatedSound
<1> HIDE DEF pb, i
<1>2. type # Application
  BY NegotiationAssumption DEF Application
<1>3. i \in DOMAIN pb.lines /\ pb.lines[i].type = type /\ Channelled(pb)
  BY <1>1, <1>2 DEF FreeLine
<1>4. pb.lines[i] \in Line /\ pb.lines \in Seq(Line) /\ DOMAIN pb.senders \subseteq Streams
      /\ \A r \in DOMAIN pb.senders : pb.senders[r] \in Sender
  BY <1>1, <1>3, RecordTypes
<1>5. s \in Streams
  BY OwnStreams
<1>6. /\ line \in Line /\ line.id = pb.lines[i].id /\ line.type = type
      /\ line.index = pb.lines[i].index /\ line.state = pb.lines[i].state
      /\ line.local = pb.lines[i].local \cup {s}
  BY <1>3, <1>4, <1>5 DEF Line
<1>7. /\ new \in Sender /\ new.line = pb.lines[i].id /\ ~new.stale
  BY <1>4, LineFields DEF NewSender, Sender, NegotiationState
<1>8. [pb EXCEPT !.lines[i].local = @ \cup {s},
                 !.senders = [r \in DOMAIN @ \cup {s} |->
                    IF r = s THEN NewSender(pb.lines[i].id) ELSE @[r]]] = pd
  BY <1>1, <1>3, <1>4 DEF PeerRecord, Line
<1> HIDE DEF line, new
<1>9. /\ v \in Seq(Line) /\ DOMAIN v = DOMAIN pb.lines
      /\ \A j \in DOMAIN pb.lines : v[j] = IF j = i THEN line ELSE pb.lines[j]
  BY <1>3, <1>4, <1>6
<1>10. w \in Partial(Streams, Sender)
  <2>1. DOMAIN pb.senders \cup {s} \in SUBSET Streams
    BY <1>4, <1>5
  <2>2. w \in [DOMAIN pb.senders \cup {s} -> Sender]
    BY <1>4, <1>7
  <2> HIDE DEF w
  <2> QED BY <2>1, <2>2, PartialMade
<1>11. /\ DOMAIN w = DOMAIN pb.senders \cup {s}
       /\ \A r \in DOMAIN w : w[r] = IF r = s THEN new ELSE pb.senders[r]
  OBVIOUS
<1> HIDE DEF v, w
<1>12. /\ pd \in PeerRecord /\ pd.lines = v /\ pd.senders = w
       /\ pd.signalling_state = pb.signalling_state /\ pd.receivers = pb.receivers
       /\ pd.made = pb.made /\ pd.owner = pb.owner /\ pd.channel = pb.channel
  BY <1>1, <1>9, <1>10 DEF PeerRecord
<1> HIDE DEF pd
<1>13. \A j \in DOMAIN pb.lines :
         /\ v[j].id = pb.lines[j].id /\ v[j].type = pb.lines[j].type
         /\ v[j].index = pb.lines[j].index /\ v[j].state = pb.lines[j].state
         /\ v[j].local = IF j = i THEN pb.lines[j].local \cup {s} ELSE pb.lines[j].local
  BY <1>3, <1>6, <1>9
<1>14. Distinct(pd)
  BY <1>1, <1>9, <1>12, <1>13 DEF Distinct
<1>15. InPlace(pd)
  <2>1. PICK n \in Nat : Places(pb, n)
    BY <1>1 DEF InPlace
  <2>2. DOMAIN pd.lines = DOMAIN pb.lines /\ \A j \in DOMAIN pb.lines : pd.lines[j].index = pb.lines[j].index
    BY <1>9, <1>12, <1>13
  <2>3. Places(pd, n)
    BY <2>1, <2>2 DEF Places
  <2> QED BY <2>3 DEF InPlace
<1>16. OnLine(pd)
  <2> SUFFICES ASSUME NEW r \in DOMAIN w
               PROVE  \E j \in DOMAIN v : v[j].id = w[r].line /\ r \in v[j].local
    BY <1>12 DEF OnLine
  <2>1. CASE r = s
    BY <1>3, <1>7, <1>9, <1>11, <1>13, <2>1
  <2>2. CASE r # s
    <3>1. PICK j \in DOMAIN pb.lines :
            pb.lines[j].id = pb.senders[r].line /\ r \in pb.lines[j].local
      BY <1>1, <1>11, <2>2 DEF OnLine
    <3> QED BY <1>9, <1>11, <1>13, <2>2, <3>1
  <2> QED BY <2>1, <2>2
<1>17. Unregistered(pd)
  BY <1>1, <1>9, <1>12, <1>13 DEF Unregistered
<1>18. Channelled(pd)
  <2>1. ASSUME NEW j \in DOMAIN v PROVE v[j].type = Application => v[j].local = pb.lines[j].local
    BY <1>2, <1>3, <1>9, <1>13
  <2>2. /\ DOMAIN pd.lines = DOMAIN pb.lines /\ pd.channel = pb.channel
        /\ \A j \in DOMAIN pb.lines :
             /\ pd.lines[j].type = pb.lines[j].type
             /\ pd.lines[j].type = Application => pd.lines[j].local = pb.lines[j].local
    BY <1>9, <1>12, <1>13, <2>1
  <2> QED BY <1>3, <2>2 DEF Channelled
<1>19. StaleSeen(pd)
  <2>1. /\ DOMAIN pd.lines = DOMAIN pb.lines
        /\ \A j \in DOMAIN pb.lines :
             pd.lines[j].id = pb.lines[j].id /\ pd.lines[j].state = pb.lines[j].state
    BY <1>9, <1>12, <1>13
  <2>2. \A r \in DOMAIN pd.senders : pd.senders[r].stale =>
          r \in DOMAIN pb.senders /\ pd.senders[r] = pb.senders[r]
    BY <1>7, <1>11, <1>12
  <2> QED BY <1>1, <2>1, <2>2 DEF StaleSeen
<1>20. Belongs(p, pd)
  BY <1>1, <1>11, <1>12 DEF Belongs
<1>21. Sound(p, pd)
  BY <1>12, <1>14, <1>15, <1>16, <1>17, <1>18, <1>19, <1>20 DEF Sound
<1>22. Stays(pb, pd)
  BY <1>9, <1>12, <1>13 DEF Stays
<1>23. Stays(pc, pd)
  BY <1>1, <1>22, StaysTransitive
<1> QED BY <1>8, <1>21, <1>23 DEF pb, i
LEMMA IndexesAre ==
  ASSUME NEW pc \in PeerRecord, NEW n \in Nat, Places(pc, n)
  PROVE  Indexes(pc) = 1 .. n
<1>1. \A k \in Indexes(pc) : k \in 1 .. n
  <2> SUFFICES ASSUME NEW k \in Indexes(pc) PROVE k \in 1 .. n
    OBVIOUS
  <2>1. PICK i \in DOMAIN pc.lines : k = pc.lines[i].index /\ k # NoIndex
    BY DEF Indexes, Registered, Range
  <2>2. k \in Nat /\ k <= n
    BY <2>1, RecordTypes, LineFields DEF Places
  <2> QED BY <2>1, <2>2 DEF NoIndex
<1>2. \A k \in 1 .. n : k \in Indexes(pc)
  <2> SUFFICES ASSUME NEW k \in 1 .. n PROVE k \in Indexes(pc)
    OBVIOUS
  <2>1. PICK i \in DOMAIN pc.lines : pc.lines[i].index = k
    BY DEF Places
  <2> QED BY <2>1 DEF Indexes, Registered, Range, NoIndex
<1> QED BY <1>1, <1>2

\* A description has a media for every registered line, with own streams.
LEMMA MediaTyped ==
  ASSUME NEW p \in Peer, NEW pc, Sound(p, pc)
  PROVE  /\ MediaOf(pc) \in Seq(Medium)
         /\ \A k \in DOMAIN MediaOf(pc) : MediaOf(pc)[k].streams \subseteq Ssrc[p]
<1> DEFINE at(k) == CHOOSE l \in Registered(pc) : l.index = k
           streams(l) == {s \in DOMAIN pc.senders : pc.senders[s].line = l.id}
           medium(k) == [type |-> at(k).type, streams |-> streams(at(k))]
           media == [k \in Indexes(pc) |-> medium(k)]
<1>1. media = MediaOf(pc)
  BY DEF MediaOf
<1>2. pc \in PeerRecord /\ Belongs(p, pc)
  BY DEF Sound
<1>3. PICK n \in Nat : Indexes(pc) = 1 .. n
  <2>1. PICK n \in Nat : Places(pc, n)
    BY DEF Sound, InPlace
  <2> QED BY <1>2, <2>1, IndexesAre
<1>4. ASSUME NEW k \in Indexes(pc)
      PROVE  medium(k) \in Medium /\ medium(k).streams \subseteq Ssrc[p]
  <2>1. at(k) \in Registered(pc)
    BY DEF Indexes
  <2>2. at(k) \in Line
    BY <1>2, <2>1, RecordTypes DEF Registered, Range
  <2>3. at(k).type \in Media \cup {Application}
    BY <2>2, LineFields
  <2>4. streams(at(k)) \subseteq Ssrc[p] /\ streams(at(k)) \subseteq Streams
    BY <1>2, OwnStreams DEF Belongs
  <2> HIDE DEF at, streams
  <2> QED BY <2>3, <2>4 DEF Medium
<1> HIDE DEF medium
<1>5. media \in [1 .. n -> Medium] /\ DOMAIN media = Indexes(pc)
  BY <1>3, <1>4
<1>6. \A k \in DOMAIN media : media[k].streams \subseteq Ssrc[p]
  BY <1>4, <1>5
<1> HIDE DEF media
<1>7. media \in Seq(Medium)
  BY <1>5
<1> QED BY <1>1, <1>6, <1>7

-----------------------------------------------------------------------------
(* The invariant is kept.                                                  *)

LEMMA InvParts ==
  ASSUME Inv, NEW p \in Peer
  PROVE  /\ peer[p] \in PeerRecord /\ Sound(p, peer[p]) /\ Writing(p) /\ Carried(p) /\ Turn(p)
         /\ describing[p] \in Seq(Description) /\ wire[p] \in Seq(Description)
         /\ Other(p) \in Peer /\ Other(p) # p /\ Other(Other(p)) = p
BY TwoPeers DEF Inv, Typed

\* Every line that is registered has its place after the step.
StepPlaced == \A p \in Peer : Placed(peer[p], peer'[p])

LEMMA PlacedOn == \A pc : Placed(pc, pc)
BY DEF Placed

LEMMA StaysPlaced == \A pc, pd : Stays(pc, pd) => Placed(pc, pd)
BY DEF Stays, Placed

\* A step of one peer that gives the turn to nobody.
SameTurn(a, b) ==
  /\ a = "HaveLocalOffer" <=> b = "HaveLocalOffer"
  /\ a = "HaveRemoteOffer" <=> b = "HaveRemoteOffer"

LEMMA PeerStep ==
  ASSUME Inv, NEW p \in Peer, NEW pc, Sound(p, pc), peer' = [peer EXCEPT ![p] = pc],
         Placed(peer[p], pc), wire' = wire, UNCHANGED describing,
         SameTurn(peer[p].signalling_state, pc.signalling_state),
         used' \subseteq Streams, failed' \in BOOLEAN, refused' \in BOOLEAN,
         \/ describing[p] = <<>>
         \/ /\ pc.signalling_state = peer[p].signalling_state
            /\ \A mode : Ready(peer[p], mode) => Ready(pc, mode)
  PROVE  Inv' /\ StepPlaced
<1>1. /\ peer' \in [Peer -> PeerRecord] /\ peer'[p] = pc
      /\ \A q \in Peer : q # p => peer'[q] = peer[q]
  BY DEF Inv, Typed, Sound
<1>2. Typed'
  BY <1>1 DEF Inv, Typed
<1>3. ASSUME NEW q \in Peer
      PROVE  Sound(q, peer'[q]) /\ Writing(q)' /\ Carried(q)' /\ Turn(q)' /\ Placed(peer[q], peer'[q])
  <2>1. Sound(q, peer'[q]) /\ Placed(peer[q], peer'[q])
    BY <1>1, PlacedOn DEF Inv
  <2>2. Writing(q)'
    <3>1. Writing(q)
      BY DEF Inv
    <3>2. CASE q # p
      BY <1>1, <3>1, <3>2 DEF Writing
    <3>3. CASE q = p
      BY <1>1, <3>1, <3>3 DEF Writing
    <3> QED BY <3>2, <3>3
  <2>3. Carried(q)'
    BY DEF Inv, Carried
  <2>4. Turn(q)'
    <3>1. Turn(q) /\ Other(q) \in Peer /\ Other(q) # q
      BY TwoPeers DEF Inv
    <3>2. \A r \in Peer : SameTurn(peer[r].signalling_state, peer'[r].signalling_state)
      BY <1>1 DEF SameTurn
    <3> QED BY <3>1, <3>2 DEF Turn, SameTurn
  <2> QED BY <2>1, <2>2, <2>3, <2>4
<1> QED BY <1>2, <1>3 DEF Inv, StepPlaced
LEMMA StillSame == \A a : SameTurn(a, a)
BY DEF SameTurn

\* The steps that keep the signalling state.
LEMMA QuietStep ==
  ASSUME Inv, NEW p \in Peer, NEW pc, Sound(p, pc), Stays(peer[p], pc),
         peer' = [peer EXCEPT ![p] = pc], wire' = wire, UNCHANGED describing,
         used' \subseteq Streams, failed' \in BOOLEAN, refused' \in BOOLEAN,
         describing[p] = <<>> \/ \A mode : Ready(peer[p], mode) => Ready(pc, mode)
  PROVE  Inv' /\ StepPlaced
<1>1. Placed(peer[p], pc)
  BY StaysPlaced
<1>2. pc.signalling_state = peer[p].signalling_state
  BY DEF Stays
<1>3. SameTurn(peer[p].signalling_state, pc.signalling_state)
  BY <1>2, StillSame
<1> QED BY <1>1, <1>2, <1>3, PeerStep

LEMMA CreateMediaSenderKeeps ==
  ASSUME Inv, NEW p \in Peer, NEW s, NEW type \in Media, CreateMediaSender(p, s, type)
  PROVE  Inv' /\ StepPlaced
<1> DEFINE pb == Allocate(peer[p], type)
           i  == Min(FreeLine(pb, type))
           pd == [pb EXCEPT !.lines[i].local = @ \cup {s},
                            !.senders = [r \in DOMAIN @ \cup {s} |->
                               IF r = s THEN NewSender(pb.lines[i].id) ELSE @[r]]]
<1>1. s \in Ssrc[p] /\ Sound(p, peer[p])
  BY DEF CreateMediaSender, Inv
<1>2. Sound(p, pd) /\ Stays(peer[p], pd)
  BY <1>1, CreatedSound
<1>3. peer' = [peer EXCEPT ![p] = pd] /\ UNCHANGED <<describing, wire, failed, refused>>
      /\ describing[p] = <<>> /\ used' = used \cup {s}
  BY DEF CreateMediaSender
<1> HIDE DEF pd
<1>4. used' \subseteq Streams /\ failed' \in BOOLEAN /\ refused' \in BOOLEAN
  BY <1>1, <1>3, OwnStreams DEF Inv, Typed
<1> QED BY <1>2, <1>3, <1>4, QuietStep

LEMMA CreateDataChannelKeeps ==
  ASSUME Inv, NEW p \in Peer, CreateDataChannel(p)
  PROVE  Inv' /\ StepPlaced
<1> DEFINE pd == [Allocate(peer[p], Application) EXCEPT !.channel = TRUE]
<1>1. Sound(p, pd) /\ Stays(peer[p], pd)
  BY ChannelSound DEF Inv
<1>2. peer' = [peer EXCEPT ![p] = pd] /\ UNCHANGED <<describing, wire, used, failed, refused>>
      /\ describing[p] = <<>>
  BY DEF CreateDataChannel, Inv, Typed
<1> HIDE DEF pd
<1>3. used' \subseteq Streams /\ failed' \in BOOLEAN /\ refused' \in BOOLEAN
  BY <1>2 DEF Inv, Typed
<1> QED BY <1>1, <1>2, <1>3, QuietStep

\* The two fields of the line that a codec changes, as one change of the peer.
LEMMA RegisterLocalCodecIs ==
  ASSUME peer \in [Peer -> PeerRecord], NEW p \in Peer, NEW i, RegisterLocalCodec(p, i)
  PROVE  peer' = [peer EXCEPT ![p] =
                    [peer[p] EXCEPT !.lines[i].codecs = TRUE, !.lines[i].state = Touched(@)]]
<1> DEFINE half == [peer EXCEPT ![p].lines[i].codecs = TRUE]
           part == [peer[p] EXCEPT !.lines[i].codecs = TRUE]
           state == Touched(peer[p].lines[i].state)
<1>1. peer' = [half EXCEPT ![p].lines[i].state = state]
  BY DEF RegisterLocalCodec
<1>2. half = [peer EXCEPT ![p] = part]
  OBVIOUS
<1>3. [peer[p] EXCEPT !.lines[i].codecs = TRUE, !.lines[i].state = Touched(@)]
        = [part EXCEPT !.lines[i].state = state]
  OBVIOUS
<1> HIDE DEF part, state
<1>4. half[p] = part
  BY <1>2
<1>5. peer' = [peer EXCEPT ![p] = [part EXCEPT !.lines[i].state = state]]
  <2> HIDE DEF half
  <2>1. peer' = [half EXCEPT ![p] = [part EXCEPT !.lines[i].state = state]]
    BY <1>1, <1>4
  <2> QED BY <1>2, <2>1
<1> QED BY <1>3, <1>5

LEMMA RegisterLocalCodecKeeps ==
  ASSUME Inv, NEW p \in Peer, NEW i, RegisterLocalCodec(p, i)
  PROVE  Inv' /\ StepPlaced
<1> DEFINE pd == [peer[p] EXCEPT !.lines[i].codecs = TRUE, !.lines[i].state = Touched(@)]
<1>1. i \in DOMAIN peer[p].lines /\ peer[p].lines[i].state # "Propagated" /\ Sound(p, peer[p])
  BY DEF RegisterLocalCodec, Inv
<1>2. Sound(p, pd) /\ Stays(peer[p], pd)
  BY <1>1, CodecSound
<1>3. peer' = [peer EXCEPT ![p] = pd]
  BY RegisterLocalCodecIs DEF Inv, Typed
<1>5. UNCHANGED <<describing, wire, used, failed, refused>> /\ describing[p] = <<>>
  BY DEF RegisterLocalCodec
<1> HIDE DEF pd
<1>4. used' \subseteq Streams /\ failed' \in BOOLEAN /\ refused' \in BOOLEAN
  BY <1>5 DEF Inv, Typed
<1> QED BY <1>2, <1>3, <1>4, <1>5, QuietStep

LEMMA ChangePropertyKeeps ==
  ASSUME Inv, NEW p \in Peer, NEW s, ChangeProperty(p, s)
  PROVE  Inv' /\ StepPlaced
<1> DEFINE quiet == describing[p] = <<>>
           pd == [peer[p] EXCEPT !.senders[s].state = Touched(@), !.senders[s].stale = @ \/ quiet]
<1>1. s \in DOMAIN peer[p].senders /\ peer[p].senders[s].state # "Propagated" /\ Sound(p, peer[p])
  BY DEF ChangeProperty, Inv
<1>2. /\ Sound(p, pd) /\ Stays(peer[p], pd)
      /\ \A mode : ~quiet /\ Ready(peer[p], mode) => Ready(pd, mode)
  <2>1. quiet \in BOOLEAN
    OBVIOUS
  <2> HIDE DEF quiet
  <2> QED BY <1>1, <2>1, TouchedSender
<1>3. peer' = [peer EXCEPT ![p] = pd] /\ UNCHANGED <<describing, wire, used, failed, refused>>
  BY DEF ChangeProperty, Inv, Typed
<1> HIDE DEF pd
<1>4. used' \subseteq Streams /\ failed' \in BOOLEAN /\ refused' \in BOOLEAN
  BY <1>3 DEF Inv, Typed
<1> QED BY <1>2, <1>3, <1>4, QuietStep

LEMMA DropSenderKeeps ==
  ASSUME Inv, NEW p \in Peer, NEW s, DropSender(p, s)
  PROVE  Inv' /\ StepPlaced
<1> DEFINE pd == [peer[p] EXCEPT !.senders[s].open = FALSE]
<1>1. s \in DOMAIN peer[p].senders /\ Sound(p, peer[p])
  BY DEF DropSender, Inv
<1>2. /\ Sound(p, pd) /\ Stays(peer[p], pd)
      /\ \A mode : Ready(peer[p], mode) => Ready(pd, mode)
  BY <1>1, DroppedSender
<1>3. peer' = [peer EXCEPT ![p] = pd] /\ UNCHANGED <<describing, wire, used, failed, refused>>
  BY DEF DropSender, Inv, Typed
<1> HIDE DEF pd
<1>4. used' \subseteq Streams /\ failed' \in BOOLEAN /\ refused' \in BOOLEAN
  BY <1>3 DEF Inv, Typed
<1> QED BY <1>2, <1>3, <1>4, QuietStep

LEMMA PollKeeps ==
  ASSUME Inv, NEW p \in Peer, Poll(p)
  PROVE  Inv' /\ StepPlaced
<1> DEFINE pc == RemoveClosed(peer[p])
           pd == [pc EXCEPT !.signalling_state = "NegotiationRequired"]
<1>1. Sound(p, pc) /\ Stays(peer[p], pc)
  BY ClosedSound DEF Inv
<1>2. /\ describing[p] = <<>> /\ UNCHANGED <<describing, wire, used, failed, refused>>
      /\ \/ peer' = [peer EXCEPT ![p] = pc]
         \/ /\ pc.signalling_state = "Negotiated"
            /\ peer' = [peer EXCEPT ![p] = pd]
  BY DEF Poll
<1> HIDE DEF pc
<1>3. used' \subseteq Streams /\ failed' \in BOOLEAN /\ refused' \in BOOLEAN
  BY <1>2 DEF Inv, Typed
<1>4. CASE peer' = [peer EXCEPT ![p] = pc]
  BY <1>1, <1>2, <1>3, <1>4, QuietStep
<1>5. CASE pc.signalling_state = "Negotiated" /\ peer' = [peer EXCEPT ![p] = pd]
  <2>1. Sound(p, pd)
    BY <1>1, StateSound DEF SignallingState
  <2>2. pc \in PeerRecord
    BY <1>1 DEF Sound
  <2>3. pd.lines = pc.lines /\ pd.signalling_state = "NegotiationRequired"
    BY <2>2 DEF PeerRecord
  <2> HIDE DEF pd
  <2>4. Placed(peer[p], pd)
    BY <1>1, <2>3 DEF Stays, Placed
  <2>5. SameTurn(peer[p].signalling_state, pd.signalling_state)
    BY <1>1, <1>5, <2>3 DEF Stays, SameTurn
  <2> QED BY <1>2, <1>3, <1>5, <2>1, <2>4, <2>5, PeerStep
<1> QED BY <1>2, <1>4, <1>5
\* create_local_description up to the promotion, or up to its error.
LEMMA CreateLocalDescriptionKeeps ==
  ASSUME Inv, NEW p \in Peer, CreateLocalDescription(p)
  PROVE  Inv' /\ StepPlaced
<1> DEFINE state == peer[p].signalling_state
           offer == state # "HaveRemoteOffer"
           mode == IF offer THEN "offer" ELSE "answer"
           pb == IF offer THEN AssignIndexes(peer[p]) ELSE peer[p]
           pc == RemoveClosed(pb)
           d == [mode |-> mode, media |-> MediaOf(pc)]
           pd == Written(pc)
<1>1. Sound(p, peer[p]) /\ peer[p] \in PeerRecord /\ state \in SignallingState
  BY RecordTypes DEF Inv, Sound
<1>2. /\ describing[p] = <<>> /\ MayDescribe(state)
      /\ UNCHANGED <<wire, used, refused>>
      /\ \/ /\ describing' = [describing EXCEPT ![p] = <<d>>]
            /\ peer' = [peer EXCEPT ![p] = pd]
            /\ UNCHANGED failed
         \/ /\ peer' = [peer EXCEPT ![p] = pc]
            /\ failed' = (failed \/ state = "None")
            /\ UNCHANGED describing
  BY DEF CreateLocalDescription
<1>3. /\ Sound(p, pb) /\ Stays(peer[p], pb)
      /\ offer => \A i \in DOMAIN pb.lines : pb.lines[i].index # NoIndex
  BY <1>1, AssignedSound, StaysOn
<1> HIDE DEF pb
<1>4. /\ Sound(p, pc) /\ Stays(pb, pc)
      /\ offer => \A i \in DOMAIN pc.lines : pc.lines[i].index # NoIndex
  BY <1>3, ClosedSound
<1>5. Stays(peer[p], pc)
  BY <1>3, <1>4, StaysTransitive
<1> HIDE DEF pc
<1>6. used' \subseteq Streams /\ refused' \in BOOLEAN /\ failed' \in BOOLEAN
  BY <1>2 DEF Inv, Typed
<1>7. CASE /\ peer' = [peer EXCEPT ![p] = pc]
           /\ UNCHANGED describing
  BY <1>2, <1>4, <1>5, <1>6, <1>7, QuietStep
<1>8. CASE /\ describing' = [describing EXCEPT ![p] = <<d>>]
           /\ peer' = [peer EXCEPT ![p] = pd]
  <2>1. Sound(p, pd) /\ Stays(pc, pd) /\ Ready(pd, mode)
    BY <1>4, WrittenSound
  <2>2. Stays(peer[p], pd)
    BY <1>5, <2>1, StaysTransitive
  <2>3. MediaOf(pc) \in Seq(Medium) /\ \A k \in DOMAIN MediaOf(pc) : MediaOf(pc)[k].streams \subseteq Ssrc[p]
    BY <1>4, MediaTyped
  <2>4. d.mode = mode /\ d.media = MediaOf(pc) /\ mode \in {"offer", "answer"}
    OBVIOUS
  <2>5. d \in Description /\ From(p, d)
    BY <2>3, <2>4 DEF Description, Medium, From
  <2>6. pd.signalling_state = state /\ state \in IF d.mode = "offer" THEN {"None", "NegotiationRequired"} ELSE {"HaveRemoteOffer"}
    BY <1>1, <1>2, <2>2 DEF Stays, MayDescribe, SignallingState
  <2>7. Placed(peer[p], pd)
    BY <2>2, StaysPlaced
  <2> HIDE DEF d, pd, mode
  <2>8. /\ peer'[p] = pd /\ \A q \in Peer : q # p => peer'[q] = peer[q]
        /\ describing'[p] = <<d>> /\ \A q \in Peer : q # p => describing'[q] = describing[q]
        /\ peer' \in [Peer -> PeerRecord] /\ describing' \in [Peer -> Seq(Description)]
    BY <1>8, <2>1, <2>5 DEF Inv, Typed, Sound
  <2>9. Typed'
    BY <1>2, <1>6, <2>8 DEF Inv, Typed
  <2>10. ASSUME NEW q \in Peer
         PROVE  Sound(q, peer'[q]) /\ Writing(q)' /\ Carried(q)' /\ Turn(q)' /\ Placed(peer[q], peer'[q])
    <3>1. Sound(q, peer'[q]) /\ Placed(peer[q], peer'[q])
      BY <2>1, <2>7, <2>8, PlacedOn DEF Inv
    <3>2. Writing(q)'
      <4>1. CASE q = p
        <5>1. describing'[q] = <<d>> /\ Head(describing'[q]) = d
          BY <2>8, <4>1
        <5> QED BY <2>1, <2>4, <2>5, <2>6, <2>8, <4>1, <5>1 DEF Writing
      <4>2. CASE q # p
        BY <2>8, <4>2 DEF Inv, Writing
      <4> QED BY <4>1, <4>2
    <3>3. Carried(q)'
      BY <1>2 DEF Inv, Carried
    <3>4. Turn(q)'
      <4>1. Turn(q) /\ Other(q) \in Peer /\ Other(q) # q
        BY TwoPeers DEF Inv
      <4>2. \A r \in Peer : peer'[r].signalling_state = peer[r].signalling_state
        BY <2>6, <2>8
      <4> QED BY <1>2, <4>1, <4>2 DEF Turn
    <3> QED BY <3>1, <3>2, <3>3, <3>4
  <2> QED BY <2>9, <2>10 DEF Inv, StepPlaced
<1> QED BY <1>2, <1>7, <1>8

-----------------------------------------------------------------------------
(* The steps on the wire.                                                  *)

LEMMA AppendOnce ==
  ASSUME NEW w \in Seq(Description), NEW d \in Description
  PROVE  /\ Append(w, d) \in Seq(Description)
         /\ \A mode : Has(Append(w, d), mode) <=> Has(w, mode) \/ d.mode = mode
         /\ \A mode : Once(w, mode) /\ (d.mode = mode => ~Has(w, mode)) => Once(Append(w, d), mode)
         /\ \A q : From(q, d) /\ (\A i \in DOMAIN w : From(q, w[i]))
              => \A i \in DOMAIN Append(w, d) : From(q, Append(w, d)[i])
<1> DEFINE n == Len(w)
           v == Append(w, d)
<1>1. /\ n \in Nat /\ DOMAIN w = 1 .. n /\ DOMAIN v = (1 .. n) \cup {n + 1} /\ n + 1 \notin 1 .. n
      /\ v[n + 1] = d /\ \A i \in 1 .. n : v[i] = w[i]
  OBVIOUS
<1>2. v \in Seq(Description)
  OBVIOUS
<1> HIDE DEF v, n
<1>3. \A mode : Has(v, mode) <=> Has(w, mode) \/ d.mode = mode
  BY <1>1 DEF Has
<1>4. \A mode : Once(w, mode) /\ (d.mode = mode => ~Has(w, mode)) => Once(v, mode)
  BY <1>1 DEF Has, Once
<1>5. \A q : From(q, d) /\ (\A i \in DOMAIN w : From(q, w[i])) => \A i \in DOMAIN v : From(q, v[i])
  BY <1>1
<1> QED BY <1>2, <1>3, <1>4, <1>5 DEF v

LEMMA TailOnce ==
  ASSUME NEW w \in Seq(Description), w # <<>>
  PROVE  /\ Tail(w) \in Seq(Description) /\ Head(w) \in Description
         /\ 1 \in DOMAIN w /\ Head(w) = w[1]
         /\ \A mode : Has(Tail(w), mode) => Has(w, mode)
         /\ Has(w, Head(w).mode)
         /\ Once(w, Head(w).mode) => ~Has(Tail(w), Head(w).mode)
         /\ \A mode : Once(w, mode) => Once(Tail(w), mode)
         /\ \A q : (\A i \in DOMAIN w : From(q, w[i])) => \A i \in DOMAIN Tail(w) : From(q, Tail(w)[i])
<1> DEFINE n == Len(w)
           v == Tail(w)
<1>1. /\ n \in Nat /\ n # 0 /\ DOMAIN w = 1 .. n /\ DOMAIN v = 1 .. n - 1
      /\ \A i \in 1 .. n - 1 : v[i] = w[i + 1] /\ i + 1 \in 1 .. n /\ i + 1 # 1
  OBVIOUS
<1>2. v \in Seq(Description) /\ Head(w) \in Description /\ Head(w) = w[1] /\ 1 \in DOMAIN w
  OBVIOUS
<1> HIDE DEF v, n
<1>3. \A mode : Has(v, mode) => Has(w, mode)
  BY <1>1 DEF Has
<1>4. Has(w, Head(w).mode)
  BY <1>2 DEF Has
<1>5. Once(w, Head(w).mode) => ~Has(v, Head(w).mode)
  BY <1>1, <1>2 DEF Has, Once
<1>6. \A mode : Once(w, mode) => Once(v, mode)
  <2> SUFFICES ASSUME NEW mode, Once(w, mode), NEW i \in DOMAIN v, NEW j \in DOMAIN v,
                      v[i].mode = mode, v[j].mode = mode
               PROVE  i = j
    BY DEF Once
  <2>1. i + 1 = j + 1
    BY <1>1 DEF Once
  <2> QED BY <1>1, <2>1
<1>7. \A q : (\A i \in DOMAIN w : From(q, w[i])) => \A i \in DOMAIN v : From(q, v[i])
  BY <1>1
<1> QED BY <1>2, <1>3, <1>4, <1>5, <1>6, <1>7 DEF v
\* promote_negotiation, and the description is sent.
LEMMA PromoteNegotiationKeeps ==
  ASSUME Inv, NEW p \in Peer, PromoteNegotiation(p)
  PROVE  Inv' /\ StepPlaced
<1> DEFINE q == Other(p)
           d == Head(describing[p])
           ids == LineIds(Registered(peer[p]))
           offered == Promoted(peer[p], ids, {"None", "Changed"}, "Propagated")
           answered == Promoted(peer[p], ids, NegotiationState, "Negotiated")
           pd == IF d.mode = "offer" THEN [offered EXCEPT !.signalling_state = "HaveLocalOffer"]
                                     ELSE [answered EXCEPT !.signalling_state = "Negotiated"]
           sp == peer[p].signalling_state
           sq == peer[q].signalling_state
<1>1. /\ Sound(p, peer[p]) /\ Writing(p) /\ Carried(q) /\ Turn(p) /\ Turn(q)
      /\ q \in Peer /\ q # p /\ Other(q) = p /\ \A r \in Peer : r = p \/ r = q
      /\ describing[p] \in Seq(Description) /\ wire[q] \in Seq(Description)
  BY InvParts, TwoPeers
<1>2. /\ describing[p] # <<>>
      /\ peer' = [peer EXCEPT ![p] = pd]
      /\ describing' = [describing EXCEPT ![p] = <<>>]
      /\ wire' = [wire EXCEPT ![q] = Append(wire[q], d)]
      /\ UNCHANGED <<used, failed, refused>>
  BY <1>1 DEF PromoteNegotiation, Inv, Typed
<1>3. /\ d \in Description /\ From(p, d) /\ Ready(peer[p], d.mode)
      /\ sp \in IF d.mode = "offer" THEN {"None", "NegotiationRequired"} ELSE {"HaveRemoteOffer"}
      /\ d.mode \in {"offer", "answer"}
  <2>1. d \in Description
    BY <1>1, <1>2
  <2> QED BY <1>1, <1>2, <2>1 DEF Writing, Description
<1>4. /\ Sound(p, pd) /\ Placed(peer[p], pd)
      /\ pd.signalling_state = IF d.mode = "offer" THEN "HaveLocalOffer" ELSE "Negotiated"
  <2>1. CASE d.mode = "offer"
    <3>1. Sound(p, offered) /\ Stays(peer[p], offered)
      BY <1>1, <1>3, <2>1, OfferPromotedSound
    <3> HIDE DEF offered
    <3>2. offered \in PeerRecord /\ "HaveLocalOffer" \in SignallingState
      BY <3>1 DEF Sound, SignallingState
    <3> DEFINE pe == [offered EXCEPT !.signalling_state = "HaveLocalOffer"]
    <3>3. pe.lines = offered.lines /\ pe.signalling_state = "HaveLocalOffer"
      BY <3>2 DEF PeerRecord
    <3>4. Sound(p, pe)
      BY <3>1, <3>2, StateSound
    <3> HIDE DEF pe
    <3>5. Placed(peer[p], pe)
      BY <3>1, <3>3 DEF Stays, Placed
    <3> QED BY <2>1, <3>3, <3>4, <3>5 DEF pe
  <2>2. CASE d.mode = "answer"
    <3>1. Sound(p, answered) /\ Stays(peer[p], answered)
      BY <1>1, <1>3, <2>2, AnswerPromotedSound
    <3> HIDE DEF answered
    <3>2. answered \in PeerRecord /\ "Negotiated" \in SignallingState
      BY <3>1 DEF Sound, SignallingState
    <3> DEFINE pe == [answered EXCEPT !.signalling_state = "Negotiated"]
    <3>3. pe.lines = answered.lines /\ pe.signalling_state = "Negotiated"
      BY <3>2 DEF PeerRecord
    <3>4. Sound(p, pe)
      BY <3>1, <3>2, StateSound
    <3> HIDE DEF pe
    <3>5. Placed(peer[p], pe)
      BY <3>1, <3>3 DEF Stays, Placed
    <3> QED BY <2>2, <3>3, <3>4, <3>5 DEF pe
  <2> QED BY <1>3, <2>1, <2>2
<1> DEFINE w == Append(wire[q], d)
<1>5. /\ w \in Seq(Description)
      /\ \A mode : Has(w, mode) <=> Has(wire[q], mode) \/ d.mode = mode
      /\ \A mode : Once(wire[q], mode) /\ (d.mode = mode => ~Has(wire[q], mode)) => Once(w, mode)
      /\ \A i \in DOMAIN w : From(p, w[i])
  BY <1>1, <1>3, AppendOnce DEF Carried
<1>6. /\ peer'[p] = pd /\ peer'[q] = peer[q] /\ peer' \in [Peer -> PeerRecord]
      /\ describing'[p] = <<>> /\ describing'[q] = describing[q]
      /\ describing' \in [Peer -> Seq(Description)]
      /\ wire'[q] = w /\ wire'[p] = wire[p] /\ wire' \in [Peer -> Seq(Description)]
  <2>1. <<>> \in Seq(Description)
    OBVIOUS
  <2> QED BY <1>1, <1>2, <1>4, <1>5, <2>1 DEF Inv, Typed, Sound
<1> HIDE DEF pd, w, d, q
<1>7. Typed'
  BY <1>2, <1>6 DEF Inv, Typed
<1>8. Sound(p, peer'[p]) /\ Sound(q, peer'[q]) /\ Placed(peer[p], peer'[p]) /\ Placed(peer[q], peer'[q])
  BY <1>1, <1>4, <1>6, PlacedOn DEF Inv
<1>9. Writing(p)' /\ Writing(q)'
  BY <1>1, <1>6 DEF Inv, Writing
<1>10. Carried(p)' /\ Carried(q)'
  BY <1>1, <1>5, <1>6 DEF Inv, Carried
<1>11. /\ Once(wire[q], "offer") /\ Once(wire[p], "answer")
       /\ Has(wire[q], "offer") => sp = "HaveLocalOffer" /\ sq # "HaveRemoteOffer" /\ ~Has(wire[p], "answer")
       /\ Has(wire[p], "answer") => sp = "HaveLocalOffer" /\ sq # "HaveRemoteOffer"
       /\ sq = "HaveRemoteOffer" => sp = "HaveLocalOffer"
  BY <1>1 DEF Turn, q
<1>12. /\ Once(wire[p], "offer") /\ Once(wire[q], "answer")
       /\ Has(wire[p], "offer") => sq = "HaveLocalOffer" /\ sp # "HaveRemoteOffer" /\ ~Has(wire[q], "answer")
       /\ Has(wire[q], "answer") => sq = "HaveLocalOffer" /\ sp # "HaveRemoteOffer"
       /\ sp = "HaveRemoteOffer" => sq = "HaveLocalOffer"
  BY <1>1 DEF Turn
<1> HIDE DEF sp, sq
<1>13. /\ peer'[q].signalling_state = sq
       /\ peer'[p].signalling_state = IF d.mode = "offer" THEN "HaveLocalOffer" ELSE "Negotiated"
  BY <1>4, <1>6 DEF sq
<1>14. Turn(p)'
  <2>1. /\ Once(w, "offer")
        /\ Has(w, "offer") => d.mode = "offer" /\ sq # "HaveRemoteOffer" /\ ~Has(wire[p], "answer")
    BY <1>3, <1>5, <1>11
  <2>2. Has(wire[p], "answer") => FALSE
    BY <1>3, <1>11
  <2>3. sq # "HaveRemoteOffer"
    BY <1>3, <1>11, <1>12
  <2> QED BY <1>6, <1>11, <1>13, <2>1, <2>2, <2>3 DEF Turn, q
<1>15. Turn(q)'
  <2>1. d.mode = "answer" => ~Has(wire[q], "answer") /\ ~Has(wire[p], "offer") /\ sq = "HaveLocalOffer"
    BY <1>3, <1>12
  <2>2. Once(w, "answer") /\ (Has(w, "answer") => sq = "HaveLocalOffer")
    BY <1>5, <1>12, <2>1
  <2>3. Has(wire[p], "offer") => sq = "HaveLocalOffer" /\ ~Has(w, "answer")
    BY <1>5, <1>12, <2>1
  <2>4. peer'[p].signalling_state # "HaveRemoteOffer"
    BY <1>13
  <2> QED BY <1>1, <1>6, <1>12, <1>13, <2>2, <2>3, <2>4 DEF Turn
<1>16. \A r \in Peer : /\ Sound(r, peer'[r]) /\ Writing(r)' /\ Carried(r)' /\ Turn(r)'
                       /\ Placed(peer[r], peer'[r])
  BY <1>1, <1>8, <1>9, <1>10, <1>14, <1>15
<1> QED BY <1>7, <1>16 DEF Inv, StepPlaced
LEMMA AppliedSound ==
  ASSUME NEW p \in Peer, NEW pc, Sound(p, pc)
  PROVE  /\ Sound(p, Applied(pc)) /\ Placed(pc, Applied(pc))
         /\ Applied(pc).signalling_state =
              IF pc.signalling_state = "HaveLocalOffer" THEN "Negotiated" ELSE "HaveRemoteOffer"
<1> DEFINE settled == Promoted(pc, LineIds(Range(pc.lines)), {"Propagated"}, "Negotiated")
           pd == [settled EXCEPT !.signalling_state = "Negotiated"]
           pe == [pc EXCEPT !.signalling_state = "HaveRemoteOffer"]
<1>1. Applied(pc) = IF pc.signalling_state = "HaveLocalOffer" THEN pd ELSE pe
  BY DEF Applied
<1>2. Sound(p, settled) /\ Stays(pc, settled)
  BY SettledSound
<1> HIDE DEF settled
<1>3. Sound(p, pd) /\ Sound(p, pe)
  BY <1>2, StateSound DEF SignallingState
<1>4. settled \in PeerRecord /\ pc \in PeerRecord
  BY <1>2 DEF Sound
<1>5. /\ pd.lines = settled.lines /\ pd.signalling_state = "Negotiated"
      /\ pe.lines = pc.lines /\ pe.signalling_state = "HaveRemoteOffer"
  BY <1>4 DEF PeerRecord
<1> HIDE DEF pd, pe
<1>6. Placed(pc, pd) /\ Placed(pc, pe)
  BY <1>2, <1>5 DEF Stays, Placed
<1> QED BY <1>1, <1>3, <1>5, <1>6

LEMMA SetRemoteDescriptionKeeps ==
  ASSUME Inv, NEW p \in Peer, SetRemoteDescription(p)
  PROVE  Inv' /\ StepPlaced
<1> DEFINE q == Other(p)
           d == Head(wire[p])
           sp == peer[p].signalling_state
           sq == peer[q].signalling_state
           accepted == Accepts(sp, d.mode)
           result == ApplyMedia(p, peer[p], d.media)
           pd == IF ~accepted THEN peer[p] ELSE IF result.ok THEN Applied(result.pc) ELSE result.pc
           w == Tail(wire[p])
<1>1. /\ Sound(p, peer[p]) /\ Carried(p) /\ Turn(p) /\ Turn(q) /\ sp \in SignallingState
      /\ q \in Peer /\ q # p /\ Other(q) = p /\ \A r \in Peer : r = p \/ r = q
      /\ wire[p] \in Seq(Description)
  BY InvParts, TwoPeers DEF PeerRecord
<1>2. /\ wire[p] # <<>> /\ describing[p] = <<>>
      /\ peer' = [peer EXCEPT ![p] = pd]
      /\ wire' = [wire EXCEPT ![p] = w]
      /\ refused' = (refused \/ ~accepted \/ ~result.ok)
      /\ UNCHANGED <<describing, used, failed>>
  BY <1>1 DEF SetRemoteDescription, Delivered, Inv, Typed
<1>3. /\ w \in Seq(Description) /\ d \in Description /\ From(q, d)
      /\ \A mode : Has(w, mode) => Has(wire[p], mode)
      /\ Has(wire[p], d.mode)
      /\ Once(wire[p], d.mode) => ~Has(w, d.mode)
      /\ \A mode : Once(wire[p], mode) => Once(w, mode)
      /\ \A i \in DOMAIN w : From(q, w[i])
  BY <1>1, <1>2, TailOnce DEF Carried
<1> HIDE DEF w
<1>4. d.media \in Seq(Medium) /\ d.mode \in {"offer", "answer"}
  BY <1>3 DEF Description, Medium
<1>5. /\ result \in [ok : BOOLEAN, pc : PeerRecord]
      /\ Sound(p, result.pc) /\ Stays(peer[p], result.pc)
  BY <1>1, <1>3, <1>4, AppliedMedia DEF From
<1> HIDE DEF d, result
<1>6. /\ Sound(p, pd) /\ Placed(peer[p], pd)
      /\ \/ pd.signalling_state = sp
         \/ d.mode = "offer" /\ sp \in {"None", "Negotiated"} /\ pd.signalling_state = "HaveRemoteOffer"
         \/ d.mode = "answer" /\ sp = "HaveLocalOffer" /\ pd.signalling_state = "Negotiated"
  <2>1. CASE ~accepted
    <3>1. pd = peer[p]
      BY <2>1
    <3> QED BY <1>1, <3>1, PlacedOn
  <2>2. CASE accepted /\ ~result.ok
    <3>1. pd = result.pc
      BY <2>2
    <3> QED BY <1>5, <3>1, StaysPlaced DEF Stays
  <2>3. CASE accepted /\ result.ok
    <3>1. pd = Applied(result.pc) /\ result.pc.signalling_state = sp
      BY <1>5, <2>3 DEF Stays
    <3>2. /\ Sound(p, pd) /\ Placed(result.pc, pd)
          /\ pd.signalling_state = IF sp = "HaveLocalOffer" THEN "Negotiated" ELSE "HaveRemoteOffer"
      BY <1>5, <3>1, AppliedSound
    <3> HIDE DEF pd
    <3>3. Placed(peer[p], pd)
      BY <1>5, <3>2 DEF Stays, Placed
    <3>4. \/ d.mode = "offer" /\ sp \in {"None", "Negotiated"}
          \/ d.mode = "answer" /\ sp = "HaveLocalOffer"
      BY <1>4, <2>3 DEF Accepts
    <3> QED BY <3>2, <3>3, <3>4
  <2> QED BY <1>5, <2>1, <2>2, <2>3
<1> HIDE DEF pd
<1>7. /\ peer'[p] = pd /\ peer'[q] = peer[q] /\ peer' \in [Peer -> PeerRecord]
      /\ wire'[p] = w /\ wire'[q] = wire[q] /\ wire' \in [Peer -> Seq(Description)]
      /\ describing' = describing
  BY <1>1, <1>2, <1>3, <1>6 DEF Inv, Typed, Sound
<1>8. Typed'
  <2>1. refused' \in BOOLEAN
    BY <1>2
  <2> QED BY <1>2, <1>7, <2>1 DEF Inv, Typed
<1>9. Sound(p, peer'[p]) /\ Sound(q, peer'[q]) /\ Placed(peer[p], peer'[p]) /\ Placed(peer[q], peer'[q])
  BY <1>1, <1>6, <1>7, PlacedOn DEF Inv
<1>10. Writing(p)' /\ Writing(q)'
  BY <1>1, <1>2, <1>7 DEF Inv, Writing
<1>11. Carried(p)' /\ Carried(q)'
  BY <1>1, <1>3, <1>7 DEF Inv, Carried
<1>12. /\ Once(wire[q], "offer") /\ Once(wire[p], "answer")
       /\ Has(wire[q], "offer") => sp = "HaveLocalOffer" /\ sq # "HaveRemoteOffer" /\ ~Has(wire[p], "answer")
       /\ Has(wire[p], "answer") => sp = "HaveLocalOffer" /\ sq # "HaveRemoteOffer"
       /\ sq = "HaveRemoteOffer" => sp = "HaveLocalOffer"
  BY <1>1 DEF Turn, q
<1>13. /\ Once(wire[p], "offer") /\ Once(wire[q], "answer")
       /\ Has(wire[p], "offer") => sq = "HaveLocalOffer" /\ sp # "HaveRemoteOffer" /\ ~Has(wire[q], "answer")
       /\ Has(wire[q], "answer") => sq = "HaveLocalOffer" /\ sp # "HaveRemoteOffer"
       /\ sp = "HaveRemoteOffer" => sq = "HaveLocalOffer"
  BY <1>1 DEF Turn
<1> HIDE DEF sp, sq, q
<1>14. peer'[q].signalling_state = sq /\ peer'[p].signalling_state = pd.signalling_state
  BY <1>7 DEF sq
<1> DEFINE tp == pd.signalling_state
<1> HIDE DEF tp
<1>15. tp = sp \/ (d.mode = "offer" /\ sp \in {"None", "Negotiated"} /\ tp = "HaveRemoteOffer")
               \/ (d.mode = "answer" /\ sp = "HaveLocalOffer" /\ tp = "Negotiated")
  BY <1>6 DEF tp
<1>16. /\ Once(wire[q], "offer") /\ Once(w, "answer")
       /\ Has(wire[q], "offer") => tp = "HaveLocalOffer" /\ sq # "HaveRemoteOffer" /\ ~Has(w, "answer")
       /\ Has(w, "answer") => tp = "HaveLocalOffer" /\ sq # "HaveRemoteOffer"
       /\ sq = "HaveRemoteOffer" => tp = "HaveLocalOffer"
  <2>1. CASE tp = sp
    BY <1>3, <1>12, <2>1
  <2>2. CASE d.mode = "offer" /\ sp \in {"None", "Negotiated"} /\ tp = "HaveRemoteOffer"
    BY <1>3, <1>12, <1>13, <2>2
  <2>3. CASE d.mode = "answer" /\ sp = "HaveLocalOffer" /\ tp = "Negotiated"
    BY <1>3, <1>12, <2>3
  <2> QED BY <1>15, <2>1, <2>2, <2>3
<1>17. /\ Once(w, "offer") /\ Once(wire[q], "answer")
       /\ Has(w, "offer") => sq = "HaveLocalOffer" /\ tp # "HaveRemoteOffer" /\ ~Has(wire[q], "answer")
       /\ Has(wire[q], "answer") => sq = "HaveLocalOffer" /\ tp # "HaveRemoteOffer"
       /\ tp = "HaveRemoteOffer" => sq = "HaveLocalOffer"
  <2>1. CASE tp = sp
    BY <1>3, <1>13, <2>1
  <2>2. CASE d.mode = "offer" /\ sp \in {"None", "Negotiated"} /\ tp = "HaveRemoteOffer"
    BY <1>3, <1>13, <2>2
  <2>3. CASE d.mode = "answer" /\ sp = "HaveLocalOffer" /\ tp = "Negotiated"
    BY <1>3, <1>13, <2>3
  <2> QED BY <1>15, <2>1, <2>2, <2>3
<1>18. Turn(p)' /\ Turn(q)'
  BY <1>1, <1>7, <1>14, <1>16, <1>17 DEF Turn, tp, q
<1>19. \A r \in Peer : /\ Sound(r, peer'[r]) /\ Writing(r)' /\ Carried(r)' /\ Turn(r)'
                       /\ Placed(peer[r], peer'[r])
  BY <1>1, <1>9, <1>10, <1>11, <1>18
<1> QED BY <1>8, <1>19 DEF Inv, StepPlaced
-----------------------------------------------------------------------------
(* What follows.                                                           *)

LEMMA InitInv == Init => Inv
<1> SUFFICES ASSUME Init PROVE Inv
  OBVIOUS
<1>1. /\ NewPeer.signalling_state = "None" /\ NewPeer.lines = <<>> /\ NewPeer.senders = <<>>
      /\ NewPeer.receivers = <<>> /\ NewPeer.channel = FALSE /\ NewPeer.owner = 0 /\ NewPeer.made = 0
  BY DEF NewPeer, NoOwner
<1>2. DOMAIN <<>> = {}
  OBVIOUS
<1>3. <<>> \in Partial(Streams, Sender) /\ <<>> \in Partial(Streams, Nat)
  <2>1. <<>> \in [{} -> Sender] /\ <<>> \in [{} -> Nat]
    OBVIOUS
  <2> QED BY <2>1, PartialMade
<1>4. NewPeer \in PeerRecord
  <2>1. <<>> \in Seq(Line) /\ "None" \in SignallingState /\ 0 \in Nat
    BY DEF SignallingState
  <2> QED BY <1>3, <2>1 DEF NewPeer, PeerRecord, NoOwner
<1>5. ASSUME NEW p \in Peer PROVE Sound(p, NewPeer)
  <2>1. Places(NewPeer, 0)
    BY <1>1, <1>2 DEF Places
  <2>2. InPlace(NewPeer)
    BY <2>1 DEF InPlace
  <2>3. Belongs(p, NewPeer) /\ Distinct(NewPeer)
    BY <1>1, <1>2 DEF Belongs, Distinct
  <2>4. OnLine(NewPeer) /\ Unregistered(NewPeer) /\ Channelled(NewPeer) /\ StaleSeen(NewPeer)
    BY <1>1, <1>2 DEF OnLine, Unregistered, Channelled, StaleSeen
  <2> QED BY <1>4, <2>2, <2>3, <2>4 DEF Sound
<1>6. /\ \A p \in Peer : peer[p] = NewPeer /\ describing[p] = <<>> /\ wire[p] = <<>>
      /\ used = {} /\ failed = FALSE /\ refused = FALSE
  BY DEF Init
<1>7. Typed
  <2>1. <<>> \in Seq(Description)
    OBVIOUS
  <2> QED BY <1>4, <2>1 DEF Init, Typed
<1>8. ASSUME NEW p \in Peer PROVE Turn(p)
  <2>1. \A mode : ~Has(<<>>, mode) /\ Once(<<>>, mode)
    BY <1>2 DEF Has, Once
  <2> QED BY <1>1, <1>6, <2>1, TwoPeers DEF Turn
<1>9. \A p \in Peer : Writing(p) /\ Carried(p)
  BY <1>2, <1>6 DEF Writing, Carried
<1> QED BY <1>5, <1>6, <1>7, <1>8, <1>9 DEF Inv

LEMMA NextInv ==
  ASSUME Inv, [Next]_vars
  PROVE  Inv' /\ StepPlaced
<1>1. CASE UNCHANGED vars
  <2>1. /\ peer' = peer /\ describing' = describing /\ wire' = wire
        /\ used' = used /\ failed' = failed /\ refused' = refused
    BY <1>1 DEF vars
  <2>2. Typed'
    BY <2>1 DEF Inv, Typed
  <2>3. \A p \in Peer : Sound(p, peer'[p]) /\ Writing(p)' /\ Carried(p)' /\ Turn(p)'
    BY <2>1 DEF Inv, Writing, Carried, Turn
  <2>4. StepPlaced
    BY <2>1, PlacedOn DEF StepPlaced
  <2> QED BY <2>2, <2>3, <2>4 DEF Inv
<1>2. CASE Next
  <2>1. PICK p \in Peer :
          \/ \E s \in Streams : \/ \E type \in Media : CreateMediaSender(p, s, type)
                                \/ ChangeProperty(p, s)
                                \/ DropSender(p, s)
          \/ CreateDataChannel(p)
          \/ \E i \in DOMAIN peer[p].lines : RegisterLocalCodec(p, i)
          \/ CreateLocalDescription(p)
          \/ PromoteNegotiation(p)
          \/ SetRemoteDescription(p)
          \/ Poll(p)
    BY <1>2 DEF Next
  <2>2. CASE \E s \in Streams : \E type \in Media : CreateMediaSender(p, s, type)
    BY <2>2, CreateMediaSenderKeeps
  <2>3. CASE \E s \in Streams : ChangeProperty(p, s)
    BY <2>3, ChangePropertyKeeps
  <2>4. CASE \E s \in Streams : DropSender(p, s)
    BY <2>4, DropSenderKeeps
  <2>5. CASE CreateDataChannel(p)
    BY <2>5, CreateDataChannelKeeps
  <2>6. CASE \E i \in DOMAIN peer[p].lines : RegisterLocalCodec(p, i)
    BY <2>6, RegisterLocalCodecKeeps
  <2>7. CASE CreateLocalDescription(p)
    BY <2>7, CreateLocalDescriptionKeeps
  <2>8. CASE PromoteNegotiation(p)
    BY <2>8, PromoteNegotiationKeeps
  <2>9. CASE SetRemoteDescription(p)
    BY <2>9, SetRemoteDescriptionKeeps
  <2>10. CASE Poll(p)
    BY <2>10, PollKeeps
  <2> QED BY <2>1, <2>2, <2>3, <2>4, <2>5, <2>6, <2>7, <2>8, <2>9, <2>10
<1> QED BY <1>1, <1>2

LEMMA Invariance == Spec => []Inv
<1>1. Init => Inv
  BY InitInv
<1>2. Inv /\ [Next]_vars => Inv'
  BY NextInv
<1> QED BY <1>1, <1>2, PTL DEF Spec

LEMMA AtMostOneAnswer ==
  ASSUME NEW w \in Seq(Description), Once(w, "answer")
  PROVE  LET answers == {i \in DOMAIN w : w[i].mode = "answer"}
         IN  Cardinality(answers) <= 1 /\ (answers # {} <=> Has(w, "answer"))
<1> DEFINE answers == {i \in DOMAIN w : w[i].mode = "answer"}
<1>1. answers # {} <=> Has(w, "answer")
  BY DEF Has
<1>2. CASE answers = {}
  <2>1. Cardinality(answers) = 0
    BY <1>2, FS_EmptySet
  <2> QED BY <1>1, <2>1
<1>3. CASE answers # {}
  <2>1. PICK i : answers = {i}
    BY <1>3 DEF Once
  <2>2. Cardinality(answers) = 1
    BY <2>1, FS_Singleton
  <2> QED BY <1>1, <2>2
<1> QED BY <1>2, <1>3

\* An offer that was accepted, or its answer, finds the other peer in HaveLocalOffer,
\* and no two answers are on their way: set_remote_description never refuses an answer
\* for the state (rtc.rs 438), and two peers never answer each other.
THEOREM AnswersAreAwaited == Spec => []OfferAwaited
<1>1. Inv => OfferAwaited
  <2> SUFFICES ASSUME Inv, NEW p \in Peer
               PROVE  LET answers == {i \in DOMAIN wire[p] : wire[p][i].mode = "answer"}
                      IN /\ Cardinality(answers) <= 1
                         /\ answers # {} \/ peer[Other(p)].signalling_state = "HaveRemoteOffer"
                              => peer[p].signalling_state = "HaveLocalOffer"
                         /\ answers # {} => peer[Other(p)].signalling_state # "HaveRemoteOffer"
    BY DEF OfferAwaited
  <2>1. wire[p] \in Seq(Description) /\ Turn(p)
    BY InvParts
  <2>2. Once(wire[p], "answer")
    BY <2>1 DEF Turn
  <2> DEFINE answers == {i \in DOMAIN wire[p] : wire[p][i].mode = "answer"}
  <2>3. Cardinality(answers) <= 1 /\ (answers # {} <=> Has(wire[p], "answer"))
    BY <2>1, <2>2, AtMostOneAnswer
  <2> HIDE DEF answers
  <2>4. /\ answers # {} \/ peer[Other(p)].signalling_state = "HaveRemoteOffer"
             => peer[p].signalling_state = "HaveLocalOffer"
        /\ answers # {} => peer[Other(p)].signalling_state # "HaveRemoteOffer"
    BY <2>1, <2>3 DEF Turn
  <2> QED BY <2>3, <2>4 DEF answers
<1> QED BY <1>1, Invariance, PTL

\* A property that register_property or unset_property changed is not taken for
\* negotiated before a description held it: promote_negotiation and an answer leave
\* its sender, or the line of it, pending (sender.rs, media_line.rs promote_*).
THEOREM ChangesStayPending == Spec => []ChangesPending
<1>1. Inv => ChangesPending
  <2> SUFFICES ASSUME Inv, NEW p \in Peer, NEW s \in DOMAIN peer[p].senders,
                      peer[p].senders[s].stale
               PROVE  \/ Pending(peer[p].senders[s].state)
                      \/ Pending(LineOf(peer[p], s).state)
    BY DEF ChangesPending
  <2>1. Sound(p, peer[p])
    BY InvParts
  <2>2. CASE Pending(peer[p].senders[s].state)
    BY <2>2
  <2>3. CASE ~Pending(peer[p].senders[s].state)
    <3>1. PICK i \in DOMAIN peer[p].lines :
            peer[p].lines[i].id = peer[p].senders[s].line /\ Pending(peer[p].lines[i].state)
      BY <2>1, <2>3 DEF Sound, StaleSeen
    <3>2. \A l \in Range(peer[p].lines) : l.id = peer[p].senders[s].line => l = peer[p].lines[i]
      BY <2>1, <3>1 DEF Sound, Distinct, Range
    <3>3. peer[p].lines[i] \in Range(peer[p].lines)
      BY DEF Range
    <3>4. LineOf(peer[p], s) = peer[p].lines[i]
      BY <3>1, <3>2, <3>3 DEF LineOf
    <3> QED BY <3>1, <3>4
  <2> QED BY <2>2, <2>3
<1> QED BY <1>1, Invariance, PTL

\* A line with an index keeps it, with its id and its type, whatever is removed
\* (rtc.rs 1111), assigned (632), adopted from a remote description (445) or refused.
THEOREM PlacesAreKept == Spec => LinesKeepTheirPlace
<1>1. Inv /\ [Next]_vars =>
        [\A p \in Peer : \A l \in Registered(peer[p]) :
           \E m \in Registered(peer'[p]) : m.id = l.id /\ m.index = l.index /\ m.type = l.type]_vars
  <2> SUFFICES ASSUME Inv, [Next]_vars, NEW p \in Peer, NEW l \in Registered(peer[p])
               PROVE  \E m \in Registered(peer'[p]) :
                        m.id = l.id /\ m.index = l.index /\ m.type = l.type
    OBVIOUS
  <2>1. Placed(peer[p], peer'[p])
    BY NextInv DEF StepPlaced
  <2>2. PICK i \in DOMAIN peer[p].lines : l = peer[p].lines[i] /\ l.index # NoIndex
    BY DEF Registered, Range
  <2>3. PICK j \in DOMAIN peer'[p].lines : /\ peer'[p].lines[j].id = l.id
                                           /\ peer'[p].lines[j].index = l.index
                                           /\ peer'[p].lines[j].type = l.type
    BY <2>1, <2>2 DEF Placed
  <2>4. peer'[p].lines[j] \in Registered(peer'[p])
    BY <2>2, <2>3 DEF Registered, Range
  <2> QED BY <2>3, <2>4
<1> QED BY <1>1, Invariance, PTL DEF Spec, LinesKeepTheirPlace
-----------------------------------------------------------------------------
(***************************************************************************)
(* The streams a peer receives.  Every stream has one index, its place,    *)
(* from when its line has one: the description that names it, the line of  *)
(* its sender and the remote line that hears it all have that index.       *)
(***************************************************************************)
Follows(pc) ==
  /\ \A s \in DOMAIN pc.receivers : \E i \in DOMAIN pc.lines : s \in pc.lines[i].remote
  /\ \A i \in DOMAIN pc.lines : \A s \in pc.lines[i].remote :
       s \in DOMAIN pc.receivers /\ pc.receivers[s] = pc.lines[i].id

Hears(place, pc) ==
  \A i \in DOMAIN pc.lines : \A s \in pc.lines[i].remote :
    pc.lines[i].index # NoIndex /\ place[s] = pc.lines[i].index

\* The place of a sender is the index of its line.
Homes(place, pc) ==
  \A s \in DOMAIN pc.senders, i \in DOMAIN pc.lines :
    pc.lines[i].id = pc.senders[s].line => place[s] = pc.lines[i].index

\* The places of the streams of p are lines of p.
Grounded(place, p, pc) ==
  \A s \in Ssrc[p] : place[s] # NoIndex =>
    \E i \in DOMAIN pc.lines : pc.lines[i].index = place[s] /\ pc.lines[i].type # Application

\* What a description of pc says.
Told(place, pc, d) ==
  \A k \in DOMAIN d.media :
    /\ \E i \in DOMAIN pc.lines : pc.lines[i].index = k /\ pc.lines[i].type = d.media[k].type
    /\ \A s \in d.media[k].streams : place[s] = k

Tracking(place) ==
  /\ place \in [Streams -> Nat]
  /\ \A s \in Streams \ used : place[s] = NoIndex
  /\ \A p \in Peer :
       /\ DOMAIN peer[p].senders \subseteq used
       /\ Homes(place, peer[p]) /\ Grounded(place, p, peer[p])
       /\ Hears(place, peer[p]) /\ Follows(peer[p])
       /\ \A i \in DOMAIN describing[p] : Told(place, peer[p], describing[p][i])
       /\ \A i \in DOMAIN wire[Other(p)] : Told(place, peer[p], wire[Other(p)][i])
Tracked == \E place : Tracking(place)

\* What a step leaves of the senders, the remote streams and the receivers.
SameRemote(l, m) == m.id = l.id /\ m.index = l.index /\ m.remote = l.remote
KeepsLines(pc, pd) ==
  \A s \in DOMAIN pd.senders : s \in DOMAIN pc.senders /\ pd.senders[s].line = pc.senders[s].line
KeepsRemotes(pc, pd) ==
  /\ pd.receivers = pc.receivers
  /\ \A i \in DOMAIN pc.lines : pc.lines[i].remote # {} =>
       \E j \in DOMAIN pd.lines : SameRemote(pc.lines[i], pd.lines[j])
  /\ \A j \in DOMAIN pd.lines : pd.lines[j].remote # {} =>
       \E i \in DOMAIN pc.lines : SameRemote(pc.lines[i], pd.lines[j])
Alike(pc, pd) == KeepsLines(pc, pd) /\ KeepsRemotes(pc, pd)

LEMMA AlikeOn == \A pc : Alike(pc, pc)
BY DEF Alike, KeepsLines, KeepsRemotes, SameRemote

LEMMA RemotesTransitive ==
  \A pc, pd, pe : KeepsRemotes(pc, pd) /\ KeepsRemotes(pd, pe) => KeepsRemotes(pc, pe)
<1> SUFFICES ASSUME NEW pc, NEW pd, NEW pe, KeepsRemotes(pc, pd), KeepsRemotes(pd, pe)
             PROVE  KeepsRemotes(pc, pe)
  OBVIOUS
<1>1. pe.receivers = pc.receivers
  BY DEF KeepsRemotes
<1>2. ASSUME NEW i \in DOMAIN pc.lines, pc.lines[i].remote # {}
      PROVE  \E k \in DOMAIN pe.lines : SameRemote(pc.lines[i], pe.lines[k])
  <2>1. PICK j \in DOMAIN pd.lines : SameRemote(pc.lines[i], pd.lines[j])
    BY <1>2 DEF KeepsRemotes
  <2>2. PICK k \in DOMAIN pe.lines : SameRemote(pd.lines[j], pe.lines[k])
    BY <1>2, <2>1 DEF KeepsRemotes, SameRemote
  <2> QED BY <2>1, <2>2 DEF SameRemote
<1>3. ASSUME NEW k \in DOMAIN pe.lines, pe.lines[k].remote # {}
      PROVE  \E i \in DOMAIN pc.lines : SameRemote(pc.lines[i], pe.lines[k])
  <2>1. PICK j \in DOMAIN pd.lines : SameRemote(pd.lines[j], pe.lines[k])
    BY <1>3 DEF KeepsRemotes
  <2>2. PICK i \in DOMAIN pc.lines : SameRemote(pc.lines[i], pd.lines[j])
    BY <1>3, <2>1 DEF KeepsRemotes, SameRemote
  <2> QED BY <2>1, <2>2 DEF SameRemote
<1> QED BY <1>1, <1>2, <1>3 DEF KeepsRemotes

LEMMA AlikeTransitive == \A pc, pd, pe : Alike(pc, pd) /\ Alike(pd, pe) => Alike(pc, pe)
<1>1. \A pc, pd, pe : KeepsLines(pc, pd) /\ KeepsLines(pd, pe) => KeepsLines(pc, pe)
  BY DEF KeepsLines
<1> QED BY <1>1, RemotesTransitive DEF Alike

LEMMA RemotesHeard ==
  ASSUME NEW place, NEW pc, NEW pd, Hears(place, pc), Follows(pc), KeepsRemotes(pc, pd)
  PROVE  Hears(place, pd) /\ Follows(pd)
<1>1. ASSUME NEW j \in DOMAIN pd.lines, NEW s \in pd.lines[j].remote
      PROVE  /\ pd.lines[j].index # NoIndex /\ place[s] = pd.lines[j].index
             /\ s \in DOMAIN pd.receivers /\ pd.receivers[s] = pd.lines[j].id
  <2>1. PICK i \in DOMAIN pc.lines : SameRemote(pc.lines[i], pd.lines[j])
    BY DEF KeepsRemotes
  <2> QED BY <2>1 DEF SameRemote, Hears, Follows, KeepsRemotes
<1>2. ASSUME NEW s \in DOMAIN pd.receivers PROVE \E j \in DOMAIN pd.lines : s \in pd.lines[j].remote
  <2>1. PICK i \in DOMAIN pc.lines : s \in pc.lines[i].remote
    BY DEF KeepsRemotes, Follows
  <2>2. PICK j \in DOMAIN pd.lines : SameRemote(pc.lines[i], pd.lines[j])
    BY <2>1 DEF KeepsRemotes
  <2> QED BY <2>1, <2>2 DEF SameRemote
<1> QED BY <1>1, <1>2 DEF Hears, Follows
LEMMA AlikeSame ==
  ASSUME NEW pc, NEW pd, pd.receivers = pc.receivers, DOMAIN pd.lines = DOMAIN pc.lines,
         \A i \in DOMAIN pc.lines : SameRemote(pc.lines[i], pd.lines[i]),
         \A s \in DOMAIN pd.senders :
           s \in DOMAIN pc.senders /\ pd.senders[s].line = pc.senders[s].line
  PROVE  Alike(pc, pd)
<1>1. KeepsLines(pc, pd)
  BY DEF KeepsLines
<1>2. KeepsRemotes(pc, pd)
  BY DEF KeepsRemotes, SameRemote
<1> QED BY <1>1, <1>2 DEF Alike

LEMMA SameIsSame == \A l : SameRemote(l, l)
BY DEF SameRemote

LEMMA AlikeState ==
  ASSUME NEW pc \in PeerRecord, NEW state
  PROVE  Alike(pc, [pc EXCEPT !.signalling_state = state])
<1> DEFINE pd == [pc EXCEPT !.signalling_state = state]
<1>1. pd.lines = pc.lines /\ pd.receivers = pc.receivers /\ pd.senders = pc.senders
  BY DEF PeerRecord
<1> HIDE DEF pd
<1>2. Alike(pc, pd)
  BY <1>1, AlikeSame, SameIsSame
<1> QED BY <1>2 DEF pd

LEMMA AlikeTouched ==
  ASSUME NEW pc \in PeerRecord, NEW s \in DOMAIN pc.senders, NEW quiet
  PROVE  Alike(pc, [pc EXCEPT !.senders[s].state = Touched(@), !.senders[s].stale = @ \/ quiet])
<1> DEFINE pd == [pc EXCEPT !.senders[s].state = Touched(@), !.senders[s].stale = @ \/ quiet]
<1>1. \A r \in DOMAIN pc.senders : pc.senders[r] \in Sender
  BY RecordTypes
<1>2. /\ pd.lines = pc.lines /\ pd.receivers = pc.receivers
      /\ DOMAIN pd.senders = DOMAIN pc.senders
      /\ \A r \in DOMAIN pc.senders : pd.senders[r].line = pc.senders[r].line
  BY <1>1 DEF PeerRecord, Sender
<1> HIDE DEF pd
<1>3. Alike(pc, pd)
  BY <1>2, AlikeSame, SameIsSame
<1> QED BY <1>3 DEF pd

LEMMA AlikeDropped ==
  ASSUME NEW pc \in PeerRecord, NEW s \in DOMAIN pc.senders
  PROVE  Alike(pc, [pc EXCEPT !.senders[s].open = FALSE])
<1> DEFINE pd == [pc EXCEPT !.senders[s].open = FALSE]
<1>1. \A r \in DOMAIN pc.senders : pc.senders[r] \in Sender
  BY RecordTypes
<1>2. /\ pd.lines = pc.lines /\ pd.receivers = pc.receivers
      /\ DOMAIN pd.senders = DOMAIN pc.senders
      /\ \A r \in DOMAIN pc.senders : pd.senders[r].line = pc.senders[r].line
  BY <1>1 DEF PeerRecord, Sender
<1> HIDE DEF pd
<1>3. Alike(pc, pd)
  BY <1>2, AlikeSame, SameIsSame
<1> QED BY <1>3 DEF pd

LEMMA AlikeWritten ==
  ASSUME NEW pc \in PeerRecord
  PROVE  Alike(pc, Written(pc))
<1> DEFINE pd == Written(pc)
<1>1. \A r \in DOMAIN pc.senders : pc.senders[r] \in Sender
  BY RecordTypes
<1>2. /\ pd.lines = pc.lines /\ pd.receivers = pc.receivers
      /\ DOMAIN pd.senders = DOMAIN pc.senders
      /\ \A r \in DOMAIN pc.senders : pd.senders[r].line = pc.senders[r].line
  BY <1>1 DEF PeerRecord, Sender, Written
<1> HIDE DEF pd
<1>3. Alike(pc, pd)
  BY <1>2, AlikeSame, SameIsSame
<1> QED BY <1>3 DEF pd

LEMMA AlikePromoted ==
  ASSUME NEW pc \in PeerRecord, NEW ids, NEW from, NEW state \in NegotiationState
  PROVE  Alike(pc, Promoted(pc, ids, from, state))
<1> DEFINE pd == Promoted(pc, ids, from, state)
<1>1. /\ SameLines(pc, pd) /\ pd.receivers = pc.receivers
      /\ \A i \in DOMAIN pc.lines : pd.lines[i].index = pc.lines[i].index
  BY PromotedIs
<1>2. \A i \in DOMAIN pc.lines : pc.lines[i] \in Line
  BY RecordTypes
<1>3. \A i \in DOMAIN pc.lines : pd.lines[i].remote = pc.lines[i].remote
  BY <1>2 DEF Promoted, PeerRecord, Line
<1> HIDE DEF pd
<1>4. Alike(pc, pd)
  BY <1>1, <1>3, AlikeSame DEF SameLines, SameRemote
<1> QED BY <1>4 DEF pd

LEMMA AlikeCodec ==
  ASSUME NEW pc \in PeerRecord, NEW i \in DOMAIN pc.lines
  PROVE  Alike(pc, [pc EXCEPT !.lines[i].codecs = TRUE, !.lines[i].state = Touched(@)])
<1> DEFINE pd == [pc EXCEPT !.lines[i].codecs = TRUE, !.lines[i].state = Touched(@)]
<1>1. \A j \in DOMAIN pc.lines : pc.lines[j] \in Line
  BY RecordTypes
<1>2. /\ pd.senders = pc.senders /\ pd.receivers = pc.receivers
      /\ DOMAIN pd.lines = DOMAIN pc.lines
      /\ \A j \in DOMAIN pc.lines : SameRemote(pc.lines[j], pd.lines[j])
  BY <1>1 DEF PeerRecord, Line, SameRemote
<1> HIDE DEF pd
<1>3. Alike(pc, pd)
  BY <1>2, AlikeSame
<1> QED BY <1>3 DEF pd

LEMMA AlikeAllocated ==
  ASSUME NEW pc \in PeerRecord, NEW type \in Media \cup {Application}
  PROVE  Alike(pc, Allocate(pc, type)) /\ Allocate(pc, type) \in PeerRecord
<1>1. CASE FreeLine(pc, type) # {}
  BY <1>1, AlikeOn DEF Allocate
<1>2. CASE FreeLine(pc, type) = {}
  <2> DEFINE line == NewLine(pc.made + 1, type)
             pd == AppendLine(pc, line)
             n == Len(pc.lines)
  <2>1. line \in Line /\ line.remote = {}
    BY RecordTypes, NewLineFields
  <2>2. Allocate(pc, type) = pd
    BY <1>2 DEF Allocate
  <2> HIDE DEF line
  <2>3. /\ pd \in PeerRecord
        /\ DOMAIN pd.lines = DOMAIN pc.lines \cup {n + 1} /\ n + 1 \notin DOMAIN pc.lines
        /\ pd.lines[n + 1] = line /\ \A i \in DOMAIN pc.lines : pd.lines[i] = pc.lines[i]
        /\ pd.senders = pc.senders /\ pd.receivers = pc.receivers
    BY <2>1, AppendedIs
  <2> HIDE DEF pd
  <2>4. KeepsRemotes(pc, pd)
    BY <2>1, <2>3 DEF KeepsRemotes, SameRemote
  <2>5. KeepsLines(pc, pd)
    BY <2>3 DEF KeepsLines
  <2> QED BY <2>2, <2>3, <2>4, <2>5 DEF Alike
<1> QED BY <1>1, <1>2

LEMMA AlikeChannel ==
  ASSUME NEW pc \in PeerRecord
  PROVE  Alike(pc, [Allocate(pc, Application) EXCEPT !.channel = TRUE])
<1> DEFINE pb == Allocate(pc, Application)
           pd == [pb EXCEPT !.channel = TRUE]
<1>1. Alike(pc, pb) /\ pb \in PeerRecord
  BY AlikeAllocated
<1> HIDE DEF pb
<1>2. pd.lines = pb.lines /\ pd.receivers = pb.receivers /\ pd.senders = pb.senders
  BY <1>1 DEF PeerRecord
<1> HIDE DEF pd
<1>3. Alike(pb, pd)
  BY <1>2, AlikeSame, SameIsSame
<1>4. Alike(pc, pd)
  BY <1>1, <1>3, AlikeTransitive
<1> QED BY <1>4 DEF pd, pb

\* create_media_sender: one more sender.
Created(pc, s, type) ==
  LET pb == Allocate(pc, type)
      i  == Min(FreeLine(pb, type))
  IN [pb EXCEPT !.lines[i].local = @ \cup {s},
                !.senders = [r \in DOMAIN @ \cup {s} |->
                   IF r = s THEN NewSender(pb.lines[i].id) ELSE @[r]]]

LEMMA CreatedRemotes ==
  ASSUME NEW pc \in PeerRecord, NEW type \in Media, NEW s
  PROVE  /\ KeepsRemotes(pc, Created(pc, s, type))
         /\ \A r \in DOMAIN Created(pc, s, type).senders : r # s =>
              r \in DOMAIN pc.senders /\ Created(pc, s, type).senders[r].line = pc.senders[r].line
<1> DEFINE pb == Allocate(pc, type)
           i  == Min(FreeLine(pb, type))
           pd == [pb EXCEPT !.lines[i].local = @ \cup {s},
                            !.senders = [r \in DOMAIN @ \cup {s} |->
                               IF r = s THEN NewSender(pb.lines[i].id) ELSE @[r]]]
<1>1. Alike(pc, pb) /\ pb \in PeerRecord
  BY AlikeAllocated
<1> HIDE DEF pb, i
<1>2. \A j \in DOMAIN pb.lines : pb.lines[j] \in Line
  BY <1>1, RecordTypes
<1>3. /\ pd.receivers = pb.receivers /\ DOMAIN pd.lines = DOMAIN pb.lines
      /\ \A j \in DOMAIN pb.lines : SameRemote(pb.lines[j], pd.lines[j])
  BY <1>1, <1>2 DEF PeerRecord, Line, SameRemote
<1>4. \A r \in DOMAIN pd.senders : r # s => r \in DOMAIN pb.senders /\ pd.senders[r] = pb.senders[r]
  BY <1>1 DEF PeerRecord
<1> HIDE DEF pd
<1>5. KeepsRemotes(pb, pd)
  BY <1>3 DEF KeepsRemotes, SameRemote
<1>6. KeepsRemotes(pc, pd)
  BY <1>1, <1>5, RemotesTransitive DEF Alike
<1>7. \A r \in DOMAIN pd.senders : r # s =>
        r \in DOMAIN pc.senders /\ pd.senders[r].line = pc.senders[r].line
  BY <1>1, <1>4 DEF Alike, KeepsLines
<1>8. Created(pc, s, type) = pd
  BY DEF pd, pb, i, Created
<1> QED BY <1>6, <1>7, <1>8
\* An offer gives indexes to lines that hear nothing yet.
LEMMA AlikeAssigned ==
  ASSUME NEW p \in Peer, NEW pc, Sound(p, pc), NEW place, Hears(place, pc)
  PROVE  Alike(pc, AssignIndexes(pc))
<1> DEFINE first == 1 + Max(Indexes(pc) \cup {NoIndex})
           pd == AssignIndexes(pc)
<1>1. pc \in PeerRecord
  BY DEF Sound
<1>2. first \in Nat
  <2>1. PICK n \in Nat : Places(pc, n)
    BY DEF Sound, InPlace
  <2>2. Max(Indexes(pc) \cup {NoIndex}) = n
    BY <1>1, <2>1, MaxIndex
  <2> QED BY <2>2
<1>3. AssignFrom(pc, first) = pd
  BY DEF AssignIndexes
<1> HIDE DEF first, pd
<1>4. PICK f :
        pd = [pc EXCEPT !.lines = [i \in DOMAIN pc.lines |->
                IF pc.lines[i].index = NoIndex THEN [pc.lines[i] EXCEPT !.index = f[i - 1]]
                ELSE pc.lines[i]]]
  BY <1>1, <1>2, <1>3, AssignedFrom
<1>5. /\ pd.senders = pc.senders /\ pd.receivers = pc.receivers
      /\ DOMAIN pd.lines = DOMAIN pc.lines
      /\ \A i \in DOMAIN pc.lines :
           pd.lines[i] = IF pc.lines[i].index = NoIndex THEN [pc.lines[i] EXCEPT !.index = f[i - 1]]
                         ELSE pc.lines[i]
  BY <1>1, <1>4 DEF PeerRecord
<1>6. ASSUME NEW i \in DOMAIN pc.lines
      PROVE  /\ pd.lines[i].remote = pc.lines[i].remote
             /\ pc.lines[i].remote # {} => SameRemote(pc.lines[i], pd.lines[i])
  <2>1. pc.lines[i] \in Line
    BY <1>1, RecordTypes
  <2>2. pc.lines[i].remote # {} => pc.lines[i].index # NoIndex
    BY DEF Hears
  <2>3. pd.lines[i].remote = pc.lines[i].remote
    BY <1>5, <2>1 DEF Line
  <2> QED BY <1>5, <2>2, <2>3, SameIsSame
<1>7. KeepsRemotes(pc, pd)
  BY <1>5, <1>6 DEF KeepsRemotes
<1>8. KeepsLines(pc, pd)
  BY <1>5 DEF KeepsLines
<1> QED BY <1>7, <1>8 DEF Alike, pd

\* A line that hears something is kept.
LEMMA AlikeClosed ==
  ASSUME NEW p \in Peer, NEW pc, Sound(p, pc)
  PROVE  Alike(pc, RemoveClosed(pc))
<1>1. pc \in PeerRecord /\ Distinct(pc)
  BY DEF Sound
<1> DEFINE left == DOMAIN pc.senders \ Gone(pc)
           w == Restrict(pc.senders, left)
           pd == RemoveClosed(pc)
<1>2. PICK lines \in Seq(Line) :
        Sifted(pc, lines, Len(pc.lines)) /\ pd = [pc EXCEPT !.senders = w, !.lines = lines]
  BY <1>1, ClosedRemoved
<1> HIDE DEF pd
<1>3. /\ DOMAIN w = left /\ left \subseteq DOMAIN pc.senders
      /\ \A s \in left : w[s] = pc.senders[s]
  BY DEF Restrict
<1> HIDE DEF w
<1>4. pd.lines = lines /\ pd.senders = w /\ pd.receivers = pc.receivers
  BY <1>1, <1>2 DEF PeerRecord
<1>5. DOMAIN pc.lines = 1 .. Len(pc.lines)
  BY <1>1, RecordTypes
<1>6. ASSUME NEW i \in DOMAIN pc.lines
      PROVE  /\ SameRemote(pc.lines[i], Bereft(pc, pc.lines[i]))
             /\ pc.lines[i].remote # {} => Kept(pc, pc.lines[i])
  <2>1. pc.lines[i] \in Line
    BY <1>1, RecordTypes
  <2> QED BY <2>1 DEF Bereft, Line, SameRemote, Kept
<1>7. KeepsRemotes(pc, pd)
  <2>1. ASSUME NEW i \in DOMAIN pc.lines, pc.lines[i].remote # {}
        PROVE  \E j \in DOMAIN lines : SameRemote(pc.lines[i], lines[j])
    <3>1. PICK j \in DOMAIN lines : lines[j] = Bereft(pc, pc.lines[i])
      BY <1>2, <1>5, <1>6, <2>1 DEF Sifted
    <3> QED BY <1>6, <3>1
  <2>2. ASSUME NEW j \in DOMAIN lines
        PROVE  \E i \in DOMAIN pc.lines : SameRemote(pc.lines[i], lines[j])
    <3>1. PICK i \in DOMAIN pc.lines : lines[j] = Bereft(pc, pc.lines[i])
      BY <1>2, <1>5 DEF Sifted
    <3> QED BY <1>6, <3>1
  <2> QED BY <1>4, <2>1, <2>2 DEF KeepsRemotes
<1>8. KeepsLines(pc, pd)
  BY <1>3, <1>4 DEF KeepsLines
<1> QED BY <1>7, <1>8 DEF Alike, pd

-----------------------------------------------------------------------------
(* The streams of a description that is applied.                           *)

\* A receiver for each stream of the line, none for the streams it lost.
LEMMA FollowFollows ==
  ASSUME NEW pc \in PeerRecord, Distinct(pc), InPlace(pc),
         NEW place, Hears(place, pc), NEW i \in DOMAIN pc.lines,
         \A s \in DOMAIN pc.receivers :
           \/ pc.receivers[s] = pc.lines[i].id
           \/ \E j \in DOMAIN pc.lines : j # i /\ s \in pc.lines[j].remote,
         \A j \in DOMAIN pc.lines : j # i => \A s \in pc.lines[j].remote :
           s \in DOMAIN pc.receivers /\ pc.receivers[s] = pc.lines[j].id
  PROVE  LET pd == FollowStreams(pc, pc.lines[i])
         IN  Follows(pd) /\ Hears(place, pd) /\ pd.senders = pc.senders /\ pd.lines = pc.lines
<1> DEFINE line == pc.lines[i]
           left == {s \in DOMAIN pc.receivers : pc.receivers[s] # line.id \/ s \in line.remote}
           r == [s \in left \cup line.remote |-> IF s \in left THEN pc.receivers[s] ELSE line.id]
           pd == [pc EXCEPT !.receivers = r]
<1>2. FollowStreams(pc, line) = pd
  BY DEF FollowStreams, PeerRecord
<1>3. /\ DOMAIN r = left \cup line.remote
      /\ \A s \in DOMAIN r : r[s] = IF s \in left THEN pc.receivers[s] ELSE line.id
  OBVIOUS
<1> HIDE DEF r
<1>4. pd.receivers = r /\ pd.lines = pc.lines /\ pd.senders = pc.senders
  BY DEF PeerRecord
<1> HIDE DEF pd
\* No stream is heard on two lines.
<1>5. \A j, k \in DOMAIN pc.lines : \A s : s \in pc.lines[j].remote /\ s \in pc.lines[k].remote => j = k
  <2>1. PICK n \in Nat : Places(pc, n)
    BY DEF InPlace
  <2> QED BY <2>1 DEF Hears, Places
<1>6. ASSUME NEW s \in DOMAIN r PROVE \E j \in DOMAIN pc.lines : s \in pc.lines[j].remote
  BY <1>3
<1>7. ASSUME NEW j \in DOMAIN pc.lines, NEW s \in pc.lines[j].remote
      PROVE  s \in DOMAIN r /\ r[s] = pc.lines[j].id
  <2>1. CASE j = i
    <3>1. s \in DOMAIN r
      BY <1>3, <2>1
    <3>2. s \in DOMAIN pc.receivers => pc.receivers[s] = line.id
      BY <1>5, <2>1
    <3> QED BY <1>3, <2>1, <3>1, <3>2
  <2>2. CASE j # i
    <3>1. s \in DOMAIN pc.receivers /\ pc.receivers[s] = pc.lines[j].id /\ pc.lines[j].id # line.id
      BY <2>2 DEF Distinct
    <3> QED BY <1>3, <3>1
  <2> QED BY <2>1, <2>2
<1>8. Follows(pd)
  BY <1>4, <1>6, <1>7 DEF Follows
<1>9. Hears(place, pd)
  BY <1>4 DEF Hears
<1> QED BY <1>2, <1>4, <1>8, <1>9
\* The streams of the media at k have their place there, and a media of the data
\* channels has none.
Meant(place, q, k, media) ==
  /\ \A s \in media.streams : place[s] = k
  /\ media.type = Application => \A s \in Ssrc[q] : place[s] # k

LEMMA UpdateFollows ==
  ASSUME NEW p \in Peer, NEW pc, Sound(p, pc), NEW k \in Nat, k # 0, Covers(pc, k - 1),
         NEW media \in Medium, media.streams \subseteq Ssrc[Other(p)],
         LineFor(pc, k, media) # {},
         NEW place, Hears(place, pc), Follows(pc), Meant(place, Other(p), k, media)
  PROVE  LET pd == UpdateLine(pc, Min(LineFor(pc, k, media)), k, media).pc
         IN  Hears(place, pd) /\ Follows(pd) /\ KeepsLines(pc, pd)
<1> DEFINE i == Min(LineFor(pc, k, media))
           line == FromSdp(pc.lines[i], k, media)
           pd == [pc EXCEPT !.lines = [pc.lines EXCEPT ![i] = line]]
           pe == FollowStreams(pd, line)
           fits == IF line.type = Application THEN pc.channel ELSE media.type # Application
<1>1. pc \in PeerRecord /\ Channelled(pc) /\ Belongs(p, pc)
  BY DEF Sound
<1>2. /\ Sound(p, pd)
      /\ i \in DOMAIN pc.lines /\ line \in Line
      /\ line.id = pc.lines[i].id /\ line.type = pc.lines[i].type
      /\ line.index = k /\ line.remote = media.streams
      /\ pc.lines[i].index \in {k, NoIndex}
      /\ DOMAIN pd.lines = DOMAIN pc.lines
      /\ \A j \in DOMAIN pc.lines : pd.lines[j] = IF j = i THEN line ELSE pc.lines[j]
      /\ pd.senders = pc.senders /\ pd.receivers = pc.receivers /\ pd.channel = pc.channel
  BY UpdatedSound
<1> HIDE DEF i
<1>3. UpdateLine(pc, i, k, media).pc = IF fits THEN pe ELSE pd
  <2>1. [pc EXCEPT !.lines[i] = line] = pd
    BY <1>1 DEF PeerRecord
  <2> QED BY <2>1 DEF UpdateLine
<1> HIDE DEF line, pd
<1>4. Hears(place, pd)
  BY <1>2 DEF Hears, Meant, NoIndex
<1>5. pd.lines[i] = line
  BY <1>2
<1>6. Follows(pe) /\ Hears(place, pe) /\ pe.senders = pd.senders
  <2>1. ASSUME NEW s \in DOMAIN pd.receivers
        PROVE  \/ pd.receivers[s] = pd.lines[i].id
               \/ \E j \in DOMAIN pd.lines : j # i /\ s \in pd.lines[j].remote
    <3>1. PICK j \in DOMAIN pc.lines : s \in pc.lines[j].remote
      BY <1>2 DEF Follows
    <3>2. CASE j = i
      BY <1>2, <1>5, <3>1, <3>2 DEF Follows
    <3>3. CASE j # i
      BY <1>2, <3>1, <3>3
    <3> QED BY <3>2, <3>3
  <2>2. \A j \in DOMAIN pd.lines : j # i => \A s \in pd.lines[j].remote :
          s \in DOMAIN pd.receivers /\ pd.receivers[s] = pd.lines[j].id
    BY <1>2 DEF Follows
  <2>3. pd \in PeerRecord /\ Distinct(pd) /\ InPlace(pd) /\ i \in DOMAIN pd.lines
    BY <1>2 DEF Sound
  <2>4. LET pf == FollowStreams(pd, pd.lines[i])
        IN  Follows(pf) /\ Hears(place, pf) /\ pf.senders = pd.senders /\ pf.lines = pd.lines
    BY <1>4, <2>1, <2>2, <2>3, FollowFollows
  <2> QED BY <1>5, <2>4
<1>7. CASE fits
  <2>1. KeepsLines(pc, pe)
    BY <1>2, <1>6 DEF KeepsLines
  <2> QED BY <1>3, <1>6, <1>7, <2>1 DEF i
<1>8. CASE ~fits
  <2>1. media.type = Application
    BY <1>1, <1>2, <1>8 DEF Channelled
  <2>2. line.remote = {}
    BY <1>2, <2>1 DEF Meant
  <2>3. pc.lines[i].remote = {}
    <3> SUFFICES ASSUME NEW s \in pc.lines[i].remote PROVE FALSE
      OBVIOUS
    <3>1. s \in Ssrc[Other(p)]
      BY <1>1, <1>2 DEF Follows, Belongs
    <3>2. place[s] = k
      BY <1>2 DEF Hears
    <3> QED BY <2>1, <3>1, <3>2 DEF Meant
  <2>4. \A j \in DOMAIN pc.lines :
          pd.lines[j].remote = pc.lines[j].remote /\ pd.lines[j].id = pc.lines[j].id
    BY <1>2, <2>2, <2>3
  <2>5. Follows(pd)
    BY <1>2, <2>4 DEF Follows
  <2>6. KeepsLines(pc, pd)
    BY <1>2 DEF KeepsLines
  <2> QED BY <1>3, <1>4, <1>8, <2>5, <2>6 DEF i
<1> QED BY <1>7, <1>8

LEMMA AddFollows ==
  ASSUME NEW p \in Peer, NEW pc, Sound(p, pc), NEW k \in Nat, k # 0, Covers(pc, k - 1),
         NEW media \in Medium, media.streams \subseteq Ssrc[Other(p)],
         LineFor(pc, k, media) = {},
         NEW place, Hears(place, pc), Follows(pc), Meant(place, Other(p), k, media)
  PROVE  LET pd == AddLine(p, pc, k, media).pc
         IN  Hears(place, pd) /\ Follows(pd) /\ KeepsLines(pc, pd)
<1> DEFINE line == FromSdp(NewLine(pc.made + 1, media.type), k, media)
           pd == AppendLine(pc, line)
           pe == [pd EXCEPT !.channel = TRUE]
           pf == [pd EXCEPT !.lines = pc.lines]
           pg == FollowStreams(pd, line)
           n == Len(pc.lines)
<1>1. pc \in PeerRecord /\ pc.made \in Nat
  BY RecordTypes DEF Sound
<1>2. /\ line \in Line /\ line.id = pc.made + 1 /\ line.type = media.type /\ line.index = k
      /\ line.state = "None" /\ line.local = {} /\ line.remote = media.streams
  <2>1. pc.made + 1 \in Nat \ {0} /\ media.type \in Media \cup {Application}
    BY <1>1 DEF Medium
  <2> DEFINE fresh == NewLine(pc.made + 1, media.type)
  <2>2. /\ fresh \in Line /\ fresh.id = pc.made + 1 /\ fresh.type = media.type
        /\ fresh.state = "None" /\ fresh.local = {}
    BY <2>1, NewLineFields
  <2> HIDE DEF fresh
  <2>3. LET l == FromSdp(fresh, k, media)
        IN  /\ l \in Line /\ l.id = fresh.id /\ l.type = fresh.type /\ l.index = k
            /\ l.state = fresh.state /\ l.local = fresh.local /\ l.remote = media.streams
    BY <2>2, FromSdpFields
  <2> QED BY <2>2, <2>3 DEF fresh
<1>3. Places(pc, k - 1) /\ k - 1 \in Nat /\ (k - 1) + 1 = k
  <2>1. \A i \in DOMAIN pc.lines : pc.lines[i].index # k
    BY DEF LineFor
  <2> QED BY <2>1, NextPlace
<1> HIDE DEF line
<1>4. pd \in PeerRecord /\ Distinct(pd) /\ InPlace(pd)
  BY <1>2, <1>3, AppendedSound
<1>5. /\ DOMAIN pd.lines = DOMAIN pc.lines \cup {n + 1} /\ n + 1 \notin DOMAIN pc.lines
      /\ pd.lines[n + 1] = line /\ \A i \in DOMAIN pc.lines : pd.lines[i] = pc.lines[i]
      /\ pd.senders = pc.senders /\ pd.receivers = pc.receivers
  BY <1>1, <1>2, AppendedIs
<1>6. AddLine(p, pc, k, media).pc =
        IF media.type # Application THEN pg
        ELSE IF pc.channel \/ p \in ChannelsAllow THEN pe ELSE pf
  BY DEF AddLine, line
<1> HIDE DEF pd, n
<1>7. CASE media.type # Application
  <2>1. Hears(place, pd)
    BY <1>2, <1>5 DEF Hears, Meant, NoIndex
  <2>2. \A s \in DOMAIN pd.receivers :
          \/ pd.receivers[s] = pd.lines[n + 1].id
          \/ \E j \in DOMAIN pd.lines : j # n + 1 /\ s \in pd.lines[j].remote
    BY <1>5 DEF Follows
  <2>3. \A j \in DOMAIN pd.lines : j # n + 1 => \A s \in pd.lines[j].remote :
          s \in DOMAIN pd.receivers /\ pd.receivers[s] = pd.lines[j].id
    BY <1>5 DEF Follows
  <2>4. LET ph == FollowStreams(pd, pd.lines[n + 1])
        IN  Follows(ph) /\ Hears(place, ph) /\ ph.senders = pd.senders /\ ph.lines = pd.lines
    <3>1. n + 1 \in DOMAIN pd.lines
      BY <1>5
    <3> QED BY <1>4, <2>1, <2>2, <2>3, <3>1, FollowFollows
  <2>5. Follows(pg) /\ Hears(place, pg) /\ pg.senders = pc.senders
    BY <1>5, <2>4
  <2>6. KeepsLines(pc, pg)
    BY <2>5 DEF KeepsLines
  <2> QED BY <1>6, <1>7, <2>5, <2>6
<1>8. CASE media.type = Application
  <2>1. line.remote = {}
    BY <1>2, <1>8 DEF Meant
  <2>2. pe.lines = pd.lines /\ pe.senders = pc.senders /\ pe.receivers = pc.receivers
    BY <1>4, <1>5 DEF PeerRecord
  <2>3. pf.lines = pc.lines /\ pf.senders = pc.senders /\ pf.receivers = pc.receivers
    BY <1>4, <1>5 DEF PeerRecord
  <2> HIDE DEF pe, pf
  <2>4. KeepsRemotes(pc, pe)
    BY <1>5, <2>1, <2>2 DEF KeepsRemotes, SameRemote
  <2>5. KeepsRemotes(pc, pf)
    BY <2>3 DEF KeepsRemotes, SameRemote
  <2>6. Hears(place, pe) /\ Follows(pe) /\ Hears(place, pf) /\ Follows(pf)
    BY <2>4, <2>5, RemotesHeard
  <2>7. KeepsLines(pc, pe) /\ KeepsLines(pc, pf)
    BY <2>2, <2>3 DEF KeepsLines
  <2> QED BY <1>6, <1>8, <2>6, <2>7
<1> QED BY <1>7, <1>8

LEMMA AppliedFollows ==
  ASSUME NEW p \in Peer, NEW pc, Sound(p, pc), NEW description \in Seq(Medium),
         \A k \in DOMAIN description : description[k].streams \subseteq Ssrc[Other(p)],
         NEW place, Hears(place, pc), Follows(pc),
         \A k \in DOMAIN description : Meant(place, Other(p), k, description[k])
  PROVE  LET pd == ApplyMedia(p, pc, description).pc
         IN  Hears(place, pd) /\ Follows(pd) /\ KeepsLines(pc, pd)
<1> DEFINE n == Len(description)
           f == CHOOSE f : Applying(f, p, pc, description, n)
<1>1. n \in Nat /\ DOMAIN description = 1 .. n
  OBVIOUS
<1>2. \E g : Applying(g, p, pc, description, n)
  BY <1>1, ApplyExists, Zenon
<1>3. Applying(f, p, pc, description, n)
  BY <1>2, Zenon
<1>4. ApplyMedia(p, pc, description) = f[n]
  BY DEF ApplyMedia, Applying, Apply
<1> HIDE DEF f
<1>5. f[0] = [ok |-> TRUE, pc |-> pc] /\ \A k \in 1 .. n : f[k] = Apply(p, f[k - 1], k, description[k])
  <2>1. 0 \in 0 .. n /\ \A k \in 1 .. n : k \in 0 .. n /\ k # 0
    BY <1>1
  <2> QED BY <1>3, <2>1 DEF Applying
<1> HIDE DEF n
<1> DEFINE Upheld(k) == /\ Advance(p, pc, k, f[k])
                       /\ Hears(place, f[k].pc) /\ Follows(f[k].pc) /\ KeepsLines(pc, f[k].pc)
           T == {k \in Nat : k <= n /\ ~ Upheld(k)}
<1>6. T = {}
  <2> SUFFICES ASSUME T # {} PROVE FALSE
    OBVIOUS
  <2>1. PICK k \in T : \A j \in T : k <= j
    <3>1. T \in SUBSET Nat
      OBVIOUS
    <3> HIDE DEF T
    <3> QED BY <3>1, LeastMember
  <2>2. k # 0
    <3>1. pc \in PeerRecord /\ Stays(pc, pc) /\ Covers(pc, 0)
      BY StaysOn DEF Sound, Covers
    <3>2. Advance(p, pc, 0, [ok |-> TRUE, pc |-> pc])
      BY <3>1 DEF Advance
    <3>3. KeepsLines(pc, pc)
      BY DEF KeepsLines
    <3>4. Upheld(0)
      BY <1>5, <3>2, <3>3
    <3> QED BY <3>4
  <2>3. k \in 1 .. n /\ k \in Nat /\ k - 1 \in Nat /\ k - 1 \notin T /\ k - 1 <= n
    BY <1>1, <2>1, <2>2
  <2> DEFINE acc == f[k - 1]
             media == description[k]
  <2>4. /\ acc \in [ok : BOOLEAN, pc : PeerRecord]
        /\ Sound(p, acc.pc) /\ Stays(pc, acc.pc)
        /\ acc.ok => Covers(acc.pc, k - 1)
        /\ Hears(place, acc.pc) /\ Follows(acc.pc) /\ KeepsLines(pc, acc.pc)
    BY <2>3 DEF Advance
  <2>5. /\ media \in Medium /\ media.streams \subseteq Ssrc[Other(p)]
        /\ Meant(place, Other(p), k, media)
    BY <1>1, <2>3
  <2>6. f[k] = Apply(p, acc, k, media)
    BY <1>5, <2>3
  <2> HIDE DEF acc, media
  <2>7. CASE ~acc.ok
    <3>1. f[k] = acc
      BY <2>6, <2>7 DEF Apply
    <3>2. Upheld(k)
      BY <2>4, <2>7, <3>1 DEF Advance
    <3> QED BY <2>1, <3>2
  <2>8. CASE acc.ok
    <3>1. /\ Advance(p, acc.pc, k, f[k])
          /\ Hears(place, f[k].pc) /\ Follows(f[k].pc) /\ KeepsLines(acc.pc, f[k].pc)
      <4>1. CASE LineFor(acc.pc, k, media) = {}
        <5>1. f[k] = AddLine(p, acc.pc, k, media)
          BY <2>6, <2>8, <4>1 DEF Apply
        <5>2. Advance(p, acc.pc, k, f[k])
          BY <2>2, <2>3, <2>4, <2>5, <2>8, <4>1, <5>1, AddSound
        <5>3. Hears(place, f[k].pc) /\ Follows(f[k].pc) /\ KeepsLines(acc.pc, f[k].pc)
          BY <2>2, <2>3, <2>4, <2>5, <2>8, <4>1, <5>1, AddFollows
        <5> QED BY <5>2, <5>3
      <4>2. CASE LineFor(acc.pc, k, media) # {}
        <5>1. f[k] = UpdateLine(acc.pc, Min(LineFor(acc.pc, k, media)), k, media)
          BY <2>6, <2>8, <4>2 DEF Apply
        <5>2. Advance(p, acc.pc, k, f[k])
          BY <2>2, <2>3, <2>4, <2>5, <2>8, <4>2, <5>1, UpdateSound
        <5>3. Hears(place, f[k].pc) /\ Follows(f[k].pc) /\ KeepsLines(acc.pc, f[k].pc)
          BY <2>2, <2>3, <2>4, <2>5, <2>8, <4>2, <5>1, UpdateFollows
        <5> QED BY <5>2, <5>3
      <4> QED BY <4>1, <4>2
    <3>2. KeepsLines(pc, f[k].pc)
      BY <2>4, <3>1 DEF KeepsLines
    <3>3. Upheld(k)
      BY <2>4, <3>1, <3>2, StaysTransitive DEF Advance
    <3> QED BY <2>1, <3>3
  <2> QED BY <2>7, <2>8
<1>7. Upheld(n)
  <2>1. n \notin T
    BY <1>6
  <2> QED BY <1>1, <2>1
<1> QED BY <1>4, <1>7
-----------------------------------------------------------------------------
(* The places after a step: those of the senders are the ones of their lines. *)
Rehome(place, pd) ==
  [s \in Streams |-> IF s \in DOMAIN pd.senders THEN LineOf(pd, s).index ELSE place[s]]

\* The senders of pd are those of pc, on their lines, or have no place so far.
KeepsHomes(place, pc, pd) ==
  \A s \in DOMAIN pd.senders :
    \/ place[s] = NoIndex
    \/ s \in DOMAIN pc.senders /\ pd.senders[s].line = pc.senders[s].line

LEMMA HomeLine ==
  ASSUME NEW pc, Distinct(pc), OnLine(pc), NEW s \in DOMAIN pc.senders,
         NEW i \in DOMAIN pc.lines, pc.lines[i].id = pc.senders[s].line
  PROVE  LineOf(pc, s) = pc.lines[i] /\ s \in pc.lines[i].local
<1>1. \A j \in DOMAIN pc.lines : pc.lines[j].id = pc.senders[s].line => j = i
  BY DEF Distinct
<1>2. pc.lines[i] \in Range(pc.lines)
  BY DEF Range
<1>3. \A l \in Range(pc.lines) : l.id = pc.senders[s].line => l = pc.lines[i]
  BY <1>1 DEF Range
<1>4. LineOf(pc, s) = pc.lines[i]
  BY <1>2, <1>3 DEF LineOf
<1>5. s \in pc.lines[i].local
  BY <1>1 DEF OnLine
<1> QED BY <1>4, <1>5

LEMMA Rehomed ==
  ASSUME NEW p \in Peer, NEW pc, NEW pd, Sound(p, pc), Sound(p, pd), Placed(pc, pd),
         NEW place \in [Streams -> Nat], Homes(place, pc), KeepsHomes(place, pc, pd)
  PROVE  LET new == Rehome(place, pd)
         IN  /\ new \in [Streams -> Nat] /\ Homes(new, pd)
             /\ \A s \in Streams : place[s] # NoIndex => new[s] = place[s]
             /\ \A s \in Streams \ DOMAIN pd.senders : new[s] = place[s]
             /\ Grounded(place, p, pc) => Grounded(new, p, pd)
<1> DEFINE new == Rehome(place, pd)
<1>1. /\ pc \in PeerRecord /\ Distinct(pc) /\ OnLine(pc)
      /\ pd \in PeerRecord /\ Distinct(pd) /\ OnLine(pd) /\ Channelled(pd)
      /\ DOMAIN pd.senders \subseteq Streams
  BY RecordTypes DEF Sound
<1>2. ASSUME NEW s \in DOMAIN pd.senders
      PROVE  /\ s \in Streams /\ new[s] = LineOf(pd, s).index
             /\ \E j \in DOMAIN pd.lines : /\ pd.lines[j].id = pd.senders[s].line
                                           /\ pd.lines[j] = LineOf(pd, s)
                                           /\ s \in pd.lines[j].local
  <2>1. PICK j \in DOMAIN pd.lines : pd.lines[j].id = pd.senders[s].line
    BY <1>1 DEF OnLine
  <2>2. pd.lines[j] = LineOf(pd, s) /\ s \in pd.lines[j].local
    BY <1>1, <2>1, HomeLine
  <2> QED BY <1>1, <2>1, <2>2 DEF Rehome
<1>3. \A s \in Streams \ DOMAIN pd.senders : new[s] = place[s]
  BY DEF Rehome
<1>4. new \in [Streams -> Nat]
  <2>1. \A s \in Streams : new[s] \in Nat
    <3> SUFFICES ASSUME NEW s \in Streams PROVE new[s] \in Nat
      OBVIOUS
    <3>1. CASE s \in DOMAIN pd.senders
      <4>1. PICK j \in DOMAIN pd.lines : pd.lines[j] = LineOf(pd, s)
        BY <1>2, <3>1
      <4>2. pd.lines[j].index \in Nat
        BY <1>1, RecordTypes, LineFields
      <4> QED BY <1>2, <3>1, <4>1, <4>2
    <3>2. CASE s \notin DOMAIN pd.senders
      BY <1>3, <3>2
    <3> QED BY <3>1, <3>2
  <2> QED BY <2>1 DEF Rehome
<1>5. Homes(new, pd)
  BY <1>1, <1>2, HomeLine DEF Homes
<1>6. ASSUME NEW s \in Streams, place[s] # NoIndex PROVE new[s] = place[s]
  <2>1. CASE s \notin DOMAIN pd.senders
    BY <1>3, <2>1
  <2>2. CASE s \in DOMAIN pd.senders
    <3>1. s \in DOMAIN pc.senders /\ pd.senders[s].line = pc.senders[s].line
      BY <1>6, <2>2 DEF KeepsHomes
    <3>2. PICK i \in DOMAIN pc.lines : pc.lines[i].id = pc.senders[s].line
      BY <1>1, <3>1 DEF OnLine
    <3>3. pc.lines[i].index = place[s]
      BY <3>1, <3>2 DEF Homes
    <3>4. PICK j \in DOMAIN pd.lines : pd.lines[j].id = pc.lines[i].id /\ pd.lines[j].index = place[s]
      BY <1>6, <3>3 DEF Placed
    <3> QED BY <1>5, <2>2, <3>1, <3>2, <3>4 DEF Homes
  <2> QED BY <2>1, <2>2
<1>7. ASSUME Grounded(place, p, pc), NEW s \in Ssrc[p], new[s] # NoIndex
      PROVE  \E i \in DOMAIN pd.lines : pd.lines[i].index = new[s] /\ pd.lines[i].type # Application
  <2>1. s \in Streams
    BY OwnStreams
  <2>2. CASE place[s] # NoIndex
    <3>1. PICK i \in DOMAIN pc.lines : pc.lines[i].index = place[s] /\ pc.lines[i].type # Application
      BY <1>7, <2>2 DEF Grounded
    <3>2. PICK j \in DOMAIN pd.lines : /\ pd.lines[j].index = pc.lines[i].index
                                       /\ pd.lines[j].type = pc.lines[i].type
      BY <2>2, <3>1 DEF Placed
    <3> QED BY <1>6, <2>1, <2>2, <3>1, <3>2
  <2>3. CASE place[s] = NoIndex
    <3>1. s \in DOMAIN pd.senders
      BY <1>3, <1>7, <2>1, <2>3
    <3>2. PICK j \in DOMAIN pd.lines : pd.lines[j] = LineOf(pd, s) /\ s \in pd.lines[j].local
      BY <1>2, <3>1
    <3>3. pd.lines[j].type # Application
      BY <1>1, <3>2 DEF Channelled
    <3> QED BY <1>2, <3>1, <3>2, <3>3
  <2> QED BY <2>2, <2>3
<1> HIDE DEF new
<1>8. Grounded(place, p, pc) => Grounded(new, p, pd)
  BY <1>7 DEF Grounded
<1> QED BY <1>3, <1>4, <1>5, <1>6, <1>8 DEF new

\* What was told and heard stays true.
LEMMA ToldOn ==
  ASSUME NEW place, NEW new, \A s \in Streams : place[s] # NoIndex => new[s] = place[s],
         NEW pc, NEW pd, Placed(pc, pd), NEW d \in Description, Told(place, pc, d)
  PROVE  Told(new, pd, d)
<1> SUFFICES ASSUME NEW k \in DOMAIN d.media
             PROVE  /\ \E i \in DOMAIN pd.lines : pd.lines[i].index = k /\ pd.lines[i].type = d.media[k].type
                    /\ \A s \in d.media[k].streams : new[s] = k
  BY DEF Told
<1>1. d.media \in Seq(Medium)
  BY DEF Description, Medium
<1>2. k \in Nat /\ k # NoIndex /\ d.media[k].streams \subseteq Streams
  <2>1. k \in 1 .. Len(d.media) /\ d.media[k] \in Medium
    BY <1>1
  <2> QED BY <2>1 DEF Medium, NoIndex
<1>3. PICK i \in DOMAIN pc.lines : pc.lines[i].index = k /\ pc.lines[i].type = d.media[k].type
  BY DEF Told
<1>4. PICK j \in DOMAIN pd.lines : pd.lines[j].index = k /\ pd.lines[j].type = d.media[k].type
  BY <1>2, <1>3 DEF Placed
<1>5. \A s \in d.media[k].streams : new[s] = k
  BY <1>2 DEF Told
<1> QED BY <1>4, <1>5

LEMMA HearsOn ==
  ASSUME NEW place, NEW new, \A s \in Streams : place[s] # NoIndex => new[s] = place[s],
         NEW pc \in PeerRecord, Hears(place, pc)
  PROVE  Hears(new, pc)
<1> SUFFICES ASSUME NEW i \in DOMAIN pc.lines, NEW s \in pc.lines[i].remote
             PROVE  pc.lines[i].index # NoIndex /\ new[s] = pc.lines[i].index
  BY DEF Hears
<1>1. s \in Streams
  BY RecordTypes, LineFields
<1>2. pc.lines[i].index # NoIndex /\ place[s] = pc.lines[i].index
  BY DEF Hears
<1> QED BY <1>1, <1>2
\* A step of p: what it writes is told by the lines before or after it.
LEMMA TrackStep ==
  ASSUME Inv, Inv', StepPlaced, NEW place, Tracking(place), NEW p \in Peer,
         \A r \in Peer : r # p => peer'[r] = peer[r],
         used \subseteq used', DOMAIN peer'[p].senders \subseteq used',
         KeepsHomes(place, peer[p], peer'[p]), Hears(place, peer'[p]), Follows(peer'[p]),
         \A r \in Peer : \A i \in DOMAIN describing'[r] :
           \/ Told(place, peer[r], describing'[r][i])
           \/ r = p /\ Told(Rehome(place, peer'[p]), peer'[p], describing'[r][i]),
         \A r \in Peer : \A i \in DOMAIN wire'[Other(r)] : Told(place, peer[r], wire'[Other(r)][i])
  PROVE  Tracked'
<1>1. PICK new : new = Rehome(place, peer'[p])
  OBVIOUS
<1>2. \A r \in Peer : Sound(r, peer[r]) /\ Sound(r, peer'[r]) /\ Placed(peer[r], peer'[r])
  BY DEF Inv, StepPlaced
<1>3. place \in [Streams -> Nat] /\ \A s \in Streams \ used : place[s] = NoIndex
  BY DEF Tracking
<1>4. \A r \in Peer : DOMAIN peer[r].senders \subseteq used /\ Homes(place, peer[r])
                      /\ Grounded(place, r, peer[r]) /\ Hears(place, peer[r]) /\ Follows(peer[r])
  BY DEF Tracking
<1>5. /\ new \in [Streams -> Nat] /\ Homes(new, peer'[p])
      /\ \A s \in Streams : place[s] # NoIndex => new[s] = place[s]
      /\ \A s \in Streams \ DOMAIN peer'[p].senders : new[s] = place[s]
      /\ Grounded(new, p, peer'[p])
  BY <1>1, <1>2, <1>3, <1>4, Rehomed
<1>6. \A s \in Streams \ used' : new[s] = NoIndex
  BY <1>3, <1>5
<1>7. ASSUME NEW r \in Peer, r # p
      PROVE  Homes(new, peer'[r]) /\ Grounded(new, r, peer'[r])
  <2>1. peer'[r] = peer[r] /\ Ssrc[r] \cap Ssrc[p] = {} /\ Ssrc[r] \subseteq Streams
    BY <1>7, NegotiationAssumption, OwnStreams
  <2>2. DOMAIN peer'[p].senders \subseteq Ssrc[p] /\ DOMAIN peer[r].senders \subseteq Ssrc[r]
    BY <1>2 DEF Sound, Belongs
  <2>3. \A s \in Ssrc[r] : new[s] = place[s]
    BY <1>5, <2>1, <2>2
  <2>4. Homes(new, peer[r])
    BY <1>4, <2>2, <2>3 DEF Homes
  <2>5. Grounded(new, r, peer[r])
    BY <1>4, <2>3 DEF Grounded
  <2> QED BY <2>1, <2>4, <2>5
<1>8. ASSUME NEW r \in Peer PROVE Hears(new, peer'[r]) /\ Follows(peer'[r])
  <2>1. Hears(place, peer'[r]) /\ Follows(peer'[r])
    BY <1>4
  <2>2. peer'[r] \in PeerRecord
    BY <1>2 DEF Sound
  <2> QED BY <1>5, <2>1, <2>2, HearsOn
<1>9. \A r \in Peer : describing'[r] \in Seq(Description) /\ wire'[Other(r)] \in Seq(Description)
  BY TwoPeers DEF Inv, Typed
<1>10. ASSUME NEW r \in Peer, NEW i \in DOMAIN describing'[r]
       PROVE  Told(new, peer'[r], describing'[r][i])
  <2>1. describing'[r][i] \in Description
    BY <1>9
  <2>2. CASE Told(place, peer[r], describing'[r][i])
    BY <1>2, <1>5, <2>1, <2>2, ToldOn
  <2>3. CASE r = p /\ Told(Rehome(place, peer'[p]), peer'[p], describing'[r][i])
    BY <1>1, <2>3
  <2> QED BY <2>2, <2>3
<1>11. ASSUME NEW r \in Peer, NEW i \in DOMAIN wire'[Other(r)]
       PROVE  Told(new, peer'[r], wire'[Other(r)][i])
  <2>1. wire'[Other(r)][i] \in Description
    BY <1>9
  <2> QED BY <1>2, <1>5, <1>11, <2>1, ToldOn
<1>12. ASSUME NEW r \in Peer
       PROVE  /\ DOMAIN peer'[r].senders \subseteq used'
              /\ Homes(new, peer'[r]) /\ Grounded(new, r, peer'[r])
  BY <1>4, <1>5, <1>7
<1>13. Tracking(new)'
  BY <1>5, <1>6, <1>8, <1>10, <1>11, <1>12 DEF Tracking
<1> QED BY <1>13 DEF Tracked

\* The steps that write nothing and keep what is received.
LEMMA AlikeStep ==
  ASSUME Inv, Inv', StepPlaced, NEW place, Tracking(place), NEW p \in Peer, NEW pd,
         peer' = [peer EXCEPT ![p] = pd], KeepsRemotes(peer[p], pd),
         used \subseteq used', DOMAIN pd.senders \subseteq used',
         KeepsHomes(place, peer[p], pd), UNCHANGED describing, UNCHANGED wire
  PROVE  Tracked'
<1>1. peer'[p] = pd /\ \A r \in Peer : r # p => peer'[r] = peer[r]
  BY DEF Inv, Typed
<1>2. Hears(place, peer[p]) /\ Follows(peer[p])
  BY DEF Tracking
<1>3. Hears(place, pd) /\ Follows(pd)
  BY <1>2, RemotesHeard
<1>4. \A r \in Peer : \A i \in DOMAIN describing'[r] : Told(place, peer[r], describing'[r][i])
  BY DEF Tracking
<1>5. \A r \in Peer : \A i \in DOMAIN wire'[Other(r)] : Told(place, peer[r], wire'[Other(r)][i])
  BY DEF Tracking
<1> QED BY <1>1, <1>3, <1>4, <1>5, TrackStep

LEMMA QuietTrack ==
  ASSUME Inv, Inv', StepPlaced, NEW place, Tracking(place), NEW p \in Peer, NEW pd,
         peer' = [peer EXCEPT ![p] = pd], Alike(peer[p], pd),
         UNCHANGED <<describing, wire, used>>
  PROVE  Tracked'
<1>1. KeepsRemotes(peer[p], pd) /\ KeepsHomes(place, peer[p], pd)
  BY DEF Alike, KeepsLines, KeepsHomes
<1>2. DOMAIN pd.senders \subseteq used
  BY DEF Alike, KeepsLines, Tracking
<1> QED BY <1>1, <1>2, AlikeStep
-----------------------------------------------------------------------------
(* Every step of the system.                                               *)
LEMMA CreateMediaSenderTracks ==
  ASSUME Inv, Inv', StepPlaced, NEW place, Tracking(place), NEW p \in Peer, NEW s,
         NEW type \in Media, CreateMediaSender(p, s, type)
  PROVE  Tracked'
<1> DEFINE pd == Created(peer[p], s, type)
<1>1. /\ s \in Ssrc[p] \ used /\ peer' = [peer EXCEPT ![p] = pd] /\ used' = used \cup {s}
      /\ UNCHANGED <<describing, wire>>
  BY DEF CreateMediaSender, Created
<1>2. peer[p] \in PeerRecord /\ s \in Streams
  BY <1>1, InvParts, OwnStreams
<1>3. /\ KeepsRemotes(peer[p], pd)
      /\ \A r \in DOMAIN pd.senders : r # s =>
           r \in DOMAIN peer[p].senders /\ pd.senders[r].line = peer[p].senders[r].line
  BY <1>2, CreatedRemotes
<1> HIDE DEF pd
<1>4. place[s] = NoIndex /\ DOMAIN peer[p].senders \subseteq used
  BY <1>1, <1>2 DEF Tracking
<1>5. KeepsHomes(place, peer[p], pd) /\ DOMAIN pd.senders \subseteq used'
  BY <1>1, <1>3, <1>4 DEF KeepsHomes
<1> QED BY <1>1, <1>3, <1>5, AlikeStep

LEMMA CreateDataChannelTracks ==
  ASSUME Inv, Inv', StepPlaced, NEW place, Tracking(place), NEW p \in Peer, CreateDataChannel(p)
  PROVE  Tracked'
<1> DEFINE pd == [Allocate(peer[p], Application) EXCEPT !.channel = TRUE]
<1>1. peer[p] \in PeerRecord
  BY InvParts
<1>2. Alike(peer[p], pd)
  BY <1>1, AlikeChannel
<1>3. peer' = [peer EXCEPT ![p] = pd] /\ UNCHANGED <<describing, wire, used>>
  BY DEF CreateDataChannel
<1> HIDE DEF pd
<1> QED BY <1>2, <1>3, QuietTrack

LEMMA RegisterLocalCodecTracks ==
  ASSUME Inv, Inv', StepPlaced, NEW place, Tracking(place), NEW p \in Peer, NEW i,
         RegisterLocalCodec(p, i)
  PROVE  Tracked'
<1> DEFINE pd == [peer[p] EXCEPT !.lines[i].codecs = TRUE, !.lines[i].state = Touched(@)]
<1>1. peer[p] \in PeerRecord /\ i \in DOMAIN peer[p].lines
  BY InvParts DEF RegisterLocalCodec
<1>2. Alike(peer[p], pd)
  BY <1>1, AlikeCodec
<1>3. peer' = [peer EXCEPT ![p] = pd]
  BY RegisterLocalCodecIs DEF Inv, Typed
<1>4. UNCHANGED <<describing, wire, used>>
  BY DEF RegisterLocalCodec
<1> HIDE DEF pd
<1> QED BY <1>2, <1>3, <1>4, QuietTrack

LEMMA ChangePropertyTracks ==
  ASSUME Inv, Inv', StepPlaced, NEW place, Tracking(place), NEW p \in Peer, NEW s,
         ChangeProperty(p, s)
  PROVE  Tracked'
<1> DEFINE quiet == describing[p] = <<>>
           pd == [peer[p] EXCEPT !.senders[s].state = Touched(@), !.senders[s].stale = @ \/ quiet]
<1>1. peer[p] \in PeerRecord /\ s \in DOMAIN peer[p].senders
  BY InvParts DEF ChangeProperty
<1>2. Alike(peer[p], pd)
  BY <1>1, AlikeTouched
<1>3. peer' = [peer EXCEPT ![p] = pd] /\ UNCHANGED <<describing, wire, used>>
  BY DEF ChangeProperty, Inv, Typed
<1> HIDE DEF pd
<1> QED BY <1>2, <1>3, QuietTrack

LEMMA DropSenderTracks ==
  ASSUME Inv, Inv', StepPlaced, NEW place, Tracking(place), NEW p \in Peer, NEW s,
         DropSender(p, s)
  PROVE  Tracked'
<1> DEFINE pd == [peer[p] EXCEPT !.senders[s].open = FALSE]
<1>1. peer[p] \in PeerRecord /\ s \in DOMAIN peer[p].senders
  BY InvParts DEF DropSender
<1>2. Alike(peer[p], pd)
  BY <1>1, AlikeDropped
<1>3. peer' = [peer EXCEPT ![p] = pd] /\ UNCHANGED <<describing, wire, used>>
  BY DEF DropSender, Inv, Typed
<1> HIDE DEF pd
<1> QED BY <1>2, <1>3, QuietTrack

LEMMA PollTracks ==
  ASSUME Inv, Inv', StepPlaced, NEW place, Tracking(place), NEW p \in Peer, Poll(p)
  PROVE  Tracked'
<1> DEFINE pc == RemoveClosed(peer[p])
           pd == [pc EXCEPT !.signalling_state = "NegotiationRequired"]
<1>1. Alike(peer[p], pc) /\ pc \in PeerRecord
  BY InvParts, AlikeClosed, ClosedSound DEF Sound
<1>2. peer' = [peer EXCEPT ![p] = pc] \/ peer' = [peer EXCEPT ![p] = pd]
  BY DEF Poll
<1>3. UNCHANGED <<describing, wire, used>>
  BY DEF Poll
<1> HIDE DEF pc
<1>4. Alike(peer[p], pd)
  BY <1>1, AlikeState, AlikeTransitive
<1> HIDE DEF pd
<1> QED BY <1>1, <1>2, <1>3, <1>4, QuietTrack

\* A description says where the senders are.
LEMMA MediaTold ==
  ASSUME NEW p \in Peer, NEW pc, Sound(p, pc), NEW pd, pd.lines = pc.lines,
         DOMAIN pd.senders = DOMAIN pc.senders,
         \A s \in DOMAIN pc.senders : pd.senders[s].line = pc.senders[s].line,
         NEW place, Homes(place, pd), NEW d, d.media = MediaOf(pc)
  PROVE  Told(place, pd, d)
<1> DEFINE at(k) == CHOOSE l \in Registered(pc) : l.index = k
           streams(l) == {s \in DOMAIN pc.senders : pc.senders[s].line = l.id}
<1> SUFFICES ASSUME NEW k \in DOMAIN d.media
             PROVE  /\ \E i \in DOMAIN pd.lines : pd.lines[i].index = k /\ pd.lines[i].type = d.media[k].type
                    /\ \A s \in d.media[k].streams : place[s] = k
  BY DEF Told
<1>1. k \in Indexes(pc) /\ d.media[k] = [type |-> at(k).type, streams |-> streams(at(k))]
  BY DEF MediaOf
<1>2. at(k) \in Registered(pc) /\ at(k).index = k
  BY <1>1 DEF Indexes
<1>3. PICK i \in DOMAIN pc.lines : pc.lines[i] = at(k)
  BY <1>2 DEF Registered, Range
<1>4. d.media[k].type = at(k).type /\ d.media[k].streams = streams(at(k))
  BY <1>1
<1> HIDE DEF at
<1>5. \A s \in d.media[k].streams : place[s] = k
  BY <1>2, <1>3, <1>4 DEF Homes
<1> QED BY <1>2, <1>3, <1>4, <1>5

LEMMA CreateLocalDescriptionTracks ==
  ASSUME Inv, Inv', StepPlaced, NEW place, Tracking(place), NEW p \in Peer,
         CreateLocalDescription(p)
  PROVE  Tracked'
<1> DEFINE offer == peer[p].signalling_state # "HaveRemoteOffer"
           mode == IF offer THEN "offer" ELSE "answer"
           pb == IF offer THEN AssignIndexes(peer[p]) ELSE peer[p]
           pc == RemoveClosed(pb)
           d == [mode |-> mode, media |-> MediaOf(pc)]
           pd == Written(pc)
<1>1. Sound(p, peer[p]) /\ Hears(place, peer[p]) /\ Follows(peer[p])
  BY InvParts DEF Tracking
<1>2. /\ describing[p] = <<>> /\ UNCHANGED <<wire, used>>
      /\ \/ /\ describing' = [describing EXCEPT ![p] = <<d>>]
            /\ peer' = [peer EXCEPT ![p] = pd]
         \/ peer' = [peer EXCEPT ![p] = pc] /\ UNCHANGED describing
  BY DEF CreateLocalDescription
<1>3. Sound(p, pb) /\ Alike(peer[p], pb)
  BY <1>1, AssignedSound, AlikeAssigned, AlikeOn
<1> HIDE DEF pb
<1>4. Sound(p, pc) /\ pc \in PeerRecord /\ Alike(peer[p], pc)
  BY <1>3, ClosedSound, AlikeClosed, AlikeTransitive DEF Sound
<1> HIDE DEF pc
<1>5. Alike(peer[p], pd)
  BY <1>4, AlikeWritten, AlikeTransitive
<1>6. /\ pd.lines = pc.lines /\ DOMAIN pd.senders = DOMAIN pc.senders
      /\ \A s \in DOMAIN pc.senders : pd.senders[s].line = pc.senders[s].line
  <2>1. \A s \in DOMAIN pc.senders : pc.senders[s] \in Sender
    BY <1>4, RecordTypes
  <2> QED BY <1>4, <2>1 DEF PeerRecord, Sender, Written
<1>7. d.media = MediaOf(pc)
  OBVIOUS
<1> HIDE DEF d, pd
<1>8. CASE peer' = [peer EXCEPT ![p] = pc] /\ UNCHANGED describing
  BY <1>2, <1>4, <1>8, QuietTrack
<1>9. CASE describing' = [describing EXCEPT ![p] = <<d>>] /\ peer' = [peer EXCEPT ![p] = pd]
  <2>1. /\ peer'[p] = pd /\ \A r \in Peer : r # p => peer'[r] = peer[r]
        /\ describing'[p] = <<d>> /\ \A r \in Peer : r # p => describing'[r] = describing[r]
    BY <1>9 DEF Inv, Typed
  <2>2. Hears(place, pd) /\ Follows(pd)
    BY <1>1, <1>5, RemotesHeard DEF Alike
  <2>3. KeepsHomes(place, peer[p], pd) /\ DOMAIN pd.senders \subseteq used
    BY <1>5 DEF Alike, KeepsLines, KeepsHomes, Tracking
  <2>4. Sound(p, pd) /\ Placed(peer[p], pd)
    BY <2>1 DEF Inv, StepPlaced
  <2>5. Homes(Rehome(place, pd), pd)
    BY <1>1, <2>3, <2>4, Rehomed DEF Tracking
  <2>6. Told(Rehome(place, pd), pd, d)
    BY <1>4, <1>6, <1>7, <2>5, MediaTold
  <2>7. ASSUME NEW r \in Peer, NEW i \in DOMAIN describing'[r]
        PROVE  \/ Told(place, peer[r], describing'[r][i])
               \/ r = p /\ Told(Rehome(place, peer'[p]), peer'[p], describing'[r][i])
    <3>1. CASE r # p
      BY <2>1, <2>7, <3>1 DEF Tracking
    <3>2. CASE r = p
      <4>1. describing'[r][i] = d
        BY <2>1, <2>7, <3>2
      <4> QED BY <2>1, <2>6, <3>2, <4>1
    <3> QED BY <3>1, <3>2
  <2>8. \A r \in Peer : \A i \in DOMAIN wire'[Other(r)] : Told(place, peer[r], wire'[Other(r)][i])
    BY <1>2 DEF Tracking
  <2> QED BY <1>2, <2>1, <2>2, <2>3, <2>7, <2>8, TrackStep
<1> QED BY <1>2, <1>8, <1>9
LEMMA PromoteNegotiationTracks ==
  ASSUME Inv, Inv', StepPlaced, NEW place, Tracking(place), NEW p \in Peer,
         PromoteNegotiation(p)
  PROVE  Tracked'
<1> DEFINE q == Other(p)
           d == Head(describing[p])
           ids == LineIds(Registered(peer[p]))
           offered == Promoted(peer[p], ids, {"None", "Changed"}, "Propagated")
           answered == Promoted(peer[p], ids, NegotiationState, "Negotiated")
           pd == IF d.mode = "offer" THEN [offered EXCEPT !.signalling_state = "HaveLocalOffer"]
                                     ELSE [answered EXCEPT !.signalling_state = "Negotiated"]
<1>1. /\ peer[p] \in PeerRecord /\ Sound(p, peer[p]) /\ q \in Peer /\ q # p /\ Other(q) = p
      /\ \A r \in Peer : r = p \/ r = q
      /\ describing[p] \in Seq(Description) /\ wire[q] \in Seq(Description)
  BY InvParts, TwoPeers
<1>2. /\ describing[p] # <<>> /\ peer' = [peer EXCEPT ![p] = pd]
      /\ describing' = [describing EXCEPT ![p] = <<>>]
      /\ wire' = [wire EXCEPT ![q] = Append(wire[q], d)]
      /\ used' = used
  BY <1>1 DEF PromoteNegotiation, Inv, Typed
<1>3. "Propagated" \in NegotiationState /\ "Negotiated" \in NegotiationState
  BY DEF NegotiationState
<1>4. Alike(peer[p], offered) /\ Alike(peer[p], answered)
  BY <1>1, <1>3, AlikePromoted
<1>5. offered \in PeerRecord /\ answered \in PeerRecord
  BY <1>1, <1>3, PromotedIs
<1> HIDE DEF offered, answered
<1>6. Alike(peer[p], pd)
  <2>1. CASE d.mode = "offer"
    <3>1. Alike(peer[p], [offered EXCEPT !.signalling_state = "HaveLocalOffer"])
      BY <1>4, <1>5, AlikeState, AlikeTransitive
    <3> QED BY <2>1, <3>1
  <2>2. CASE d.mode # "offer"
    <3>1. Alike(peer[p], [answered EXCEPT !.signalling_state = "Negotiated"])
      BY <1>4, <1>5, AlikeState, AlikeTransitive
    <3> QED BY <2>2, <3>1
  <2> QED BY <2>1, <2>2
<1> HIDE DEF pd
<1>7. /\ peer'[p] = pd /\ \A r \in Peer : r # p => peer'[r] = peer[r]
      /\ describing'[p] = <<>> /\ \A r \in Peer : r # p => describing'[r] = describing[r]
      /\ wire'[q] = Append(wire[q], d) /\ wire'[p] = wire[p]
  BY <1>1, <1>2 DEF Inv, Typed
<1>8. Hears(place, pd) /\ Follows(pd)
  BY <1>6, RemotesHeard DEF Alike, Tracking
<1>9. KeepsHomes(place, peer[p], pd) /\ DOMAIN pd.senders \subseteq used
  BY <1>6 DEF Alike, KeepsLines, KeepsHomes, Tracking
<1>10. ASSUME NEW r \in Peer, NEW i \in DOMAIN describing'[r]
       PROVE  Told(place, peer[r], describing'[r][i])
  <2>1. r # p
    BY <1>7, <1>10
  <2> QED BY <1>7, <1>10, <2>1 DEF Tracking
<1>11. Told(place, peer[p], d)
  <2>1. 1 \in DOMAIN describing[p] /\ d = describing[p][1]
    BY <1>1, <1>2
  <2> QED BY <2>1 DEF Tracking
<1>12. ASSUME NEW r \in Peer, NEW i \in DOMAIN wire'[Other(r)]
       PROVE  Told(place, peer[r], wire'[Other(r)][i])
  <2>1. CASE r = q
    <3>1. wire'[Other(r)] = wire[Other(r)]
      BY <1>1, <1>7, <2>1
    <3> QED BY <1>12, <3>1 DEF Tracking
  <2>2. CASE r = p
    <3>1. wire'[Other(r)] = Append(wire[Other(r)], d) /\ wire[Other(r)] \in Seq(Description)
      BY <1>1, <1>7, <2>2
    <3>2. \/ i \in DOMAIN wire[Other(r)] /\ wire'[Other(r)][i] = wire[Other(r)][i]
          \/ wire'[Other(r)][i] = d
      BY <1>12, <3>1
    <3> QED BY <1>11, <2>2, <3>2 DEF Tracking
  <2> QED BY <1>1, <2>1, <2>2
<1> QED BY <1>2, <1>7, <1>8, <1>9, <1>10, <1>12, TrackStep
\* What a description of q on the wire tells is what its lines and streams mean.
LEMMA ToldMeant ==
  ASSUME NEW q \in Peer, NEW pc, Sound(q, pc), NEW place, Grounded(place, q, pc),
         NEW d \in Description, Told(place, pc, d), NEW k \in DOMAIN d.media
  PROVE  Meant(place, q, k, d.media[k])
<1>1. k # NoIndex
  <2>1. d.media \in Seq(Medium)
    BY DEF Description, Medium
  <2>2. k \in 1 .. Len(d.media)
    BY <2>1
  <2> QED BY <2>2 DEF NoIndex
<1>2. \A s \in d.media[k].streams : place[s] = k
  BY DEF Told
<1>3. ASSUME d.media[k].type = Application, NEW s \in Ssrc[q], place[s] = k PROVE FALSE
  <2>1. PICK i \in DOMAIN pc.lines : pc.lines[i].index = k /\ pc.lines[i].type = Application
    BY <1>3 DEF Told
  <2>2. PICK j \in DOMAIN pc.lines : pc.lines[j].index = k /\ pc.lines[j].type # Application
    BY <1>1, <1>3 DEF Grounded
  <2>3. i = j
    BY <1>1, <2>1, <2>2 DEF Sound, InPlace, Places
  <2> QED BY <2>1, <2>2, <2>3
<1> QED BY <1>2, <1>3 DEF Meant

LEMMA AlikeApplied ==
  ASSUME NEW pc \in PeerRecord
  PROVE  Alike(pc, Applied(pc))
<1> DEFINE settled == Promoted(pc, LineIds(Range(pc.lines)), {"Propagated"}, "Negotiated")
<1>1. "Negotiated" \in NegotiationState
  BY DEF NegotiationState
<1>2. settled \in PeerRecord /\ Alike(pc, settled)
  BY <1>1, PromotedIs, AlikePromoted
<1>3. \/ Applied(pc) = [settled EXCEPT !.signalling_state = "Negotiated"]
      \/ Applied(pc) = [pc EXCEPT !.signalling_state = "HaveRemoteOffer"]
  BY DEF Applied
<1> HIDE DEF settled
<1> QED BY <1>2, <1>3, AlikeState, AlikeTransitive

LEMMA SetRemoteDescriptionTracks ==
  ASSUME Inv, Inv', StepPlaced, NEW place, Tracking(place), NEW p \in Peer,
         SetRemoteDescription(p)
  PROVE  Tracked'
<1> DEFINE q == Other(p)
           d == Head(wire[p])
           accepted == Accepts(peer[p].signalling_state, d.mode)
           result == ApplyMedia(p, peer[p], d.media)
           pd == IF ~accepted THEN peer[p] ELSE IF result.ok THEN Applied(result.pc) ELSE result.pc
           w == Tail(wire[p])
<1>1. /\ Sound(p, peer[p]) /\ Sound(q, peer[q]) /\ Carried(p)
      /\ q \in Peer /\ q # p /\ Other(q) = p /\ \A r \in Peer : r = p \/ r = q
      /\ wire[p] \in Seq(Description)
  BY InvParts, TwoPeers
<1>2. /\ wire[p] # <<>> /\ peer' = [peer EXCEPT ![p] = pd]
      /\ wire' = [wire EXCEPT ![p] = w]
      /\ UNCHANGED <<describing, used>>
  BY <1>1 DEF SetRemoteDescription, Delivered, Inv, Typed
<1>3. d \in Description /\ 1 \in DOMAIN wire[p] /\ d = wire[p][1] /\ From(q, d)
  BY <1>1, <1>2, TailOnce DEF Carried
<1>4. d.media \in Seq(Medium)
  BY <1>3 DEF Description, Medium
<1>5. \A k \in DOMAIN d.media : Meant(place, q, k, d.media[k])
  <2>1. Told(place, peer[q], d) /\ Grounded(place, q, peer[q])
    BY <1>1, <1>3 DEF Tracking
  <2> HIDE DEF d, q
  <2> QED BY <1>1, <1>3, <2>1, ToldMeant
<1>6. Hears(place, peer[p]) /\ Follows(peer[p])
  BY DEF Tracking
<1>7. Hears(place, result.pc) /\ Follows(result.pc) /\ KeepsLines(peer[p], result.pc)
  BY <1>1, <1>3, <1>4, <1>5, <1>6, AppliedFollows DEF From
<1>8. result.pc \in PeerRecord
  BY <1>1, <1>3, <1>4, AppliedMedia DEF From
<1> HIDE DEF result, accepted
<1>9. Hears(place, pd) /\ Follows(pd) /\ KeepsLines(peer[p], pd)
  <2>1. CASE pd = peer[p]
    BY <1>6, <2>1 DEF KeepsLines
  <2>2. CASE pd = result.pc
    BY <1>7, <2>2
  <2>3. CASE pd = Applied(result.pc)
    <3>1. Alike(result.pc, pd)
      BY <1>8, <2>3, AlikeApplied
    <3>2. Hears(place, pd) /\ Follows(pd)
      BY <1>7, <3>1, RemotesHeard DEF Alike
    <3>3. KeepsLines(peer[p], pd)
      BY <1>7, <3>1 DEF Alike, KeepsLines
    <3> QED BY <3>2, <3>3
  <2> QED BY <2>1, <2>2, <2>3
<1> HIDE DEF pd
<1>10. /\ peer'[p] = pd /\ \A r \in Peer : r # p => peer'[r] = peer[r]
       /\ wire'[p] = w /\ wire'[q] = wire[q]
  BY <1>1, <1>2 DEF Inv, Typed
<1>11. KeepsHomes(place, peer[p], pd) /\ DOMAIN pd.senders \subseteq used
  BY <1>9 DEF KeepsLines, KeepsHomes, Tracking
<1>12. \A r \in Peer : \A i \in DOMAIN describing'[r] : Told(place, peer[r], describing'[r][i])
  BY <1>2 DEF Tracking
<1>13. ASSUME NEW r \in Peer, NEW i \in DOMAIN wire'[Other(r)]
       PROVE  Told(place, peer[r], wire'[Other(r)][i])
  <2>1. CASE r = p
    <3>1. wire'[Other(r)] = wire[Other(r)]
      BY <1>10, <2>1
    <3> QED BY <1>13, <3>1 DEF Tracking
  <2>2. CASE r = q
    <3>1. wire'[Other(r)] = w /\ wire[Other(r)] = wire[p]
      BY <1>1, <1>10, <2>2
    <3>2. i \in DOMAIN w
      BY <1>13, <3>1
    <3>3. i + 1 \in DOMAIN wire[p] /\ w[i] = wire[p][i + 1]
      <4>1. Len(wire[p]) \in Nat /\ Len(wire[p]) # 0 /\ DOMAIN wire[p] = 1 .. Len(wire[p])
            /\ DOMAIN w = 1 .. Len(wire[p]) - 1 /\ \A j \in 1 .. Len(wire[p]) - 1 : w[j] = wire[p][j + 1]
        BY <1>1, <1>2
      <4> HIDE DEF w
      <4> QED BY <3>2, <4>1
    <3> HIDE DEF w
    <3> QED BY <3>1, <3>3 DEF Tracking
  <2> QED BY <1>1, <2>1, <2>2
<1> QED BY <1>2, <1>9, <1>10, <1>11, <1>12, <1>13, TrackStep
LEMMA InitTracked == Init => Tracked
<1> SUFFICES ASSUME Init PROVE Tracked
  OBVIOUS
<1>1. PICK place : place = [s \in Streams |-> NoIndex]
  OBVIOUS
<1>2. NewPeer.lines = <<>> /\ NewPeer.senders = <<>> /\ NewPeer.receivers = <<>>
  BY DEF NewPeer
<1>3. DOMAIN <<>> = {}
  OBVIOUS
<1>4. \A p \in Peer : peer[p] = NewPeer /\ describing[p] = <<>> /\ wire[Other(p)] = <<>>
  BY TwoPeers DEF Init
<1>5. /\ Homes(place, NewPeer) /\ Hears(place, NewPeer) /\ Follows(NewPeer)
      /\ \A p \in Peer : Grounded(place, p, NewPeer)
  <2>1. \A p \in Peer : \A s \in Ssrc[p] : place[s] = NoIndex
    BY <1>1, OwnStreams
  <2> QED BY <1>2, <1>3, <2>1 DEF Homes, Hears, Follows, Grounded
<1>6. place \in [Streams -> Nat] /\ \A s \in Streams : place[s] = NoIndex
  BY <1>1 DEF NoIndex
<1>7. Tracking(place)
  BY <1>2, <1>3, <1>4, <1>5, <1>6 DEF Tracking
<1> QED BY <1>7 DEF Tracked

LEMMA NextTracked ==
  ASSUME Inv, Tracked, [Next]_vars
  PROVE  Tracked'
<1>1. PICK place : Tracking(place)
  BY DEF Tracked
<1>2. Inv' /\ StepPlaced
  BY NextInv
<1>3. CASE UNCHANGED vars
  <2>1. UNCHANGED <<peer, describing, wire, used>>
    BY <1>3 DEF vars
  <2>2. Tracking(place)'
    BY <1>1, <2>1 DEF Tracking
  <2> QED BY <2>2 DEF Tracked
<1>4. CASE Next
  <2>1. PICK p \in Peer :
          \/ \E s \in Streams : \/ \E type \in Media : CreateMediaSender(p, s, type)
                                \/ ChangeProperty(p, s)
                                \/ DropSender(p, s)
          \/ CreateDataChannel(p)
          \/ \E i \in DOMAIN peer[p].lines : RegisterLocalCodec(p, i)
          \/ CreateLocalDescription(p)
          \/ PromoteNegotiation(p)
          \/ SetRemoteDescription(p)
          \/ Poll(p)
    BY <1>4 DEF Next
  <2>2. CASE \E s \in Streams : \E type \in Media : CreateMediaSender(p, s, type)
    BY <1>1, <1>2, <2>2, CreateMediaSenderTracks
  <2>3. CASE \E s \in Streams : ChangeProperty(p, s)
    BY <1>1, <1>2, <2>3, ChangePropertyTracks
  <2>4. CASE \E s \in Streams : DropSender(p, s)
    BY <1>1, <1>2, <2>4, DropSenderTracks
  <2>5. CASE CreateDataChannel(p)
    BY <1>1, <1>2, <2>5, CreateDataChannelTracks
  <2>6. CASE \E i \in DOMAIN peer[p].lines : RegisterLocalCodec(p, i)
    BY <1>1, <1>2, <2>6, RegisterLocalCodecTracks
  <2>7. CASE CreateLocalDescription(p)
    BY <1>1, <1>2, <2>7, CreateLocalDescriptionTracks
  <2>8. CASE PromoteNegotiation(p)
    BY <1>1, <1>2, <2>8, PromoteNegotiationTracks
  <2>9. CASE SetRemoteDescription(p)
    BY <1>1, <1>2, <2>9, SetRemoteDescriptionTracks
  <2>10. CASE Poll(p)
    BY <1>1, <1>2, <2>10, PollTracks
  <2> QED BY <2>1, <2>2, <2>3, <2>4, <2>5, <2>6, <2>7, <2>8, <2>9, <2>10
<1> QED BY <1>3, <1>4

\* The number of registered lines is that of the places they fill.
LEMMA RegisteredCount ==
  ASSUME NEW p \in Peer, NEW pc, Sound(p, pc)
  PROVE  /\ Indexes(pc) = 1 .. Cardinality(Registered(pc))
         /\ \A l, m \in Registered(pc) : l.index = m.index => l.id = m.id
<1>1. pc \in PeerRecord
  BY DEF Sound
<1>2. PICK n \in Nat : Places(pc, n)
  BY DEF Sound, InPlace
<1>3. Indexes(pc) = 1 .. n
  BY <1>1, <1>2, IndexesAre
<1>4. ASSUME NEW l \in Registered(pc), NEW m \in Registered(pc), l.index = m.index
      PROVE  l = m
  <2>1. PICK i \in DOMAIN pc.lines : l = pc.lines[i] /\ l.index # NoIndex
    BY DEF Registered, Range
  <2>2. PICK j \in DOMAIN pc.lines : m = pc.lines[j]
    BY DEF Registered, Range
  <2>3. i = j
    BY <1>2, <1>4, <2>1, <2>2 DEF Places
  <2> QED BY <2>1, <2>2, <2>3
<1> DEFINE at == [k \in 1 .. n |-> CHOOSE l \in Registered(pc) : l.index = k]
<1>5. \A k \in 1 .. n : at[k] \in Registered(pc) /\ at[k].index = k
  BY <1>3 DEF Indexes
<1>6. \A l \in Registered(pc) : l.index \in 1 .. n /\ at[l.index] = l
  BY <1>3, <1>4, <1>5 DEF Indexes
<1>7. Cardinality(Registered(pc)) = n
  <2>1. at \in [1 .. n -> Registered(pc)]
    BY <1>5
  <2>2. DOMAIN at = 1 .. n
    OBVIOUS
  <2> HIDE DEF at
  <2>3. at \in Injection(1 .. n, Registered(pc))
    BY <1>5, <2>1, <2>2 DEF Injection, IsInjective
  <2>4. at \in Surjection(1 .. n, Registered(pc))
    BY <1>6, <2>1 DEF Surjection
  <2>5. ExistsBijection(1 .. n, Registered(pc))
    BY <2>3, <2>4 DEF ExistsBijection, Bijection
  <2> QED BY <2>5, FS_CountingElements
<1> QED BY <1>3, <1>4, <1>7

\* The lines of a peer, its receivers and its application channel fit together after
\* any sequence of calls, of removed senders, of descriptions that failed or that the
\* other peer's were refused: the registered lines have the indexes 1 .. n, each once
\* (rtc.rs 445, 633), every stream the other peer announced has exactly one receiver,
\* on the line that names it (575-605), and the channel exists exactly with its line
\* (386, 497, 685).
THEOREM LinesFit == Spec => []LinesConsistent
<1>1. Inv => TypeOK
  <2> SUFFICES ASSUME Inv, NEW p \in Peer
               PROVE  /\ peer[p].signalling_state \in SignallingState
                      /\ peer[p].lines \in Seq(Line)
                      /\ \A s \in DOMAIN peer[p].senders :
                           /\ s \in Ssrc[p] /\ peer[p].senders[s] \in Sender
                           /\ \E l \in Range(peer[p].lines) : l.id = peer[p].senders[s].line /\ s \in l.local
                      /\ DOMAIN peer[p].receivers \subseteq Ssrc[Other(p)]
                      /\ peer[p].owner \in 0 .. peer[p].made
                      /\ describing[p] \in Seq(Description) /\ Len(describing[p]) <= 1
                      /\ wire[p] \in Seq(Description)
    BY DEF Inv, Typed, TypeOK
  <2>1. /\ peer[p] \in PeerRecord /\ Sound(p, peer[p]) /\ Writing(p)
        /\ describing[p] \in Seq(Description) /\ wire[p] \in Seq(Description)
    BY InvParts
  <2>2. /\ peer[p].signalling_state \in SignallingState /\ peer[p].lines \in Seq(Line)
        /\ peer[p].owner \in Nat /\ peer[p].made \in Nat
        /\ \A s \in DOMAIN peer[p].senders : peer[p].senders[s] \in Sender
    BY <2>1, RecordTypes
  <2>3. peer[p].owner \in 0 .. peer[p].made
    BY <2>1, <2>2 DEF Sound, Distinct
  <2>4. Len(describing[p]) <= 1
    <3>1. CASE describing[p] = <<>>
      BY <3>1
    <3>2. CASE describing[p] # <<>>
      <4>1. PICK d : describing[p] = <<d>>
        BY <2>1, <3>2 DEF Writing
      <4> QED BY <4>1
    <3> QED BY <3>1, <3>2
  <2>5. \A s \in DOMAIN peer[p].senders :
          \E l \in Range(peer[p].lines) : l.id = peer[p].senders[s].line /\ s \in l.local
    BY <2>1 DEF Sound, OnLine, Range
  <2>6. DOMAIN peer[p].senders \subseteq Ssrc[p] /\ DOMAIN peer[p].receivers \subseteq Ssrc[Other(p)]
    BY <2>1 DEF Sound, Belongs
  <2> QED BY <2>1, <2>2, <2>3, <2>4, <2>5, <2>6
<1>2. Inv => IndexesInOrder
  BY InvParts, RegisteredCount DEF IndexesInOrder
<1>3. Inv /\ Tracked => ReceiversFollow
  <2> SUFFICES ASSUME Inv, NEW place, Tracking(place), NEW p \in Peer
               PROVE  /\ DOMAIN peer[p].receivers = UNION {l.remote : l \in Range(peer[p].lines)}
                      /\ \A s \in DOMAIN peer[p].receivers : \A l \in Range(peer[p].lines) :
                           s \in l.remote <=> peer[p].receivers[s] = l.id
    BY DEF ReceiversFollow, Tracked
  <2>1. Follows(peer[p]) /\ Distinct(peer[p])
    BY InvParts DEF Tracking, Sound
  <2>2. DOMAIN peer[p].receivers = UNION {l.remote : l \in Range(peer[p].lines)}
    BY <2>1 DEF Follows, Range
  <2>3. ASSUME NEW s \in DOMAIN peer[p].receivers, NEW l \in Range(peer[p].lines)
        PROVE  s \in l.remote <=> peer[p].receivers[s] = l.id
    <3>1. PICK i \in DOMAIN peer[p].lines : l = peer[p].lines[i]
      BY DEF Range
    <3>2. PICK j \in DOMAIN peer[p].lines : s \in peer[p].lines[j].remote
      BY <2>1 DEF Follows
    <3>3. peer[p].receivers[s] = peer[p].lines[j].id
      BY <2>1, <3>2 DEF Follows
    <3>4. s \in l.remote => peer[p].receivers[s] = l.id
      BY <2>1, <3>1 DEF Follows
    <3>5. peer[p].receivers[s] = l.id => i = j
      BY <2>1, <3>1, <3>3 DEF Distinct
    <3> QED BY <3>1, <3>2, <3>4, <3>5
  <2> QED BY <2>2, <2>3
<1>4. Inv => ChannelHasLine
  BY InvParts DEF Sound, Channelled, ChannelHasLine, Range
<1>5. Inv /\ Tracked => LinesConsistent
  BY <1>1, <1>2, <1>3, <1>4 DEF LinesConsistent
<1>6. Init => Inv /\ Tracked
  BY InitInv, InitTracked
<1>7. Inv /\ Tracked /\ [Next]_vars => Inv' /\ Tracked'
  BY NextInv, NextTracked
<1> QED BY <1>5, <1>6, <1>7, PTL DEF Spec

-----------------------------------------------------------------------------
(***************************************************************************)
(* What the lines of one peer are to those of another, or of the same peer *)
(* after a step.                                                           *)
(***************************************************************************)
\* Every registered line of pc has one of pd, with its type, at its index.
Within(pc, pd) ==
  \A i \in DOMAIN pc.lines : pc.lines[i].index # NoIndex =>
    \E j \in DOMAIN pd.lines : /\ pd.lines[j].index = pc.lines[i].index
                               /\ pd.lines[j].type = pc.lines[i].type

\* The senders a line lists are on it.
Peopled(pc) ==
  \A i \in DOMAIN pc.lines : \A s \in pc.lines[i].local :
    s \in DOMAIN pc.senders /\ pc.senders[s].line = pc.lines[i].id

\* Nothing of the line has changed since it was described.
Hopeful(pc, line) ==
  ~Pending(line.state) /\ \A s \in line.local : ~Pending(pc.senders[s].state)

\* What a step leaves of the registered lines: they stay, with the streams they
\* hear, and none is new or looks described without having been so before.
Retains(pc, pd) ==
  \A i \in DOMAIN pc.lines : pc.lines[i].index # NoIndex =>
    \E j \in DOMAIN pd.lines : /\ pd.lines[j].index = pc.lines[i].index
                               /\ pd.lines[j].type = pc.lines[i].type
                               /\ pd.lines[j].remote = pc.lines[i].remote
Restrained(pc, pd, line) ==
  \E i \in DOMAIN pc.lines :
    /\ pc.lines[i].index = line.index /\ pc.lines[i].type = line.type
    /\ Hopeful(pd, line) => Hopeful(pc, pc.lines[i]) /\ pc.lines[i].local = line.local
Restrains(pc, pd) ==
  \A j \in DOMAIN pd.lines : pd.lines[j].index # NoIndex => Restrained(pc, pd, pd.lines[j])
Calm(pc, pd) == Retains(pc, pd) /\ Restrains(pc, pd)

LEMMA WithinOn == \A pc : Within(pc, pc)
BY DEF Within

LEMMA WithinTransitive == \A pc, pd, pe : Within(pc, pd) /\ Within(pd, pe) => Within(pc, pe)
<1> SUFFICES ASSUME NEW pc, NEW pd, NEW pe, Within(pc, pd), Within(pd, pe),
                    NEW i \in DOMAIN pc.lines, pc.lines[i].index # NoIndex
             PROVE  \E k \in DOMAIN pe.lines : /\ pe.lines[k].index = pc.lines[i].index
                                               /\ pe.lines[k].type = pc.lines[i].type
  BY DEF Within
<1>1. PICK j \in DOMAIN pd.lines : pd.lines[j].index = pc.lines[i].index /\ pd.lines[j].type = pc.lines[i].type
  BY DEF Within
<1> QED BY <1>1 DEF Within

LEMMA CalmOn == \A pc : Calm(pc, pc)
BY DEF Calm, Retains, Restrains, Restrained

LEMMA CalmWithin == \A pc, pd : Calm(pc, pd) => Within(pc, pd) /\ Within(pd, pc)
BY DEF Calm, Retains, Restrains, Restrained, Within

LEMMA RetainsTransitive ==
  ASSUME NEW pc, NEW pd, NEW pe, Retains(pc, pd), Retains(pd, pe)
  PROVE  Retains(pc, pe)
<1> SUFFICES ASSUME NEW i \in DOMAIN pc.lines, pc.lines[i].index # NoIndex
             PROVE  \E k \in DOMAIN pe.lines : /\ pe.lines[k].index = pc.lines[i].index
                                               /\ pe.lines[k].type = pc.lines[i].type
                                               /\ pe.lines[k].remote = pc.lines[i].remote
  BY DEF Retains
<1>1. PICK j \in DOMAIN pd.lines : /\ pd.lines[j].index = pc.lines[i].index
                                   /\ pd.lines[j].type = pc.lines[i].type
                                   /\ pd.lines[j].remote = pc.lines[i].remote
  BY DEF Retains
<1> QED BY <1>1 DEF Retains

LEMMA RestrainsTransitive ==
  ASSUME NEW pc, NEW pd, NEW pe, Restrains(pc, pd), Restrains(pd, pe)
  PROVE  Restrains(pc, pe)
<1> SUFFICES ASSUME NEW k \in DOMAIN pe.lines, pe.lines[k].index # NoIndex
             PROVE  Restrained(pc, pe, pe.lines[k])
  BY DEF Restrains
<1>1. PICK j \in DOMAIN pd.lines :
        /\ pd.lines[j].index = pe.lines[k].index /\ pd.lines[j].type = pe.lines[k].type
        /\ Hopeful(pe, pe.lines[k]) => Hopeful(pd, pd.lines[j]) /\ pd.lines[j].local = pe.lines[k].local
  BY DEF Restrains, Restrained
<1>2. PICK i \in DOMAIN pc.lines :
        /\ pc.lines[i].index = pd.lines[j].index /\ pc.lines[i].type = pd.lines[j].type
        /\ Hopeful(pd, pd.lines[j]) => Hopeful(pc, pc.lines[i]) /\ pc.lines[i].local = pd.lines[j].local
  BY <1>1 DEF Restrains, Restrained
<1> QED BY <1>1, <1>2 DEF Restrained

LEMMA CalmTransitive == \A pc, pd, pe : Calm(pc, pd) /\ Calm(pd, pe) => Calm(pc, pe)
BY RetainsTransitive, RestrainsTransitive DEF Calm

-----------------------------------------------------------------------------
(* Steps that change states only.                                          *)
Unmoved(pc, pd) ==
  /\ DOMAIN pd.lines = DOMAIN pc.lines
  /\ \A i \in DOMAIN pc.lines :
       /\ pd.lines[i].id = pc.lines[i].id /\ pd.lines[i].type = pc.lines[i].type
       /\ pd.lines[i].index = pc.lines[i].index
       /\ pd.lines[i].local = pc.lines[i].local /\ pd.lines[i].remote = pc.lines[i].remote
  /\ DOMAIN pd.senders = DOMAIN pc.senders
  /\ \A s \in DOMAIN pc.senders : pd.senders[s].line = pc.senders[s].line

LEMMA UnmovedKeeps ==
  ASSUME NEW pc, NEW pd, Unmoved(pc, pd), Peopled(pc)
  PROVE  Retains(pc, pd) /\ Within(pd, pc) /\ Peopled(pd)
<1>1. Retains(pc, pd) /\ Within(pd, pc)
  BY DEF Unmoved, Retains, Within
<1>2. Peopled(pd)
  BY DEF Unmoved, Peopled
<1> QED BY <1>1, <1>2

LEMMA UnmovedCalm ==
  ASSUME NEW pc, NEW pd, Unmoved(pc, pd), Peopled(pc),
         \A i \in DOMAIN pc.lines : Pending(pc.lines[i].state) => Pending(pd.lines[i].state),
         \A s \in DOMAIN pc.senders : Pending(pc.senders[s].state) => Pending(pd.senders[s].state)
  PROVE  Calm(pc, pd) /\ Peopled(pd)
<1>1. Retains(pc, pd) /\ Peopled(pd)
  BY UnmovedKeeps
<1>2. Restrains(pc, pd)
  <2> SUFFICES ASSUME NEW j \in DOMAIN pd.lines PROVE Restrained(pc, pd, pd.lines[j])
    BY DEF Restrains
  <2>1. /\ j \in DOMAIN pc.lines /\ pd.lines[j].index = pc.lines[j].index
        /\ pd.lines[j].type = pc.lines[j].type /\ pd.lines[j].local = pc.lines[j].local
    BY DEF Unmoved
  <2>2. Hopeful(pd, pd.lines[j]) => Hopeful(pc, pc.lines[j])
    BY <2>1 DEF Hopeful, Peopled
  <2> QED BY <2>1, <2>2 DEF Restrained
<1> QED BY <1>1, <1>2 DEF Calm

LEMMA UnmovedOn == \A pc : Unmoved(pc, pc)
BY DEF Unmoved

LEMMA StateUnmoved ==
  ASSUME NEW pc \in PeerRecord, Peopled(pc), NEW state
  PROVE  LET pd == [pc EXCEPT !.signalling_state = state]
         IN  Calm(pc, pd) /\ Peopled(pd)
<1> DEFINE pd == [pc EXCEPT !.signalling_state = state]
<1>1. pd.lines = pc.lines /\ pd.senders = pc.senders
  BY DEF PeerRecord
<1> HIDE DEF pd
<1>2. Unmoved(pc, pd)
  BY <1>1 DEF Unmoved
<1>3. Calm(pc, pd) /\ Peopled(pd)
  BY <1>1, <1>2, UnmovedCalm
<1> QED BY <1>3 DEF pd

LEMMA TouchedCalm ==
  ASSUME NEW pc, NEW pd, Peopled(pc), pd.lines = pc.lines, DOMAIN pd.senders = DOMAIN pc.senders,
         \A s \in DOMAIN pc.senders :
           /\ pd.senders[s].line = pc.senders[s].line
           /\ pd.senders[s].state \in {pc.senders[s].state, Touched(pc.senders[s].state)}
  PROVE  Calm(pc, pd) /\ Peopled(pd)
<1>1. \A s \in DOMAIN pc.senders : Pending(pc.senders[s].state) => Pending(pd.senders[s].state)
  BY DEF Touched, Pending
<1>2. Unmoved(pc, pd)
  BY DEF Unmoved
<1> QED BY <1>1, <1>2, UnmovedCalm

LEMMA DroppedCalm ==
  ASSUME NEW pc \in PeerRecord, Peopled(pc), NEW s \in DOMAIN pc.senders
  PROVE  LET pd == [pc EXCEPT !.senders[s].open = FALSE]
         IN  Calm(pc, pd) /\ Peopled(pd) /\ pd.lines = pc.lines
<1> DEFINE pd == [pc EXCEPT !.senders[s].open = FALSE]
<1>1. \A r \in DOMAIN pc.senders : pc.senders[r] \in Sender
  BY RecordTypes
<1>2. /\ pd.lines = pc.lines /\ DOMAIN pd.senders = DOMAIN pc.senders
      /\ \A r \in DOMAIN pc.senders :
           pd.senders[r].line = pc.senders[r].line /\ pd.senders[r].state = pc.senders[r].state
  BY <1>1 DEF PeerRecord, Sender
<1> HIDE DEF pd
<1>3. Unmoved(pc, pd)
  BY <1>2 DEF Unmoved
<1>4. Calm(pc, pd) /\ Peopled(pd)
  BY <1>2, <1>3, UnmovedCalm
<1> QED BY <1>2, <1>4 DEF pd

LEMMA WrittenUnmoved ==
  ASSUME NEW pc \in PeerRecord, Peopled(pc)
  PROVE  LET pd == Written(pc)
         IN  Calm(pc, pd) /\ Peopled(pd) /\ pd.lines = pc.lines
<1> DEFINE pd == Written(pc)
<1>1. \A r \in DOMAIN pc.senders : pc.senders[r] \in Sender
  BY RecordTypes
<1>2. /\ pd.lines = pc.lines /\ DOMAIN pd.senders = DOMAIN pc.senders
      /\ \A r \in DOMAIN pc.senders :
           pd.senders[r].line = pc.senders[r].line /\ pd.senders[r].state = pc.senders[r].state
  BY <1>1 DEF PeerRecord, Sender, Written
<1> HIDE DEF pd
<1>3. Unmoved(pc, pd)
  BY <1>2 DEF Unmoved
<1>4. Calm(pc, pd) /\ Peopled(pd)
  BY <1>2, <1>3, UnmovedCalm
<1> QED BY <1>2, <1>4 DEF pd

LEMMA PromotedUnmoved ==
  ASSUME NEW pc \in PeerRecord, NEW ids, NEW from, NEW state \in NegotiationState
  PROVE  Unmoved(pc, Promoted(pc, ids, from, state))
<1> DEFINE pd == Promoted(pc, ids, from, state)
<1>1. SameLines(pc, pd) /\ \A i \in DOMAIN pc.lines : pd.lines[i].index = pc.lines[i].index
  BY PromotedIs
<1>2. \A i \in DOMAIN pc.lines : pc.lines[i] \in Line
  BY RecordTypes
<1>3. \A i \in DOMAIN pc.lines : pd.lines[i].remote = pc.lines[i].remote
  BY <1>2 DEF Promoted, PeerRecord, Line
<1> HIDE DEF pd
<1>4. Unmoved(pc, pd)
  BY <1>1, <1>3 DEF SameLines, Unmoved
<1> QED BY <1>4 DEF pd

LEMMA AppliedCalm ==
  ASSUME NEW pc \in PeerRecord, Peopled(pc)
  PROVE  Calm(pc, Applied(pc)) /\ Peopled(Applied(pc))
<1> DEFINE settled == Promoted(pc, LineIds(Range(pc.lines)), {"Propagated"}, "Negotiated")
<1>1. "Negotiated" \in NegotiationState
  BY DEF NegotiationState
<1>2. settled \in PeerRecord /\ Unmoved(pc, settled)
  BY <1>1, PromotedIs, PromotedUnmoved
<1>3. /\ \A i \in DOMAIN pc.lines : Pending(pc.lines[i].state) => Pending(settled.lines[i].state)
      /\ \A s \in DOMAIN pc.senders : Pending(pc.senders[s].state) => Pending(settled.senders[s].state)
  BY <1>1, PromotedIs DEF Pending
<1>4. \/ Applied(pc) = [settled EXCEPT !.signalling_state = "Negotiated"]
      \/ Applied(pc) = [pc EXCEPT !.signalling_state = "HaveRemoteOffer"]
  BY DEF Applied
<1> HIDE DEF settled
<1>5. Calm(pc, settled) /\ Peopled(settled)
  BY <1>2, <1>3, UnmovedCalm
<1> QED BY <1>2, <1>4, <1>5, StateUnmoved, CalmTransitive

LEMMA CodecCalm ==
  ASSUME NEW pc \in PeerRecord, Peopled(pc), NEW i \in DOMAIN pc.lines
  PROVE  LET pd == [pc EXCEPT !.lines[i].codecs = TRUE, !.lines[i].state = Touched(@)]
         IN  Calm(pc, pd) /\ Peopled(pd)
<1> DEFINE pd == [pc EXCEPT !.lines[i].codecs = TRUE, !.lines[i].state = Touched(@)]
<1>1. \A j \in DOMAIN pc.lines : pc.lines[j] \in Line
  BY RecordTypes
<1>2. /\ pd.senders = pc.senders /\ DOMAIN pd.lines = DOMAIN pc.lines
      /\ \A j \in DOMAIN pc.lines :
           /\ pd.lines[j].id = pc.lines[j].id /\ pd.lines[j].type = pc.lines[j].type
           /\ pd.lines[j].index = pc.lines[j].index
           /\ pd.lines[j].local = pc.lines[j].local /\ pd.lines[j].remote = pc.lines[j].remote
           /\ pd.lines[j].state = IF j = i THEN Touched(pc.lines[j].state) ELSE pc.lines[j].state
  BY <1>1 DEF PeerRecord, Line
<1> HIDE DEF pd
<1>3. \A j \in DOMAIN pc.lines : Pending(pc.lines[j].state) => Pending(pd.lines[j].state)
  BY <1>2 DEF Touched, Pending
<1>4. Unmoved(pc, pd)
  BY <1>2 DEF Unmoved
<1>5. Calm(pc, pd) /\ Peopled(pd)
  BY <1>2, <1>3, <1>4, UnmovedCalm
<1> QED BY <1>5 DEF pd

-----------------------------------------------------------------------------
(* Steps that add or remove lines without an index.                        *)
LEMMA AllocatedCalm ==
  ASSUME NEW pc \in PeerRecord, Peopled(pc), NEW type \in Media \cup {Application}
  PROVE  LET pd == Allocate(pc, type)
         IN  /\ pd \in PeerRecord /\ Calm(pc, pd) /\ Peopled(pd)
             /\ DOMAIN pd.senders = DOMAIN pc.senders
<1>1. CASE FreeLine(pc, type) # {}
  BY <1>1, CalmOn DEF Allocate
<1>2. CASE FreeLine(pc, type) = {}
  <2> DEFINE line == NewLine(pc.made + 1, type)
             pd == AppendLine(pc, line)
             n == Len(pc.lines)
  <2>1. line \in Line /\ line.local = {} /\ line.index = NoIndex
    BY RecordTypes, NewLineFields
  <2>2. Allocate(pc, type) = pd
    BY <1>2 DEF Allocate
  <2> HIDE DEF line
  <2>3. /\ pd \in PeerRecord
        /\ DOMAIN pd.lines = DOMAIN pc.lines \cup {n + 1} /\ n + 1 \notin DOMAIN pc.lines
        /\ pd.lines[n + 1] = line /\ \A i \in DOMAIN pc.lines : pd.lines[i] = pc.lines[i]
        /\ pd.senders = pc.senders
    BY <2>1, AppendedIs
  <2> HIDE DEF pd, n
  <2>4. Retains(pc, pd)
    BY <2>3 DEF Retains
  <2>5. Restrains(pc, pd)
    <3> SUFFICES ASSUME NEW j \in DOMAIN pd.lines, pd.lines[j].index # NoIndex
                 PROVE  Restrained(pc, pd, pd.lines[j])
      BY DEF Restrains
    <3>1. j \in DOMAIN pc.lines /\ pd.lines[j] = pc.lines[j]
      BY <2>1, <2>3
    <3> QED BY <2>3, <3>1 DEF Restrained, Hopeful
  <2>6. Peopled(pd)
    BY <2>1, <2>3 DEF Peopled
  <2> QED BY <2>2, <2>3, <2>4, <2>5, <2>6 DEF Calm
<1> QED BY <1>1, <1>2

LEMMA ChannelCalm ==
  ASSUME NEW pc \in PeerRecord, Peopled(pc)
  PROVE  LET pd == [Allocate(pc, Application) EXCEPT !.channel = TRUE]
         IN  Calm(pc, pd) /\ Peopled(pd)
<1> DEFINE pb == Allocate(pc, Application)
           pd == [pb EXCEPT !.channel = TRUE]
<1>1. Calm(pc, pb) /\ pb \in PeerRecord /\ Peopled(pb)
  BY AllocatedCalm
<1> HIDE DEF pb
<1>2. pd.lines = pb.lines /\ pd.senders = pb.senders
  BY <1>1 DEF PeerRecord
<1> HIDE DEF pd
<1>3. Unmoved(pb, pd)
  BY <1>2 DEF Unmoved
<1>4. Calm(pb, pd) /\ Peopled(pd)
  BY <1>1, <1>2, <1>3, UnmovedCalm
<1>5. Calm(pc, pd)
  BY <1>1, <1>4, CalmTransitive
<1> QED BY <1>4, <1>5 DEF pd, pb

\* A line that gets a sender has one that was not described.
LEMMA CreatedCalm ==
  ASSUME NEW p \in Peer, NEW pc, Sound(p, pc), Peopled(pc), NEW type \in Media,
         NEW s, s \notin DOMAIN pc.senders
  PROVE  Calm(pc, Created(pc, s, type)) /\ Peopled(Created(pc, s, type))
<1> DEFINE pb == Allocate(pc, type)
           i  == Min(FreeLine(pb, type))
           new == NewSender(pb.lines[i].id)
           pd == [pb EXCEPT !.lines[i].local = @ \cup {s},
                            !.senders = [r \in DOMAIN @ \cup {s} |->
                               IF r = s THEN NewSender(pb.lines[i].id) ELSE @[r]]]
<1>1. /\ Calm(pc, pb) /\ pb \in PeerRecord /\ Peopled(pb)
      /\ DOMAIN pb.senders = DOMAIN pc.senders
  BY AllocatedCalm DEF Sound
<1>2. i \in FreeLine(pb, type)
  BY AllocatedSound
<1>3. Created(pc, s, type) = pd
  BY DEF Created
<1>4. new.line = pb.lines[i].id /\ new.state = "None"
  BY DEF NewSender
<1> HIDE DEF pb, i
<1>5. i \in DOMAIN pb.lines
  BY <1>2 DEF FreeLine
<1>6. \A j \in DOMAIN pb.lines : pb.lines[j] \in Line
  BY <1>1, RecordTypes
<1>7. /\ DOMAIN pd.lines = DOMAIN pb.lines
      /\ \A j \in DOMAIN pb.lines :
           /\ pd.lines[j].id = pb.lines[j].id /\ pd.lines[j].type = pb.lines[j].type
           /\ pd.lines[j].index = pb.lines[j].index /\ pd.lines[j].state = pb.lines[j].state
           /\ pd.lines[j].remote = pb.lines[j].remote
           /\ pd.lines[j].local = IF j = i THEN pb.lines[j].local \cup {s} ELSE pb.lines[j].local
  BY <1>1, <1>5, <1>6 DEF PeerRecord, Line
<1>8. /\ DOMAIN pd.senders = DOMAIN pb.senders \cup {s}
      /\ \A r \in DOMAIN pb.senders : r # s => pd.senders[r] = pb.senders[r]
      /\ pd.senders[s] = new
  BY <1>1 DEF PeerRecord
<1> HIDE DEF pd, new
<1>9. \A r \in DOMAIN pb.senders : pd.senders[r] = pb.senders[r]
  BY <1>1, <1>8
<1>10. Retains(pb, pd)
  BY <1>7 DEF Retains
<1>11. Restrains(pb, pd)
  <2> SUFFICES ASSUME NEW j \in DOMAIN pd.lines PROVE Restrained(pb, pd, pd.lines[j])
    BY DEF Restrains
  <2>1. CASE j = i
    <3>1. s \in pd.lines[j].local /\ Pending(pd.senders[s].state)
      BY <1>4, <1>7, <1>8, <2>1 DEF Pending
    <3>2. ~Hopeful(pd, pd.lines[j])
      BY <3>1 DEF Hopeful
    <3> QED BY <1>7, <3>2 DEF Restrained
  <2>2. CASE j # i
    <3>1. Hopeful(pd, pd.lines[j]) => Hopeful(pb, pb.lines[j])
      BY <1>1, <1>7, <1>9, <2>2 DEF Hopeful, Peopled
    <3> QED BY <1>7, <2>2, <3>1 DEF Restrained
  <2> QED BY <2>1, <2>2
<1>12. Peopled(pd)
  <2> SUFFICES ASSUME NEW j \in DOMAIN pd.lines, NEW r \in pd.lines[j].local
               PROVE  r \in DOMAIN pd.senders /\ pd.senders[r].line = pd.lines[j].id
    BY DEF Peopled
  <2>1. CASE r \in pb.lines[j].local
    <3>1. r \in DOMAIN pb.senders /\ pb.senders[r].line = pb.lines[j].id
      BY <1>1, <1>7, <2>1 DEF Peopled
    <3> QED BY <1>7, <1>8, <1>9, <3>1
  <2>2. CASE r \notin pb.lines[j].local
    <3>1. j = i /\ r = s
      BY <1>7, <2>2
    <3> QED BY <1>4, <1>5, <1>7, <1>8, <3>1
  <2> QED BY <2>1, <2>2
<1>13. Calm(pb, pd)
  BY <1>10, <1>11 DEF Calm
<1>14. Calm(pc, pd)
  BY <1>1, <1>13, CalmTransitive
<1> QED BY <1>3, <1>12, <1>14

\* A registered line is kept, and is pending when it lost a sender.
LEMMA ClosedCalm ==
  ASSUME NEW p \in Peer, NEW pc, Sound(p, pc), Peopled(pc)
  PROVE  Calm(pc, RemoveClosed(pc)) /\ Peopled(RemoveClosed(pc))
<1>1. pc \in PeerRecord /\ Distinct(pc)
  BY DEF Sound
<1> DEFINE left == DOMAIN pc.senders \ Gone(pc)
           w == Restrict(pc.senders, left)
           pd == RemoveClosed(pc)
<1>2. PICK lines \in Seq(Line) :
        Sifted(pc, lines, Len(pc.lines)) /\ pd = [pc EXCEPT !.senders = w, !.lines = lines]
  BY <1>1, ClosedRemoved
<1> HIDE DEF pd
<1>3. /\ DOMAIN w = left /\ left \subseteq DOMAIN pc.senders
      /\ \A s \in left : w[s] = pc.senders[s]
  BY DEF Restrict
<1> HIDE DEF w
<1>4. pd.lines = lines /\ pd.senders = w
  BY <1>1, <1>2 DEF PeerRecord
<1>5. DOMAIN pc.lines = 1 .. Len(pc.lines) /\ \A i \in DOMAIN pc.lines : pc.lines[i] \in Line
  BY <1>1, RecordTypes
<1>6. ASSUME NEW i \in DOMAIN pc.lines
      PROVE  LET l == Bereft(pc, pc.lines[i])
             IN  /\ l.id = pc.lines[i].id /\ l.index = pc.lines[i].index
                 /\ l.type = pc.lines[i].type /\ l.remote = pc.lines[i].remote
                 /\ l.local = pc.lines[i].local \ Gone(pc)
                 /\ Pending(l.state) \/ l = pc.lines[i]
  <2> DEFINE l == Bereft(pc, pc.lines[i])
  <2>1. /\ l.id = pc.lines[i].id /\ l.index = pc.lines[i].index
        /\ l.type = pc.lines[i].type /\ l.local = pc.lines[i].local \ Gone(pc)
    BY <1>5, BereftLine
  <2>2. l.remote = pc.lines[i].remote
    BY <1>5 DEF Bereft, Line
  <2>3. Pending(l.state) \/ l = pc.lines[i]
    BY <1>5 DEF Bereft, Line, Pending
  <2> QED BY <2>1, <2>2, <2>3
<1>7. Retains(pc, pd)
  <2> SUFFICES ASSUME NEW i \in DOMAIN pc.lines, pc.lines[i].index # NoIndex
               PROVE  \E j \in DOMAIN pd.lines : /\ pd.lines[j].index = pc.lines[i].index
                                                 /\ pd.lines[j].type = pc.lines[i].type
                                                 /\ pd.lines[j].remote = pc.lines[i].remote
    BY DEF Retains
  <2>1. Kept(pc, pc.lines[i])
    BY DEF Kept
  <2>2. PICK j \in DOMAIN lines : lines[j] = Bereft(pc, pc.lines[i])
    BY <1>2, <1>5, <2>1 DEF Sifted
  <2> QED BY <1>4, <1>6, <2>2
<1>8. Restrains(pc, pd)
  <2> SUFFICES ASSUME NEW j \in DOMAIN lines PROVE Restrained(pc, pd, lines[j])
    BY <1>4 DEF Restrains
  <2>1. PICK i \in DOMAIN pc.lines : lines[j] = Bereft(pc, pc.lines[i])
    BY <1>2, <1>5 DEF Sifted
  <2>2. ASSUME Hopeful(pd, lines[j])
        PROVE  Hopeful(pc, pc.lines[i]) /\ pc.lines[i].local = lines[j].local
    <3>1. lines[j] = pc.lines[i]
      BY <1>6, <2>1, <2>2 DEF Hopeful
    <3>2. \A s \in pc.lines[i].local : s \in left
      BY <1>6, <2>1, <3>1 DEF Peopled
    <3> QED BY <1>3, <1>4, <2>2, <3>1, <3>2 DEF Hopeful
  <2>3. lines[j].index = pc.lines[i].index /\ lines[j].type = pc.lines[i].type
    BY <1>6, <2>1
  <2> QED BY <2>2, <2>3 DEF Restrained
<1>9. Peopled(pd)
  <2> SUFFICES ASSUME NEW j \in DOMAIN lines, NEW s \in lines[j].local
               PROVE  s \in DOMAIN w /\ w[s].line = lines[j].id
    BY <1>4 DEF Peopled
  <2>1. PICK i \in DOMAIN pc.lines : lines[j] = Bereft(pc, pc.lines[i])
    BY <1>2, <1>5 DEF Sifted
  <2>2. s \in pc.lines[i].local /\ s \notin Gone(pc) /\ lines[j].id = pc.lines[i].id
    BY <1>6, <2>1
  <2>3. s \in DOMAIN pc.senders /\ pc.senders[s].line = pc.lines[i].id
    BY <2>2 DEF Peopled
  <2> QED BY <1>3, <2>2, <2>3
<1> QED BY <1>7, <1>8, <1>9 DEF Calm, pd

\* An offer leaves the lines that have an index.
LEMMA AssignedRetains ==
  ASSUME NEW p \in Peer, NEW pc, Sound(p, pc), Peopled(pc)
  PROVE  Retains(pc, AssignIndexes(pc)) /\ Peopled(AssignIndexes(pc))
<1> DEFINE first == 1 + Max(Indexes(pc) \cup {NoIndex})
           pd == AssignIndexes(pc)
<1>1. pc \in PeerRecord
  BY DEF Sound
<1>2. first \in Nat
  <2>1. PICK n \in Nat : Places(pc, n)
    BY DEF Sound, InPlace
  <2>2. Max(Indexes(pc) \cup {NoIndex}) = n
    BY <1>1, <2>1, MaxIndex
  <2> QED BY <2>2
<1>3. AssignFrom(pc, first) = pd
  BY DEF AssignIndexes
<1> HIDE DEF first, pd
<1>4. PICK f :
        pd = [pc EXCEPT !.lines = [i \in DOMAIN pc.lines |->
                IF pc.lines[i].index = NoIndex THEN [pc.lines[i] EXCEPT !.index = f[i - 1]]
                ELSE pc.lines[i]]]
  BY <1>1, <1>2, <1>3, AssignedFrom
<1>5. /\ pd.senders = pc.senders
      /\ DOMAIN pd.lines = DOMAIN pc.lines
      /\ \A i \in DOMAIN pc.lines :
           pd.lines[i] = IF pc.lines[i].index = NoIndex THEN [pc.lines[i] EXCEPT !.index = f[i - 1]]
                         ELSE pc.lines[i]
  BY <1>1, <1>4 DEF PeerRecord
<1>6. ASSUME NEW i \in DOMAIN pc.lines
      PROVE  /\ pd.lines[i].id = pc.lines[i].id /\ pd.lines[i].local = pc.lines[i].local
             /\ pc.lines[i].index # NoIndex => pd.lines[i] = pc.lines[i]
  <2>1. pc.lines[i] \in Line
    BY <1>1, RecordTypes
  <2> QED BY <1>5, <2>1 DEF Line
<1>7. Retains(pc, pd)
  BY <1>5, <1>6 DEF Retains
<1>8. Peopled(pd)
  BY <1>5, <1>6 DEF Peopled
<1> QED BY <1>7, <1>8 DEF pd

-----------------------------------------------------------------------------
(* The lines after a description was applied.                              *)

\* What looks described after the step did so before.
Hopes(pc, pd) ==
  \A j \in DOMAIN pd.lines : pd.lines[j].index # NoIndex /\ Hopeful(pd, pd.lines[j]) =>
    \E i \in DOMAIN pc.lines : /\ pc.lines[i].index = pd.lines[j].index
                               /\ pc.lines[i].local = pd.lines[j].local
                               /\ Hopeful(pc, pc.lines[i])

\* The media k: its line hears it, and has its type unless it was there before.
Takes(pc, pd, k, media) ==
  /\ \E j \in DOMAIN pd.lines :
       /\ pd.lines[j].index = k /\ pd.lines[j].remote = media.streams
       /\ pd.lines[j].type = media.type \/ \E i \in DOMAIN pc.lines : pc.lines[i].index = k
  /\ \A i \in DOMAIN pc.lines : pc.lines[i].index \notin {NoIndex, k} =>
       \E j \in DOMAIN pd.lines : pd.lines[j] = pc.lines[i]
  /\ \A j \in DOMAIN pd.lines : pd.lines[j].index \notin {NoIndex, k} =>
       \E i \in DOMAIN pc.lines : pc.lines[i] = pd.lines[j]
  /\ Hopes(pc, pd) /\ Peopled(pd)

LEMMA FollowedIs ==
  ASSUME NEW pc \in PeerRecord, NEW line
  PROVE  LET pd == FollowStreams(pc, line)
         IN  pd.lines = pc.lines /\ pd.senders = pc.senders
BY DEF FollowStreams, PeerRecord

\* Only the lines and the senders matter.
LEMMA TakesSame ==
  ASSUME NEW pc, NEW pd, NEW pe, NEW k, NEW media, Takes(pc, pd, k, media),
         pe.lines = pd.lines, pe.senders = pd.senders
  PROVE  Takes(pc, pe, k, media)
<1>1. Hopes(pc, pe)
  BY DEF Takes, Hopes, Hopeful
<1>2. Peopled(pe)
  BY DEF Takes, Peopled
<1> QED BY <1>1, <1>2 DEF Takes

LEMMA UpdateTakes ==
  ASSUME NEW p \in Peer, NEW pc, Sound(p, pc), Peopled(pc),
         NEW k \in Nat, k # 0, Covers(pc, k - 1),
         NEW media \in Medium, media.streams \subseteq Ssrc[Other(p)],
         LineFor(pc, k, media) # {}
  PROVE  LET result == UpdateLine(pc, Min(LineFor(pc, k, media)), k, media)
         IN  Peopled(result.pc) /\ (result.ok => Takes(pc, result.pc, k, media))
<1> DEFINE i == Min(LineFor(pc, k, media))
           line == FromSdp(pc.lines[i], k, media)
           pd == [pc EXCEPT !.lines = [pc.lines EXCEPT ![i] = line]]
           pe == FollowStreams(pd, line)
           fits == IF line.type = Application THEN pc.channel ELSE media.type # Application
<1>1. pc \in PeerRecord /\ Unregistered(pc)
  BY DEF Sound
<1>2. /\ pd \in PeerRecord
      /\ i \in DOMAIN pc.lines /\ line \in Line
      /\ line.id = pc.lines[i].id /\ line.type = pc.lines[i].type
      /\ line.index = k /\ line.remote = media.streams
      /\ pc.lines[i].index \in {k, NoIndex}
      /\ DOMAIN pd.lines = DOMAIN pc.lines
      /\ \A j \in DOMAIN pc.lines : pd.lines[j] = IF j = i THEN line ELSE pc.lines[j]
      /\ pd.senders = pc.senders
  BY UpdatedSound DEF Sound
<1>3. line.state = pc.lines[i].state /\ line.local = pc.lines[i].local
  <2>1. pc.lines[i] \in Line
    BY <1>1, <1>2, RecordTypes
  <2> HIDE DEF i
  <2> QED BY <2>1, FromSdpFields
<1>4. pc.lines[i].index = NoIndex => pc.lines[i].type = media.type
  <2> DEFINE here == {j \in DOMAIN pc.lines : pc.lines[j].index = k}
             free == {j \in DOMAIN pc.lines :
                        pc.lines[j].index = NoIndex /\ pc.lines[j].type = media.type}
  <2>1. LineFor(pc, k, media) = IF here # {} THEN here ELSE IF free # {} THEN {Min(free)} ELSE {}
    BY DEF LineFor
  <2>2. DOMAIN pc.lines \subseteq Nat
    BY <1>1, RecordTypes
  <2>3. CASE here # {}
    <3>1. LineFor(pc, k, media) \in SUBSET Nat
      BY <2>1, <2>2, <2>3
    <3>2. i \in LineFor(pc, k, media)
      BY <3>1, MinMember
    <3>3. pc.lines[i].index = k
      BY <2>1, <2>3, <3>2
    <3> QED BY <3>3 DEF NoIndex
  <2>4. CASE here = {}
    <3>1. free # {} /\ LineFor(pc, k, media) = {Min(free)} /\ free \in SUBSET Nat
      BY <2>1, <2>2, <2>4
    <3>2. Min(free) \in free
      BY <3>1, MinMember
    <3>3. LineFor(pc, k, media) \in SUBSET Nat
      BY <3>1, <3>2
    <3>4. i \in LineFor(pc, k, media)
      BY <3>3, MinMember
    <3> QED BY <3>1, <3>2, <3>4
  <2> QED BY <2>3, <2>4
<1> HIDE DEF i
<1>5. UpdateLine(pc, i, k, media) = IF fits THEN [ok |-> TRUE, pc |-> pe] ELSE [ok |-> FALSE, pc |-> pd]
  <2>1. [pc EXCEPT !.lines[i] = line] = pd
    BY <1>1 DEF PeerRecord
  <2> QED BY <2>1 DEF UpdateLine
<1> DEFINE result == UpdateLine(pc, i, k, media)
<1>6. /\ result.pc \in {pd, pe}
      /\ result.ok => result.pc = pe
  BY <1>5
<1> HIDE DEF result
<1> HIDE DEF line, pd
<1>7. /\ \E j \in DOMAIN pd.lines :
           /\ pd.lines[j].index = k /\ pd.lines[j].remote = media.streams
           /\ pd.lines[j].type = media.type \/ \E m \in DOMAIN pc.lines : pc.lines[m].index = k
  BY <1>2, <1>4
<1>8. /\ \A j \in DOMAIN pc.lines : pc.lines[j].index \notin {NoIndex, k} =>
           \E m \in DOMAIN pd.lines : pd.lines[m] = pc.lines[j]
      /\ \A j \in DOMAIN pd.lines : pd.lines[j].index \notin {NoIndex, k} =>
           \E m \in DOMAIN pc.lines : pc.lines[m] = pd.lines[j]
  BY <1>2
<1>9. Hopes(pc, pd)
  <2> SUFFICES ASSUME NEW j \in DOMAIN pd.lines, pd.lines[j].index # NoIndex, Hopeful(pd, pd.lines[j])
               PROVE  \E m \in DOMAIN pc.lines : /\ pc.lines[m].index = pd.lines[j].index
                                                 /\ pc.lines[m].local = pd.lines[j].local
                                                 /\ Hopeful(pc, pc.lines[m])
    BY DEF Hopes
  <2>1. CASE j = i
    <3>1. Hopeful(pc, pc.lines[i])
      BY <1>2, <1>3, <2>1 DEF Hopeful
    <3>2. pc.lines[i].index = k
      BY <1>1, <1>2, <3>1 DEF Hopeful, Unregistered
    <3> QED BY <1>2, <1>3, <2>1, <3>1, <3>2
  <2>2. CASE j # i
    BY <1>2, <2>2 DEF Hopeful
  <2> QED BY <2>1, <2>2
<1>10. Peopled(pd)
  BY <1>2, <1>3 DEF Peopled
<1>11. Takes(pc, pd, k, media)
  BY <1>7, <1>8, <1>9, <1>10 DEF Takes
<1>12. pe.lines = pd.lines /\ pe.senders = pd.senders
  BY <1>2, FollowedIs
<1> HIDE DEF pe
<1>13. Takes(pc, pe, k, media)
  BY <1>11, <1>12, TakesSame
<1>14. Peopled(pe)
  BY <1>13 DEF Takes
<1>15. Peopled(result.pc) /\ (result.ok => Takes(pc, result.pc, k, media))
  BY <1>6, <1>10, <1>13, <1>14
<1> QED BY <1>15 DEF result, i

LEMMA AddTakes ==
  ASSUME NEW p \in Peer, NEW pc, Sound(p, pc), Peopled(pc), NEW k \in Nat, k # 0,
         NEW media \in Medium
  PROVE  LET result == AddLine(p, pc, k, media)
         IN  Peopled(result.pc) /\ (result.ok => Takes(pc, result.pc, k, media))
<1> DEFINE line == FromSdp(NewLine(pc.made + 1, media.type), k, media)
           pd == AppendLine(pc, line)
           pe == [pd EXCEPT !.channel = TRUE]
           pg == FollowStreams(pd, line)
           ph == [pd EXCEPT !.lines = pc.lines]
           result == AddLine(p, pc, k, media)
           n == Len(pc.lines)
<1>1. pc \in PeerRecord /\ pc.made \in Nat
  BY RecordTypes DEF Sound
<1>2. /\ line \in Line /\ line.type = media.type /\ line.index = k
      /\ line.state = "None" /\ line.local = {} /\ line.remote = media.streams
  <2>1. pc.made + 1 \in Nat \ {0} /\ media.type \in Media \cup {Application}
    BY <1>1 DEF Medium
  <2> DEFINE fresh == NewLine(pc.made + 1, media.type)
  <2>2. /\ fresh \in Line /\ fresh.type = media.type
        /\ fresh.state = "None" /\ fresh.local = {}
    BY <2>1, NewLineFields
  <2> HIDE DEF fresh
  <2>3. LET l == FromSdp(fresh, k, media)
        IN  /\ l \in Line /\ l.id = fresh.id /\ l.type = fresh.type /\ l.index = k
            /\ l.state = fresh.state /\ l.local = fresh.local /\ l.remote = media.streams
    BY <2>2, FromSdpFields
  <2> QED BY <2>2, <2>3 DEF fresh
<1>3. result =
        IF media.type # Application THEN [ok |-> TRUE, pc |-> pg]
        ELSE IF pc.channel \/ p \in ChannelsAllow THEN [ok |-> TRUE, pc |-> pe]
        ELSE [ok |-> FALSE, pc |-> ph]
  BY DEF AddLine
<1> HIDE DEF line, result
<1>4. /\ pd \in PeerRecord
      /\ DOMAIN pd.lines = DOMAIN pc.lines \cup {n + 1} /\ n + 1 \notin DOMAIN pc.lines
      /\ pd.lines[n + 1] = line /\ \A i \in DOMAIN pc.lines : pd.lines[i] = pc.lines[i]
      /\ pd.senders = pc.senders
  BY <1>1, <1>2, AppendedIs
<1> HIDE DEF pd, n
<1>5. \E j \in DOMAIN pd.lines :
        /\ pd.lines[j].index = k /\ pd.lines[j].remote = media.streams
        /\ pd.lines[j].type = media.type \/ \E m \in DOMAIN pc.lines : pc.lines[m].index = k
  BY <1>2, <1>4
<1>6. /\ \A j \in DOMAIN pc.lines : pc.lines[j].index \notin {NoIndex, k} =>
           \E m \in DOMAIN pd.lines : pd.lines[m] = pc.lines[j]
      /\ \A j \in DOMAIN pd.lines : pd.lines[j].index \notin {NoIndex, k} =>
           \E m \in DOMAIN pc.lines : pc.lines[m] = pd.lines[j]
  BY <1>2, <1>4
<1>7. Hopes(pc, pd)
  <2> SUFFICES ASSUME NEW j \in DOMAIN pd.lines, Hopeful(pd, pd.lines[j])
               PROVE  \E m \in DOMAIN pc.lines : /\ pc.lines[m].index = pd.lines[j].index
                                                 /\ pc.lines[m].local = pd.lines[j].local
                                                 /\ Hopeful(pc, pc.lines[m])
    BY DEF Hopes
  <2>1. j # n + 1
    BY <1>2, <1>4 DEF Hopeful, Pending
  <2>2. j \in DOMAIN pc.lines /\ pd.lines[j] = pc.lines[j]
    BY <1>4, <2>1
  <2> QED BY <1>4, <2>2 DEF Hopeful
<1>8. Peopled(pd)
  BY <1>2, <1>4 DEF Peopled
<1>9. Takes(pc, pd, k, media)
  BY <1>5, <1>6, <1>7, <1>8 DEF Takes
<1>10. pg.lines = pd.lines /\ pg.senders = pd.senders
  BY <1>4, FollowedIs
<1>11. pe.lines = pd.lines /\ pe.senders = pd.senders
  BY <1>4 DEF PeerRecord
<1>12. ph.lines = pc.lines /\ ph.senders = pc.senders
  BY <1>4 DEF PeerRecord
<1> HIDE DEF pe, pg, ph
<1>13. Takes(pc, pg, k, media) /\ Takes(pc, pe, k, media)
  BY <1>9, <1>10, <1>11, TakesSame
<1>14. Peopled(pe) /\ Peopled(pg) /\ Peopled(ph)
  BY <1>12, <1>13 DEF Takes, Peopled
<1>15. Peopled(result.pc) /\ (result.ok => Takes(pc, result.pc, k, media))
  BY <1>3, <1>13, <1>14
<1> QED BY <1>15 DEF result

LEMMA HopesTransitive ==
  ASSUME NEW pc, NEW pd, NEW pe, Hopes(pc, pd), Hopes(pd, pe)
  PROVE  Hopes(pc, pe)
<1> SUFFICES ASSUME NEW k \in DOMAIN pe.lines, pe.lines[k].index # NoIndex, Hopeful(pe, pe.lines[k])
             PROVE  \E i \in DOMAIN pc.lines : /\ pc.lines[i].index = pe.lines[k].index
                                               /\ pc.lines[i].local = pe.lines[k].local
                                               /\ Hopeful(pc, pc.lines[i])
  BY DEF Hopes
<1>1. PICK j \in DOMAIN pd.lines : /\ pd.lines[j].index = pe.lines[k].index
                                   /\ pd.lines[j].local = pe.lines[k].local
                                   /\ Hopeful(pd, pd.lines[j])
  BY DEF Hopes
<1>2. PICK i \in DOMAIN pc.lines : /\ pc.lines[i].index = pd.lines[j].index
                                   /\ pc.lines[i].local = pd.lines[j].local
                                   /\ Hopeful(pc, pc.lines[i])
  BY <1>1 DEF Hopes
<1> QED BY <1>1, <1>2

\* The first k media.
Heeds(pc, pd, description, k) ==
  /\ \A m \in 1 .. k : \E j \in DOMAIN pd.lines :
       /\ pd.lines[j].index = m /\ pd.lines[j].remote = description[m].streams
       /\ pd.lines[j].type = description[m].type \/ \E i \in DOMAIN pc.lines : pc.lines[i].index = m
  /\ \A j \in DOMAIN pd.lines : pd.lines[j].index # NoIndex =>
       pd.lines[j].index \in 1 .. k \/ \E i \in DOMAIN pc.lines : pc.lines[i].index = pd.lines[j].index
  /\ Hopes(pc, pd) /\ Peopled(pd)

LEMMA HeedsStep ==
  ASSUME NEW pc, NEW pd, NEW pe, NEW description, NEW k \in Nat, k # 0,
         Heeds(pc, pd, description, k - 1), Takes(pd, pe, k, description[k])
  PROVE  Heeds(pc, pe, description, k)
<1> DEFINE old(m) == \E i \in DOMAIN pc.lines : pc.lines[i].index = m
<1>1. \A m \in 1 .. k : m = k \/ (m \in 1 .. k - 1 /\ m \notin {NoIndex, k})
  BY DEF NoIndex
<1>2. \A m \in 1 .. k - 1 : m \in 1 .. k
  OBVIOUS
<1>3. k \in 1 .. k /\ k \notin 1 .. k - 1 /\ k # NoIndex
  BY DEF NoIndex
<1>4. ASSUME NEW j \in DOMAIN pd.lines, pd.lines[j].index # NoIndex
      PROVE  pd.lines[j].index \in 1 .. k - 1 \/ old(pd.lines[j].index)
  <2>1. \A i \in DOMAIN pd.lines : pd.lines[i].index # NoIndex =>
          pd.lines[i].index \in 1 .. k - 1 \/ old(pd.lines[i].index)
    BY Zenon DEF Heeds
  <2> HIDE DEF old
  <2> QED BY <1>4, <2>1
<1>5. ASSUME NEW m \in 1 .. k
      PROVE  \E j \in DOMAIN pe.lines :
               /\ pe.lines[j].index = m /\ pe.lines[j].remote = description[m].streams
               /\ pe.lines[j].type = description[m].type \/ old(m)
  <2>1. CASE m = k
    <3>1. PICK j \in DOMAIN pe.lines :
            /\ pe.lines[j].index = k /\ pe.lines[j].remote = description[k].streams
            /\ pe.lines[j].type = description[k].type \/ \E i \in DOMAIN pd.lines : pd.lines[i].index = k
      BY DEF Takes
    <3>2. (\E i \in DOMAIN pd.lines : pd.lines[i].index = k) => old(k)
      BY <1>3, <1>4
    <3> QED BY <2>1, <3>1, <3>2
  <2>2. CASE m \in 1 .. k - 1 /\ m \notin {NoIndex, k}
    <3>1. PICK j \in DOMAIN pd.lines :
            /\ pd.lines[j].index = m /\ pd.lines[j].remote = description[m].streams
            /\ pd.lines[j].type = description[m].type \/ old(m)
      BY <2>2 DEF Heeds
    <3>2. PICK i \in DOMAIN pe.lines : pe.lines[i] = pd.lines[j]
      BY <2>2, <3>1 DEF Takes
    <3> QED BY <3>1, <3>2
  <2> QED BY <1>1, <2>1, <2>2
<1>6. ASSUME NEW j \in DOMAIN pe.lines, pe.lines[j].index # NoIndex
      PROVE  pe.lines[j].index \in 1 .. k \/ old(pe.lines[j].index)
  <2>1. CASE pe.lines[j].index = k
    BY <1>3, <2>1
  <2>2. CASE pe.lines[j].index # k
    <3>1. PICK i \in DOMAIN pd.lines : pd.lines[i] = pe.lines[j]
      BY <1>6, <2>2 DEF Takes
    <3> QED BY <1>2, <1>4, <1>6, <3>1
  <2> QED BY <2>1, <2>2
<1>7. Hopes(pc, pe) /\ Peopled(pe)
  BY HopesTransitive DEF Heeds, Takes
<1> QED BY <1>5, <1>6, <1>7 DEF Heeds

LEMMA AppliedHeeds ==
  ASSUME NEW p \in Peer, NEW pc, Sound(p, pc), Peopled(pc), NEW description \in Seq(Medium),
         \A k \in DOMAIN description : description[k].streams \subseteq Ssrc[Other(p)]
  PROVE  LET result == ApplyMedia(p, pc, description)
         IN  Peopled(result.pc) /\ (result.ok => Heeds(pc, result.pc, description, Len(description)))
<1> DEFINE n == Len(description)
           f == CHOOSE f : Applying(f, p, pc, description, n)
<1>1. n \in Nat /\ DOMAIN description = 1 .. n
  OBVIOUS
<1>2. \E g : Applying(g, p, pc, description, n)
  BY <1>1, ApplyExists, Zenon
<1>3. Applying(f, p, pc, description, n)
  BY <1>2, Zenon
<1>4. ApplyMedia(p, pc, description) = f[n]
  BY DEF ApplyMedia, Applying, Apply
<1> HIDE DEF f
<1>5. f[0] = [ok |-> TRUE, pc |-> pc] /\ \A k \in 1 .. n : f[k] = Apply(p, f[k - 1], k, description[k])
  <2>1. 0 \in 0 .. n /\ \A k \in 1 .. n : k \in 0 .. n /\ k # 0
    BY <1>1
  <2> QED BY <1>3, <2>1 DEF Applying
<1> HIDE DEF n
<1> DEFINE Upheld(k) == /\ Advance(p, pc, k, f[k]) /\ Peopled(f[k].pc)
                        /\ f[k].ok => Heeds(pc, f[k].pc, description, k)
           T == {k \in Nat : k <= n /\ ~ Upheld(k)}
<1>6. T = {}
  <2> SUFFICES ASSUME T # {} PROVE FALSE
    OBVIOUS
  <2>1. PICK k \in T : \A j \in T : k <= j
    <3>1. T \in SUBSET Nat
      OBVIOUS
    <3> HIDE DEF T
    <3> QED BY <3>1, LeastMember
  <2>2. k # 0
    <3>1. pc \in PeerRecord /\ Stays(pc, pc) /\ Covers(pc, 0)
      BY StaysOn DEF Sound, Covers
    <3>2. Advance(p, pc, 0, [ok |-> TRUE, pc |-> pc])
      BY <3>1 DEF Advance
    <3>3. Hopes(pc, pc)
      BY DEF Hopes
    <3>4. Heeds(pc, pc, description, 0)
      BY <3>3 DEF Heeds
    <3>5. Upheld(0)
      BY <1>5, <3>2, <3>4
    <3> QED BY <3>5
  <2>3. k \in 1 .. n /\ k \in Nat /\ k - 1 \in Nat /\ k - 1 \notin T /\ k - 1 <= n
    BY <1>1, <2>1, <2>2
  <2> DEFINE acc == f[k - 1]
             media == description[k]
  <2>4. /\ acc \in [ok : BOOLEAN, pc : PeerRecord]
        /\ Sound(p, acc.pc) /\ Stays(pc, acc.pc)
        /\ acc.ok => Covers(acc.pc, k - 1) /\ Heeds(pc, acc.pc, description, k - 1)
        /\ Peopled(acc.pc)
    BY <2>3 DEF Advance
  <2>5. media \in Medium /\ media.streams \subseteq Ssrc[Other(p)]
    BY <1>1, <2>3
  <2>6. f[k] = Apply(p, acc, k, media)
    BY <1>5, <2>3
  <2>7. media = description[k]
    OBVIOUS
  <2> HIDE DEF acc, media
  <2>8. CASE ~acc.ok
    <3>1. f[k] = acc
      BY <2>6, <2>8 DEF Apply
    <3>2. Upheld(k)
      BY <2>4, <2>8, <3>1 DEF Advance
    <3> QED BY <2>1, <3>2
  <2>9. CASE acc.ok
    <3>1. Advance(p, acc.pc, k, f[k]) /\ Peopled(f[k].pc) /\ (f[k].ok => Takes(acc.pc, f[k].pc, k, media))
      <4>1. CASE LineFor(acc.pc, k, media) = {}
        <5>1. f[k] = AddLine(p, acc.pc, k, media)
          BY <2>6, <2>9, <4>1 DEF Apply
        <5>2. Advance(p, acc.pc, k, f[k])
          BY <2>2, <2>3, <2>4, <2>5, <2>9, <4>1, <5>1, AddSound
        <5>3. Peopled(f[k].pc) /\ (f[k].ok => Takes(acc.pc, f[k].pc, k, media))
          BY <2>2, <2>3, <2>4, <2>5, <5>1, AddTakes
        <5> QED BY <5>2, <5>3
      <4>2. CASE LineFor(acc.pc, k, media) # {}
        <5>1. f[k] = UpdateLine(acc.pc, Min(LineFor(acc.pc, k, media)), k, media)
          BY <2>6, <2>9, <4>2 DEF Apply
        <5>2. Advance(p, acc.pc, k, f[k])
          BY <2>2, <2>3, <2>4, <2>5, <2>9, <4>2, <5>1, UpdateSound
        <5>3. Peopled(f[k].pc) /\ (f[k].ok => Takes(acc.pc, f[k].pc, k, media))
          BY <2>2, <2>3, <2>4, <2>5, <2>9, <4>2, <5>1, UpdateTakes
        <5> QED BY <5>2, <5>3
      <4> QED BY <4>1, <4>2
    <3>2. f[k].ok => Heeds(pc, f[k].pc, description, k)
      BY <2>2, <2>3, <2>4, <2>7, <2>9, <3>1, HeedsStep
    <3>3. Upheld(k)
      BY <2>4, <3>1, <3>2, StaysTransitive DEF Advance
    <3> QED BY <2>1, <3>3
  <2> QED BY <2>8, <2>9
<1>7. Upheld(n)
  <2>1. n \notin T
    BY <1>6
  <2> QED BY <1>1, <2>1
<1> QED BY <1>4, <1>7 DEF n

-----------------------------------------------------------------------------
(***************************************************************************)
(* The two peers.  An offer that is refused, or fails half way, leaves its *)
(* peer waiting for good.  Unless that happened, whoever rests knows no    *)
(* line the other one does not, and what was described last of a line that *)
(* did not change since is on its way or is what the other one receives.   *)
(***************************************************************************)
Stuck(p) ==
  /\ peer[p].signalling_state = "HaveLocalOffer"
  /\ ~Has(wire[Other(p)], "offer") /\ ~Has(wire[p], "answer")
  /\ peer[Other(p)].signalling_state # "HaveRemoteOffer"
Lost == failed \/ \E p \in Peer : Stuck(p)

Resting(p) == peer[p].signalling_state \in {"None", "Negotiated"} /\ describing[p] = <<>>

\* Who rests, answers or is answered knows no line the other one does not.
Known(p) ==
  \/ Resting(p) \/ Has(wire[p], "answer") \/ peer[p].signalling_state = "HaveRemoteOffer"
    => Within(peer[p], peer[Other(p)])
Joined(p) ==
  peer[p].signalling_state = "HaveRemoteOffer" => Within(peer[Other(p)], peer[p])

\* An answer names lines of the peer it goes to, an offer all lines of its peer.
Expected(p) ==
  \A i \in DOMAIN wire[p] : wire[p][i].mode = "answer" =>
    \A k \in DOMAIN wire[p][i].media : \E j \in DOMAIN peer[p].lines : peer[p].lines[j].index = k
Offered(p) ==
  \A i \in DOMAIN wire[Other(p)] : wire[Other(p)][i].mode = "offer" =>
    \A j \in DOMAIN peer[p].lines : peer[p].lines[j].index # NoIndex =>
      peer[p].lines[j].index \in DOMAIN wire[Other(p)][i].media

\* The description d says what the line sends.
Tells(d, line) == line.index \in DOMAIN d.media /\ d.media[line.index].streams = line.local
Described(p) ==
  \A i \in DOMAIN describing[p] : \A j \in DOMAIN peer[p].lines :
    peer[p].lines[j].index # NoIndex => Tells(describing[p][i], peer[p].lines[j])

\* The last description on w says it, or the peer pd has heard it.
Reaches(w, pd, line) ==
  IF w # <<>> THEN Tells(w[Len(w)], line)
  ELSE \E j \in DOMAIN pd.lines : /\ pd.lines[j].index = line.index
                                  /\ pd.lines[j].remote = line.local
Heard(p) ==
  peer[p].signalling_state \in {"HaveLocalOffer", "Negotiated"} =>
    \A j \in DOMAIN peer[p].lines :
      peer[p].lines[j].index # NoIndex /\ Hopeful(peer[p], peer[p].lines[j]) =>
        Reaches(wire[Other(p)], peer[Other(p)], peer[p].lines[j])

Alive(p) ==
  Known(p) /\ Joined(p) /\ Expected(p) /\ Offered(p) /\ Described(p) /\ Heard(p)

Lives ==
  /\ \A p \in Peer : Peopled(peer[p])
  /\ Lost \/ \A p \in Peer : Alive(p)

LEMMA ReachesSame ==
  ASSUME NEW w, NEW pd, NEW l, NEW m, m.index = l.index, m.local = l.local, Reaches(w, pd, l)
  PROVE  Reaches(w, pd, m)
BY DEF Reaches, Tells

LEMMA ReachesOn ==
  ASSUME NEW w, NEW pd, NEW pe, NEW l, l.index # NoIndex, Retains(pd, pe), Reaches(w, pd, l)
  PROVE  Reaches(w, pe, l)
<1>1. CASE w # <<>>
  BY <1>1 DEF Reaches
<1>2. CASE w = <<>>
  <2>1. PICK j \in DOMAIN pd.lines : pd.lines[j].index = l.index /\ pd.lines[j].remote = l.local
    BY <1>2 DEF Reaches
  <2>2. PICK k \in DOMAIN pe.lines :
          pe.lines[k].index = pd.lines[j].index /\ pe.lines[k].remote = pd.lines[j].remote
    BY <2>1 DEF Retains
  <2> QED BY <1>2, <2>1, <2>2 DEF Reaches
<1> QED BY <1>1, <1>2

LEMMA RetainsWithin == \A pc, pd : Retains(pc, pd) => Within(pc, pd)
BY DEF Retains, Within

\* The index of a media is not NoIndex.
LEMMA MediaIndex ==
  ASSUME NEW d \in Description, NEW k \in DOMAIN d.media
  PROVE  k # NoIndex /\ k \in 1 .. Len(d.media)
<1>1. d.media \in Seq(Medium)
  BY DEF Description, Medium
<1> QED BY <1>1 DEF NoIndex

\* The lines of the other peer stay: what this one knows and sent is still true.
LEMMA OtherAlive ==
  ASSUME Inv, NEW q \in Peer, NEW p, p = Other(q), NEW pd, peer'[p] = pd, peer'[q] = peer[q],
         describing'[q] = describing[q], wire'[p] = wire[p], Retains(peer[p], pd),
         Alive(q)
  PROVE  /\ Offered(q)' /\ Described(q)' /\ Heard(q)'
         /\ Within(peer[q], peer[p]) => Within(peer[q], pd)
<1>1. Offered(q)' /\ Described(q)'
  BY DEF Alive, Offered, Described
<1>2. Heard(q)'
  <2> SUFFICES ASSUME peer[q].signalling_state \in {"HaveLocalOffer", "Negotiated"},
                      NEW j \in DOMAIN peer[q].lines, peer[q].lines[j].index # NoIndex,
                      Hopeful(peer[q], peer[q].lines[j])
               PROVE  Reaches(wire[p], pd, peer[q].lines[j])
    BY DEF Heard
  <2>1. Reaches(wire[p], peer[p], peer[q].lines[j])
    BY DEF Alive, Heard
  <2> QED BY <2>1, ReachesOn
<1>3. Within(peer[q], peer[p]) => Within(peer[q], pd)
  BY RetainsWithin, WithinTransitive
<1> QED BY <1>1, <1>2, <1>3

\* A step that changes neither what is described nor what is on the wire.
LEMMA CalmStep ==
  ASSUME Inv, Lives, NEW p \in Peer, NEW pd, peer' = [peer EXCEPT ![p] = pd],
         UNCHANGED <<describing, wire>>, failed => failed', Calm(peer[p], pd), Peopled(pd),
         describing[p] = <<>> \/ pd.lines = peer[p].lines,
         \/ pd.signalling_state = peer[p].signalling_state
         \/ /\ peer[p].signalling_state = "Negotiated"
            /\ pd.signalling_state = "NegotiationRequired"
  PROVE  Lives'
<1> DEFINE q == Other(p)
<1>1. /\ q \in Peer /\ q # p /\ Other(q) = p /\ \A r \in Peer : r = p \/ r = q
      /\ peer'[p] = pd /\ peer'[q] = peer[q]
      /\ describing' = describing /\ wire' = wire
      /\ wire[p] \in Seq(Description) /\ wire[q] \in Seq(Description)
  BY InvParts, TwoPeers DEF Inv, Typed
<1>2. p = Other(q)
  BY <1>1
<1> HIDE DEF q
<1>3. \A r \in Peer : Peopled(peer'[r])
  BY <1>1 DEF Lives
<1>4. \A r \in Peer : Stuck(r) => Stuck(r)'
  BY <1>1 DEF Stuck, q
<1>5. CASE Lost
  BY <1>3, <1>4, <1>5 DEF Lost, Lives
<1>6. CASE \A r \in Peer : Alive(r)
  <2>1. Alive(p) /\ Alive(q)
    BY <1>1, <1>6
  <2>2. Retains(peer[p], pd) /\ Restrains(peer[p], pd) /\ Within(peer[p], pd) /\ Within(pd, peer[p])
    BY CalmWithin DEF Calm
  <2>3. /\ Offered(q)' /\ Described(q)' /\ Heard(q)'
        /\ Within(peer[q], peer[p]) => Within(peer[q], pd)
    BY <1>1, <1>2, <2>1, <2>2, OtherAlive
  <2>4. Known(q)' /\ Joined(q)' /\ Expected(q)'
    <3>1. Known(q)'
      BY <1>1, <2>1, <2>3 DEF Alive, Known, Resting
    <3>2. Joined(q)'
      BY <1>1, <2>1, <2>2, WithinTransitive DEF Alive, Joined
    <3>3. Expected(q)'
      BY <1>1, <2>1 DEF Alive, Expected
    <3> QED BY <3>1, <3>2, <3>3
  <2>5. Known(p)'
    <3>1. Within(peer[p], peer[q]) => Within(pd, peer[q])
      BY <2>2, WithinTransitive
    <3> QED BY <1>1, <2>1, <3>1 DEF Alive, Known, Resting, q
  <2>6. Joined(p)'
    <3>1. Within(peer[q], peer[p]) => Within(peer[q], pd)
      BY <2>3
    <3> QED BY <1>1, <2>1, <3>1 DEF Alive, Joined, q
  <2>7. Expected(p)'
    <3> SUFFICES ASSUME NEW i \in DOMAIN wire[p], wire[p][i].mode = "answer",
                        NEW k \in DOMAIN wire[p][i].media
                 PROVE  \E j \in DOMAIN pd.lines : pd.lines[j].index = k
      BY <1>1 DEF Expected
    <3>1. PICK j \in DOMAIN peer[p].lines : peer[p].lines[j].index = k
      BY <2>1 DEF Alive, Expected
    <3>2. wire[p][i] \in Description
      BY <1>1
    <3>3. k # NoIndex
      BY <3>2, MediaIndex
    <3> QED BY <2>2, <3>1, <3>3 DEF Within
  <2>8. Offered(p)'
    <3> SUFFICES ASSUME NEW i \in DOMAIN wire[q], wire[q][i].mode = "offer",
                        NEW j \in DOMAIN pd.lines, pd.lines[j].index # NoIndex
                 PROVE  pd.lines[j].index \in DOMAIN wire[q][i].media
      BY <1>1 DEF Offered, q
    <3>1. PICK m \in DOMAIN peer[p].lines : peer[p].lines[m].index = pd.lines[j].index
      BY <2>2 DEF Within
    <3> QED BY <2>1, <3>1 DEF Alive, Offered, q
  <2>9. Described(p)'
    BY <1>1, <2>1 DEF Alive, Described
  <2>10. Heard(p)'
    <3> SUFFICES ASSUME pd.signalling_state \in {"HaveLocalOffer", "Negotiated"},
                        NEW j \in DOMAIN pd.lines, pd.lines[j].index # NoIndex,
                        Hopeful(pd, pd.lines[j])
                 PROVE  Reaches(wire[q], peer[q], pd.lines[j])
      BY <1>1 DEF Heard, q
    <3>1. PICK m \in DOMAIN peer[p].lines :
            /\ peer[p].lines[m].index = pd.lines[j].index
            /\ Hopeful(peer[p], peer[p].lines[m]) /\ peer[p].lines[m].local = pd.lines[j].local
      BY <2>2 DEF Restrains, Restrained
    <3>2. peer[p].signalling_state \in {"HaveLocalOffer", "Negotiated"}
      OBVIOUS
    <3>3. Reaches(wire[q], peer[q], peer[p].lines[m])
      BY <2>1, <3>1, <3>2 DEF Alive, Heard, q
    <3> QED BY <3>1, <3>3, ReachesSame
  <2>11. Alive(p)' /\ Alive(q)'
    BY <2>3, <2>4, <2>5, <2>6, <2>7, <2>8, <2>9, <2>10 DEF Alive
  <2> QED BY <1>1, <1>3, <2>11 DEF Lives
<1> QED BY <1>5, <1>6 DEF Lives

-----------------------------------------------------------------------------
(* The steps of Next: those that write nothing first.                      *)

\* A step that creates a sender keeps the signalling state.
LEMMA CreatedState ==
  ASSUME NEW p \in Peer, NEW pc, Sound(p, pc), NEW type \in Media, NEW s
  PROVE  Created(pc, s, type).signalling_state = pc.signalling_state
<1> DEFINE pb == Allocate(pc, type)
<1>1. pb \in PeerRecord /\ pb.signalling_state = pc.signalling_state
  BY AllocatedSound DEF Stays
<1> HIDE DEF pb
<1> QED BY <1>1 DEF Created, PeerRecord, pb

LEMMA CreateMediaSenderLives ==
  ASSUME Inv, Tracked, Lives, NEW p \in Peer, NEW s, NEW type \in Media,
         CreateMediaSender(p, s, type)
  PROVE  Lives'
<1>1. Sound(p, peer[p]) /\ Peopled(peer[p]) /\ s \notin DOMAIN peer[p].senders
  BY InvParts DEF Lives, Tracked, Tracking, CreateMediaSender
<1>2. Calm(peer[p], Created(peer[p], s, type)) /\ Peopled(Created(peer[p], s, type))
  BY <1>1, CreatedCalm
<1>3. Created(peer[p], s, type).signalling_state = peer[p].signalling_state
  BY <1>1, CreatedState
<1>4. /\ peer' = [peer EXCEPT ![p] = Created(peer[p], s, type)]
      /\ describing[p] = <<>> /\ UNCHANGED <<describing, wire, failed>>
  BY Zenon DEF CreateMediaSender, Created
<1> QED BY <1>2, <1>3, <1>4, CalmStep

LEMMA CreateDataChannelLives ==
  ASSUME Inv, Lives, NEW p \in Peer, CreateDataChannel(p)
  PROVE  Lives'
<1> DEFINE pd == [Allocate(peer[p], Application) EXCEPT !.channel = TRUE]
<1>1. peer[p] \in PeerRecord /\ Sound(p, peer[p]) /\ Peopled(peer[p])
  BY InvParts DEF Lives
<1>2. Calm(peer[p], pd) /\ Peopled(pd)
  BY <1>1, ChannelCalm
<1>3. pd.signalling_state = peer[p].signalling_state
  BY <1>1, ChannelSound DEF Stays
<1>4. peer' = [peer EXCEPT ![p] = pd] /\ describing[p] = <<>> /\ UNCHANGED <<describing, wire, failed>>
  BY DEF CreateDataChannel, Inv, Typed
<1> HIDE DEF pd
<1> QED BY <1>2, <1>3, <1>4, CalmStep

LEMMA RegisterLocalCodecLives ==
  ASSUME Inv, Lives, NEW p \in Peer, NEW i, RegisterLocalCodec(p, i)
  PROVE  Lives'
<1> DEFINE pd == [peer[p] EXCEPT !.lines[i].codecs = TRUE, !.lines[i].state = Touched(@)]
<1>1. /\ peer[p] \in PeerRecord /\ Peopled(peer[p]) /\ i \in DOMAIN peer[p].lines
      /\ describing[p] = <<>> /\ UNCHANGED <<describing, wire, failed>>
  BY InvParts DEF Lives, RegisterLocalCodec
<1>2. Calm(peer[p], pd) /\ Peopled(pd)
  BY <1>1, CodecCalm
<1>3. pd.signalling_state = peer[p].signalling_state
  BY <1>1 DEF PeerRecord
<1>4. peer' = [peer EXCEPT ![p] = pd]
  BY RegisterLocalCodecIs DEF Inv, Typed
<1> HIDE DEF pd
<1> QED BY <1>1, <1>2, <1>3, <1>4, CalmStep

LEMMA ChangePropertyLives ==
  ASSUME Inv, Lives, NEW p \in Peer, NEW s, ChangeProperty(p, s)
  PROVE  Lives'
<1> DEFINE quiet == describing[p] = <<>>
           pd == [peer[p] EXCEPT !.senders[s].state = Touched(@), !.senders[s].stale = @ \/ quiet]
<1>1. /\ peer[p] \in PeerRecord /\ Peopled(peer[p]) /\ s \in DOMAIN peer[p].senders
      /\ UNCHANGED <<describing, wire, failed>>
  BY InvParts DEF Lives, ChangeProperty
<1>2. /\ pd.lines = peer[p].lines /\ DOMAIN pd.senders = DOMAIN peer[p].senders
      /\ pd.signalling_state = peer[p].signalling_state
      /\ \A r \in DOMAIN peer[p].senders :
           /\ pd.senders[r].line = peer[p].senders[r].line
           /\ pd.senders[r].state \in {peer[p].senders[r].state, Touched(peer[p].senders[r].state)}
  <2>1. \A r \in DOMAIN peer[p].senders : peer[p].senders[r] \in Sender
    BY <1>1, RecordTypes
  <2> QED BY <1>1, <2>1 DEF PeerRecord, Sender
<1>3. peer' = [peer EXCEPT ![p] = pd]
  BY DEF ChangeProperty, Inv, Typed
<1> HIDE DEF pd
<1>4. Calm(peer[p], pd) /\ Peopled(pd)
  BY <1>1, <1>2, TouchedCalm
<1> QED BY <1>1, <1>2, <1>3, <1>4, CalmStep

LEMMA DropSenderLives ==
  ASSUME Inv, Lives, NEW p \in Peer, NEW s, DropSender(p, s)
  PROVE  Lives'
<1> DEFINE pd == [peer[p] EXCEPT !.senders[s].open = FALSE]
<1>1. /\ peer[p] \in PeerRecord /\ Peopled(peer[p]) /\ s \in DOMAIN peer[p].senders
      /\ UNCHANGED <<describing, wire, failed>>
  BY InvParts DEF Lives, DropSender
<1>2. Calm(peer[p], pd) /\ Peopled(pd) /\ pd.lines = peer[p].lines
  BY <1>1, DroppedCalm
<1>3. pd.signalling_state = peer[p].signalling_state
  BY <1>1 DEF PeerRecord
<1>4. peer' = [peer EXCEPT ![p] = pd]
  BY DEF DropSender, Inv, Typed
<1> HIDE DEF pd
<1> QED BY <1>1, <1>2, <1>3, <1>4, CalmStep

LEMMA PollLives ==
  ASSUME Inv, Lives, NEW p \in Peer, Poll(p)
  PROVE  Lives'
<1> DEFINE pc == RemoveClosed(peer[p])
           pd == [pc EXCEPT !.signalling_state = "NegotiationRequired"]
<1>1. Sound(p, peer[p]) /\ Peopled(peer[p])
  BY InvParts DEF Lives
<1>2. Calm(peer[p], pc) /\ Peopled(pc)
  BY <1>1, ClosedCalm
<1>3. pc \in PeerRecord /\ pc.signalling_state = peer[p].signalling_state
  BY <1>1, ClosedSound DEF Sound, Stays
<1>4. describing[p] = <<>> /\ UNCHANGED <<describing, wire, failed>>
  BY DEF Poll
<1>5. \/ peer' = [peer EXCEPT ![p] = pc]
      \/ pc.signalling_state = "Negotiated" /\ peer' = [peer EXCEPT ![p] = pd]
  BY DEF Poll
<1> HIDE DEF pc
<1>6. Calm(peer[p], pd) /\ Peopled(pd)
  BY <1>2, <1>3, StateUnmoved, CalmTransitive
<1>7. pd.signalling_state = "NegotiationRequired"
  BY <1>3 DEF PeerRecord
<1> HIDE DEF pd
<1>8. CASE peer' = [peer EXCEPT ![p] = pc]
  BY <1>2, <1>3, <1>4, <1>8, CalmStep
<1>9. CASE pc.signalling_state = "Negotiated" /\ peer' = [peer EXCEPT ![p] = pd]
  BY <1>3, <1>4, <1>6, <1>7, <1>9, CalmStep
<1> QED BY <1>5, <1>8, <1>9

\* A description says what every registered line sends.
LEMMA MediaTells ==
  ASSUME NEW p \in Peer, NEW pc, Sound(p, pc), Peopled(pc), NEW d, d.media = MediaOf(pc),
         NEW i \in DOMAIN pc.lines, pc.lines[i].index # NoIndex
  PROVE  Tells(d, pc.lines[i])
<1> DEFINE at(k) == CHOOSE l \in Registered(pc) : l.index = k
           streams(l) == {s \in DOMAIN pc.senders : pc.senders[s].line = l.id}
           k == pc.lines[i].index
<1>1. pc.lines[i] \in Registered(pc) /\ k \in Indexes(pc)
  BY DEF Registered, Range, Indexes
<1>2. k \in DOMAIN d.media /\ d.media[k].streams = streams(at(k))
  <2>1. MediaOf(pc) = [m \in Indexes(pc) |-> [type |-> at(m).type, streams |-> streams(at(m))]]
    BY DEF MediaOf
  <2> HIDE DEF at, streams
  <2>2. d.media[k] = [type |-> at(k).type, streams |-> streams(at(k))]
    BY <1>1, <2>1
  <2> QED BY <1>1, <2>1, <2>2
<1>3. at(k) \in Registered(pc) /\ at(k).index = k
  BY <1>1
<1>4. at(k) = pc.lines[i]
  <2>1. PICK j \in DOMAIN pc.lines : at(k) = pc.lines[j]
    BY <1>3 DEF Registered, Range
  <2> HIDE DEF at
  <2>2. j = i
    BY <1>3, <2>1 DEF Sound, InPlace, Places
  <2> QED BY <2>1, <2>2
<1> HIDE DEF at
<1>5. streams(pc.lines[i]) = pc.lines[i].local
  <2>1. ASSUME NEW s \in DOMAIN pc.senders, pc.senders[s].line = pc.lines[i].id
        PROVE  s \in pc.lines[i].local
    <3>1. PICK j \in DOMAIN pc.lines : pc.lines[j].id = pc.senders[s].line /\ s \in pc.lines[j].local
      BY DEF Sound, OnLine
    <3>2. j = i
      BY <2>1, <3>1 DEF Sound, Distinct
    <3> QED BY <3>1, <3>2
  <2>2. \A s \in pc.lines[i].local : s \in DOMAIN pc.senders /\ pc.senders[s].line = pc.lines[i].id
    BY DEF Peopled
  <2> QED BY <2>1, <2>2
<1> QED BY <1>2, <1>4, <1>5 DEF Tells

LEMMA CreateLocalDescriptionLives ==
  ASSUME Inv, Lives, NEW p \in Peer, CreateLocalDescription(p)
  PROVE  Lives'
<1> DEFINE q == Other(p)
           state == peer[p].signalling_state
           offer == state # "HaveRemoteOffer"
           pb == IF offer THEN AssignIndexes(peer[p]) ELSE peer[p]
           pc == RemoveClosed(pb)
           d == [mode |-> IF offer THEN "offer" ELSE "answer", media |-> MediaOf(pc)]
           pd == Written(pc)
<1>1. /\ Sound(p, peer[p]) /\ Peopled(peer[p]) /\ Turn(p)
      /\ q \in Peer /\ q # p /\ Other(q) = p /\ p = Other(q) /\ \A r \in Peer : r = p \/ r = q
      /\ state \in {"None", "NegotiationRequired", "HaveRemoteOffer"}
  <2>1. state \in SignallingState
    BY InvParts, RecordTypes
  <2> QED BY <2>1, InvParts, TwoPeers DEF Lives, CreateLocalDescription, MayDescribe, SignallingState
<1>2. /\ describing[p] = <<>> /\ wire' = wire
      /\ \/ /\ describing' = [describing EXCEPT ![p] = <<d>>]
            /\ peer' = [peer EXCEPT ![p] = pd] /\ failed' = failed
         \/ /\ peer' = [peer EXCEPT ![p] = pc] /\ describing' = describing
            /\ failed' = (failed \/ state = "None")
  BY DEF CreateLocalDescription
<1>3. /\ Sound(p, pb) /\ Retains(peer[p], pb) /\ Peopled(pb) /\ Stays(peer[p], pb)
      /\ state = "HaveRemoteOffer" => Within(pb, peer[p])
  BY <1>1, AssignedSound, AssignedRetains, StaysOn, WithinOn DEF Retains
<1> HIDE DEF pb
<1>4. /\ Sound(p, pc) /\ Retains(peer[p], pc) /\ Peopled(pc) /\ pc.signalling_state = state
      /\ state = "HaveRemoteOffer" => Within(pc, peer[p])
  <2>1. /\ Sound(p, pc) /\ Calm(pb, pc) /\ Peopled(pc) /\ Stays(pb, pc)
    BY <1>3, ClosedSound, ClosedCalm
  <2>2. Retains(peer[p], pc)
    BY <1>3, <2>1, RetainsTransitive DEF Calm
  <2>3. state = "HaveRemoteOffer" => Within(pc, peer[p])
    BY <1>3, <2>1, CalmWithin, WithinTransitive
  <2> QED BY <1>3, <2>1, <2>2, <2>3 DEF Stays
<1> HIDE DEF pc
<1>5. Peopled(pd) /\ pd.lines = pc.lines /\ pd.signalling_state = state
  <2>1. pc \in PeerRecord
    BY <1>4 DEF Sound
  <2> QED BY <1>4, <2>1, WrittenUnmoved DEF Written, PeerRecord
<1>6. /\ Retains(peer[p], pd)
      /\ state = "HaveRemoteOffer" => Within(pd, peer[p])
  BY <1>4, <1>5 DEF Retains, Within
<1>7. d.media = MediaOf(pc)
  OBVIOUS
<1> HIDE DEF d, pd, q
<1> DEFINE pe == peer'[p]
<1>8. /\ Retains(peer[p], pe) /\ Peopled(pe) /\ pe.signalling_state = state
      /\ state = "HaveRemoteOffer" => Within(pe, peer[p])
      /\ peer'[q] = peer[q] /\ describing'[q] = describing[q] /\ wire' = wire
      /\ failed => failed'
      /\ \/ describing'[p] = <<d>> /\ pe.lines = pc.lines
         \/ describing'[p] = <<>> /\ (state = "None" => failed')
  <2>1. /\ peer'[q] = peer[q] /\ describing'[q] = describing[q] /\ wire' = wire
        /\ failed => failed'
        /\ \/ describing'[p] = <<d>> /\ pe = pd
           \/ pe = pc /\ describing'[p] = <<>> /\ (state = "None" => failed')
    <3>1. DOMAIN peer = Peer /\ DOMAIN describing = Peer
      BY DEF Inv, Typed
    <3>2. (failed' = (failed \/ state = "None")) => (failed => failed') /\ (state = "None" => failed')
      OBVIOUS
    <3> HIDE DEF state
    <3>3. peer'[q] = peer[q] /\ describing'[q] = describing[q] /\ wire' = wire
      BY <1>1, <1>2, <3>1
    <3>4. CASE describing' = [describing EXCEPT ![p] = <<d>>] /\ peer' = [peer EXCEPT ![p] = pd] /\ failed' = failed
      BY <1>1, <3>1, <3>3, <3>4
    <3>5. CASE /\ peer' = [peer EXCEPT ![p] = pc] /\ describing' = describing
               /\ failed' = (failed \/ state = "None")
      <4>1. pe = pc /\ describing'[p] = <<>>
        BY <1>1, <1>2, <3>1, <3>5
      <4>2. (failed => failed') /\ (state = "None" => failed')
        BY <3>2, <3>5, Zenon
      <4> QED BY <3>3, <4>1, <4>2
    <3> QED BY <1>2, <3>4, <3>5
  <2> HIDE DEF pe, state
  <2> QED BY <1>4, <1>5, <1>6, <2>1
<1> HIDE DEF pe
<1>9. \A r \in Peer : Peopled(peer'[r])
  BY <1>1, <1>8 DEF Lives, pe
<1>10. \A r \in Peer : Stuck(r) => Stuck(r)'
  BY <1>1, <1>8 DEF Stuck, pe, q
<1>11. CASE Lost \/ failed'
  BY <1>8, <1>9, <1>10, <1>11 DEF Lost, Lives
<1>12. CASE (\A r \in Peer : Alive(r)) /\ ~failed'
  <2>1. Alive(p) /\ Alive(q)
    BY <1>1, <1>12
  <2>2. ~Has(wire[p], "answer") /\ ~Has(wire[q], "offer") /\ peer[q].signalling_state # "HaveRemoteOffer"
    BY <1>1 DEF Turn, q
  <2>3. Alive(q)'
    <3>1. /\ Offered(q)' /\ Described(q)' /\ Heard(q)'
          /\ Within(peer[q], peer[p]) => Within(peer[q], pe)
      BY <1>1, <1>8, <2>1, OtherAlive DEF pe
    <3>2. Known(q)'
      BY <1>1, <1>8, <2>1, <3>1 DEF Alive, Known, Resting, pe
    <3>3. Joined(q)' /\ Expected(q)'
      BY <1>1, <1>8, <2>1, <2>2 DEF Alive, Joined, Expected
    <3> QED BY <3>1, <3>2, <3>3 DEF Alive
  <2>4. Known(p)'
    <3>1. ~Resting(p)'
      <4>1. <<d>> # <<>>
        OBVIOUS
      <4> QED BY <1>1, <1>8, <1>12, <4>1 DEF Resting, pe
    <3>2. state = "HaveRemoteOffer" => Within(pe, peer[q])
      BY <1>8, <2>1, WithinTransitive DEF Alive, Known, q
    <3> QED BY <1>1, <1>8, <2>2, <3>1, <3>2 DEF Known, pe, q
  <2>5. Joined(p)'
    <3>1. state = "HaveRemoteOffer" => Within(peer[q], peer[p])
      BY <2>1 DEF Alive, Joined, q
    <3>2. Within(peer[p], pe)
      BY <1>8, RetainsWithin
    <3> QED BY <1>8, <3>1, <3>2, WithinTransitive DEF Joined, pe, q
  <2>6. Expected(p)' /\ Offered(p)'
    BY <1>8, <2>2 DEF Expected, Offered, Has, q
  <2>7. Described(p)'
    <3>1. CASE describing'[p] = <<>>
      BY <3>1 DEF Described
    <3>2. CASE describing'[p] = <<d>> /\ pe.lines = pc.lines
      <4> SUFFICES ASSUME NEW j \in DOMAIN pc.lines, pc.lines[j].index # NoIndex
                   PROVE  Tells(d, pc.lines[j])
        BY <3>2 DEF Described, pe
      <4> QED BY <1>4, <1>7, MediaTells
    <3> QED BY <1>8, <3>1, <3>2
  <2>8. Heard(p)'
    BY <1>1, <1>8 DEF Heard, pe
  <2>9. Alive(p)'
    BY <2>4, <2>5, <2>6, <2>7, <2>8 DEF Alive
  <2> QED BY <1>1, <1>9, <2>3, <2>9 DEF Lives
<1> QED BY <1>11, <1>12 DEF Lives

LEMMA AppendLast ==
  ASSUME NEW w \in Seq(Description), NEW d \in Description
  PROVE  LET v == Append(w, d)
         IN  /\ v # <<>> /\ v[Len(v)] = d
             /\ \A i \in DOMAIN v : (i \in DOMAIN w /\ v[i] = w[i]) \/ v[i] = d
<1> DEFINE v == Append(w, d)
           n == Len(w)
<1>1. /\ n \in Nat /\ DOMAIN w = 1 .. n /\ Len(v) = n + 1 /\ DOMAIN v = 1 .. n + 1
      /\ v[n + 1] = d /\ \A i \in 1 .. n : v[i] = w[i]
  OBVIOUS
<1> HIDE DEF v, n
<1>2. \A i \in 1 .. n + 1 : i \in 1 .. n \/ i = n + 1
  BY <1>1
<1>3. \A i \in DOMAIN v : (i \in DOMAIN w /\ v[i] = w[i]) \/ v[i] = d
  BY <1>1, <1>2
<1>4. v # <<>>
  BY <1>1
<1> QED BY <1>1, <1>3, <1>4 DEF v

\* A line of one that is Unmoved says the same.
LEMMA UnmovedTells ==
  ASSUME NEW pc, NEW pd, Unmoved(pc, pd), NEW d,
         \A j \in DOMAIN pc.lines : pc.lines[j].index # NoIndex => Tells(d, pc.lines[j])
  PROVE  \A j \in DOMAIN pd.lines : pd.lines[j].index # NoIndex => Tells(d, pd.lines[j])
BY DEF Unmoved, Tells

LEMMA PromoteNegotiationLives ==
  ASSUME Inv, Tracked, Lives, NEW p \in Peer, PromoteNegotiation(p)
  PROVE  Lives'
<1> DEFINE q == Other(p)
           d == Head(describing[p])
           state == peer[p].signalling_state
           ids == LineIds(Registered(peer[p]))
           offered == Promoted(peer[p], ids, {"None", "Changed"}, "Propagated")
           answered == Promoted(peer[p], ids, NegotiationState, "Negotiated")
           pd == IF d.mode = "offer" THEN [offered EXCEPT !.signalling_state = "HaveLocalOffer"]
                                     ELSE [answered EXCEPT !.signalling_state = "Negotiated"]
           w == Append(wire[q], d)
<1>1. /\ peer[p] \in PeerRecord /\ Peopled(peer[p]) /\ Turn(p) /\ Turn(q) /\ Writing(p)
      /\ q \in Peer /\ q # p /\ Other(q) = p /\ p = Other(q) /\ \A r \in Peer : r = p \/ r = q
      /\ describing[p] \in Seq(Description) /\ wire[q] \in Seq(Description)
      /\ DOMAIN peer = Peer /\ DOMAIN describing = Peer /\ DOMAIN wire = Peer
  BY InvParts, TwoPeers DEF Lives, Inv, Typed
<1>2. /\ describing[p] # <<>> /\ peer' = [peer EXCEPT ![p] = pd]
      /\ describing' = [describing EXCEPT ![p] = <<>>] /\ wire' = [wire EXCEPT ![q] = w]
      /\ failed' = failed
  BY <1>1 DEF PromoteNegotiation
<1>3. /\ describing[p] = <<d>> /\ d \in Description
      /\ \/ d.mode = "offer" /\ state \in {"None", "NegotiationRequired"}
         \/ d.mode = "answer" /\ state = "HaveRemoteOffer"
  <2>1. d \in Description
    BY <1>1, <1>2
  <2>2. d.mode \in {"offer", "answer"}
    BY <2>1 DEF Description
  <2>3. /\ describing[p] = <<d>>
        /\ state \in IF d.mode = "offer" THEN {"None", "NegotiationRequired"} ELSE {"HaveRemoteOffer"}
    BY <1>1, <1>2 DEF Writing
  <2> HIDE DEF d, state
  <2> QED BY <2>1, <2>2, <2>3
<1>4. /\ Unmoved(peer[p], pd)
      /\ pd.signalling_state = IF d.mode = "offer" THEN "HaveLocalOffer" ELSE "Negotiated"
  <2>1. "Propagated" \in NegotiationState /\ "Negotiated" \in NegotiationState
    BY DEF NegotiationState
  <2>2. /\ Unmoved(peer[p], offered) /\ Unmoved(peer[p], answered)
        /\ offered \in PeerRecord /\ answered \in PeerRecord
    BY <1>1, <2>1, PromotedIs, PromotedUnmoved
  <2> HIDE DEF offered, answered
  <2>3. \/ pd.lines = offered.lines /\ pd.senders = offered.senders
        \/ pd.lines = answered.lines /\ pd.senders = answered.senders
    BY <2>2 DEF PeerRecord
  <2>4. pd.signalling_state = IF d.mode = "offer" THEN "HaveLocalOffer" ELSE "Negotiated"
    BY <2>2 DEF PeerRecord
  <2> HIDE DEF pd
  <2> QED BY <2>2, <2>3, <2>4 DEF Unmoved
<1> HIDE DEF pd
<1>5. /\ Retains(peer[p], pd) /\ Within(peer[p], pd) /\ Within(pd, peer[p]) /\ Peopled(pd)
  BY <1>1, <1>4, UnmovedKeeps, RetainsWithin
<1>6. /\ w # <<>> /\ w[Len(w)] = d
      /\ \A i \in DOMAIN w : (i \in DOMAIN wire[q] /\ w[i] = wire[q][i]) \/ w[i] = d
      /\ \A mode : Has(w, mode) <=> Has(wire[q], mode) \/ d.mode = mode
  BY <1>1, <1>3, AppendLast, AppendOnce
<1> HIDE DEF q, w
<1>7. /\ peer'[p] = pd /\ peer'[q] = peer[q]
      /\ describing'[p] = <<>> /\ describing'[q] = describing[q]
      /\ wire'[p] = wire[p] /\ wire'[q] = w
  BY <1>1, <1>2
<1> HIDE DEF d
<1>8. \A r \in Peer : Peopled(peer'[r])
  BY <1>1, <1>5, <1>7 DEF Lives
<1>9. \A r \in Peer : Stuck(r) => Stuck(r)'
  <2>1. ~Stuck(p)
    BY <1>3 DEF Stuck
  <2>2. Stuck(q) => Stuck(q)'
    BY <1>1, <1>3, <1>4, <1>6, <1>7 DEF Stuck
  <2> QED BY <1>1, <2>1, <2>2
<1>10. CASE Lost
  BY <1>2, <1>8, <1>9, <1>10 DEF Lost, Lives
<1>11. CASE \A r \in Peer : Alive(r)
  <2>1. Alive(p) /\ Alive(q)
    BY <1>1, <1>11
  <2>2. ~Has(wire[p], "answer") /\ ~Has(wire[q], "offer") /\ peer[q].signalling_state # "HaveRemoteOffer"
    BY <1>1, <1>3 DEF Turn, q
  <2>3. \A j \in DOMAIN pd.lines : pd.lines[j].index # NoIndex => Tells(d, pd.lines[j])
    <3>1. 1 \in DOMAIN describing[p] /\ describing[p][1] = d
      BY <1>3
    <3>2. \A j \in DOMAIN peer[p].lines : peer[p].lines[j].index # NoIndex => Tells(d, peer[p].lines[j])
      BY <2>1, <3>1 DEF Alive, Described
    <3> QED BY <1>4, <3>2, UnmovedTells
  <2>4. /\ Offered(q)' /\ Described(q)' /\ Heard(q)'
        /\ Within(peer[q], peer[p]) => Within(peer[q], pd)
    BY <1>1, <1>5, <1>7, <2>1, OtherAlive
  <2>5. Known(q)'
    <3>1. state = "HaveRemoteOffer" => Within(peer[q], peer[p])
      BY <2>1 DEF Alive, Joined, q
    <3>2. Has(w, "answer") => Has(wire[q], "answer") \/ state = "HaveRemoteOffer"
      BY <1>3, <1>6
    <3> QED BY <1>1, <1>7, <2>1, <2>4, <3>1, <3>2 DEF Alive, Known, Resting
  <2>6. Joined(q)'
    BY <1>7, <2>2 DEF Joined
  <2>7. Expected(q)'
    <3> SUFFICES ASSUME NEW i \in DOMAIN w, w[i].mode = "answer", NEW k \in DOMAIN w[i].media
                 PROVE  \E j \in DOMAIN peer[q].lines : peer[q].lines[j].index = k
      BY <1>7 DEF Expected
    <3>1. CASE i \in DOMAIN wire[q] /\ w[i] = wire[q][i]
      BY <2>1, <3>1 DEF Alive, Expected
    <3>2. CASE w[i] = d
      <4>1. state = "HaveRemoteOffer"
        BY <1>3, <3>2
      <4>2. k # NoIndex
        BY <1>3, <3>2, MediaIndex
      <4>3. PICK place : Tracking(place)
        BY DEF Tracked
      <4>4. Told(place, peer[p], d)
        <5>1. 1 \in DOMAIN describing[p] /\ describing[p][1] = d
          BY <1>3
        <5> QED BY <4>3, <5>1 DEF Tracking
      <4>5. PICK j \in DOMAIN peer[p].lines : peer[p].lines[j].index = k
        BY <3>2, <4>4 DEF Told
      <4>6. Within(peer[p], peer[q])
        BY <2>1, <4>1 DEF Alive, Known, q
      <4> QED BY <4>2, <4>5, <4>6 DEF Within
    <3> QED BY <1>6, <3>1, <3>2
  <2>8. Known(p)'
    <3>1. CASE d.mode = "offer"
      BY <1>4, <1>7, <2>2, <3>1 DEF Known, Resting
    <3>2. CASE state = "HaveRemoteOffer"
      <4>1. Within(peer[p], peer[q])
        BY <2>1, <3>2 DEF Alive, Known, q
      <4>2. Within(pd, peer[q])
        BY <1>5, <4>1, WithinTransitive
      <4> QED BY <1>7, <4>2 DEF Known, q
    <3> QED BY <1>3, <3>1, <3>2
  <2>9. Joined(p)' /\ Described(p)'
    BY <1>3, <1>4, <1>7 DEF Joined, Described
  <2>10. Expected(p)'
    BY <1>7, <2>2 DEF Expected, Has
  <2>11. Offered(p)'
    <3> SUFFICES ASSUME NEW i \in DOMAIN w, w[i].mode = "offer",
                        NEW j \in DOMAIN pd.lines, pd.lines[j].index # NoIndex
                 PROVE  pd.lines[j].index \in DOMAIN w[i].media
      BY <1>7 DEF Offered, q
    <3>1. w[i] = d
      BY <1>6, <2>2 DEF Has
    <3> QED BY <2>3, <3>1 DEF Tells
  <2>12. Heard(p)'
    <3> SUFFICES ASSUME NEW j \in DOMAIN pd.lines, pd.lines[j].index # NoIndex
                 PROVE  Reaches(w, peer[q], pd.lines[j])
      BY <1>7 DEF Heard, q
    <3> QED BY <1>6, <2>3 DEF Reaches
  <2>13. Alive(p)' /\ Alive(q)'
    BY <2>4, <2>5, <2>6, <2>7, <2>8, <2>9, <2>10, <2>11, <2>12 DEF Alive
  <2> QED BY <1>1, <1>8, <2>13 DEF Lives
<1> QED BY <1>10, <1>11 DEF Lives

LEMMA LastTail ==
  ASSUME NEW w \in Seq(Description), w # <<>>
  PROVE  /\ Tail(w) # <<>> => Tail(w)[Len(Tail(w))] = w[Len(w)]
         /\ Tail(w) = <<>> => w[Len(w)] = Head(w)
         /\ \A i \in DOMAIN Tail(w) : i + 1 \in DOMAIN w /\ Tail(w)[i] = w[i + 1]
<1> DEFINE v == Tail(w)
           n == Len(w)
<1>1. /\ n \in Nat /\ n # 0 /\ DOMAIN w = 1 .. n /\ Head(w) = w[1]
      /\ v \in Seq(Description) /\ Len(v) = n - 1 /\ DOMAIN v = 1 .. n - 1
      /\ \A i \in 1 .. n - 1 : v[i] = w[i + 1]
  OBVIOUS
<1> HIDE DEF v, n
<1>2. v = <<>> <=> n = 1
  BY <1>1
<1>3. v # <<>> => v[Len(v)] = w[n]
  <2> SUFFICES ASSUME v # <<>> PROVE v[Len(v)] = w[n]
    OBVIOUS
  <2>1. n - 1 \in 1 .. n - 1 /\ (n - 1) + 1 = n
    BY <1>1, <1>2
  <2> QED BY <1>1, <2>1
<1>4. \A i \in 1 .. n - 1 : i + 1 \in 1 .. n
  BY <1>1
<1> QED BY <1>1, <1>2, <1>3, <1>4 DEF v, n

\* What was on the wire is on the rest of it, or was just heard.
LEMMA TailReaches ==
  ASSUME NEW w \in Seq(Description), w # <<>>, NEW pc, NEW pd, NEW l, Reaches(w, pc, l),
         NEW d, d = Head(w), d \in Description, Heeds(pc, pd, d.media, Len(d.media))
  PROVE  Reaches(Tail(w), pd, l)
<1>1. Tells(w[Len(w)], l)
  BY DEF Reaches
<1>2. CASE Tail(w) # <<>>
  BY <1>1, <1>2, LastTail DEF Reaches
<1>3. CASE Tail(w) = <<>>
  <2>1. Tells(d, l)
    BY <1>1, <1>3, LastTail
  <2>2. l.index \in 1 .. Len(d.media) /\ d.media[l.index].streams = l.local
    BY <2>1, MediaIndex DEF Tells
  <2>3. PICK j \in DOMAIN pd.lines :
          pd.lines[j].index = l.index /\ pd.lines[j].remote = d.media[l.index].streams
    BY <2>2 DEF Heeds
  <2> QED BY <1>3, <2>2, <2>3 DEF Reaches
<1> QED BY <1>2, <1>3

LEMMA HeedsCalm ==
  ASSUME NEW pc, NEW pd, NEW pe, NEW description, NEW n \in Nat, Heeds(pc, pd, description, n),
         Calm(pd, pe), Peopled(pe)
  PROVE  Heeds(pc, pe, description, n)
<1> DEFINE old(m) == \E i \in DOMAIN pc.lines : pc.lines[i].index = m
<1>1. \A m \in 1 .. n : m # NoIndex
  BY DEF NoIndex
<1>2. ASSUME NEW m \in 1 .. n
      PROVE  \E j \in DOMAIN pe.lines :
               /\ pe.lines[j].index = m /\ pe.lines[j].remote = description[m].streams
               /\ pe.lines[j].type = description[m].type \/ old(m)
  <2>1. PICK i \in DOMAIN pd.lines :
          /\ pd.lines[i].index = m /\ pd.lines[i].remote = description[m].streams
          /\ pd.lines[i].type = description[m].type \/ old(m)
    BY DEF Heeds
  <2>2. PICK j \in DOMAIN pe.lines :
          /\ pe.lines[j].index = pd.lines[i].index /\ pe.lines[j].type = pd.lines[i].type
          /\ pe.lines[j].remote = pd.lines[i].remote
    BY <1>1, <2>1 DEF Calm, Retains
  <2> QED BY <2>1, <2>2
<1>3. ASSUME NEW j \in DOMAIN pe.lines, pe.lines[j].index # NoIndex
      PROVE  pe.lines[j].index \in 1 .. n \/ old(pe.lines[j].index)
  <2>1. PICK i \in DOMAIN pd.lines : pd.lines[i].index = pe.lines[j].index
    BY <1>3 DEF Calm, Restrains, Restrained
  <2>2. \A i_1 \in DOMAIN pd.lines : pd.lines[i_1].index # NoIndex =>
          pd.lines[i_1].index \in 1 .. n \/ old(pd.lines[i_1].index)
    BY Zenon DEF Heeds
  <2> HIDE DEF old
  <2> QED BY <1>3, <2>1, <2>2
<1>4. Hopes(pc, pe)
  <2> SUFFICES ASSUME NEW j \in DOMAIN pe.lines, pe.lines[j].index # NoIndex, Hopeful(pe, pe.lines[j])
               PROVE  \E i \in DOMAIN pc.lines : /\ pc.lines[i].index = pe.lines[j].index
                                                 /\ pc.lines[i].local = pe.lines[j].local
                                                 /\ Hopeful(pc, pc.lines[i])
    BY DEF Hopes
  <2>1. PICK m \in DOMAIN pd.lines :
          /\ pd.lines[m].index = pe.lines[j].index
          /\ Hopeful(pd, pd.lines[m]) /\ pd.lines[m].local = pe.lines[j].local
    BY DEF Calm, Restrains, Restrained
  <2>2. \A k \in DOMAIN pd.lines : pd.lines[k].index # NoIndex /\ Hopeful(pd, pd.lines[k]) =>
          \E i \in DOMAIN pc.lines : /\ pc.lines[i].index = pd.lines[k].index
                                     /\ pc.lines[i].local = pd.lines[k].local
                                     /\ Hopeful(pc, pc.lines[i])
    BY DEF Heeds, Hopes
  <2> QED BY <2>1, <2>2
<1> QED BY <1>2, <1>3, <1>4 DEF Heeds

\* No two lines have an index: what is at one has the type of what was there.
LEMMA SamePlace ==
  ASSUME NEW pd, InPlace(pd), NEW i \in DOMAIN pd.lines, NEW j \in DOMAIN pd.lines,
         pd.lines[i].index = pd.lines[j].index, pd.lines[i].index # NoIndex
  PROVE  i = j
BY DEF InPlace, Places

\* An offer that was accepted: both peers have the same lines.
LEMMA OfferJoins ==
  ASSUME NEW pc, NEW pd, NEW pe, NEW description, NEW n \in Nat, Heeds(pc, pd, description, n),
         Within(pc, pd), Within(pc, pe), InPlace(pd), InPlace(pe),
         \A k \in 1 .. n : \E m \in DOMAIN pe.lines :
           pe.lines[m].index = k /\ pe.lines[m].type = description[k].type,
         \A m \in DOMAIN pe.lines : pe.lines[m].index # NoIndex => pe.lines[m].index \in 1 .. n
  PROVE  Within(pd, pe) /\ Within(pe, pd)
<1>1. \A k \in 1 .. n : k # NoIndex
  BY DEF NoIndex
<1>2. ASSUME NEW i \in DOMAIN pc.lines, pc.lines[i].index # NoIndex
      PROVE  /\ \E j \in DOMAIN pd.lines : /\ pd.lines[j].index = pc.lines[i].index
                                           /\ pd.lines[j].type = pc.lines[i].type
             /\ \E m \in DOMAIN pe.lines : /\ pe.lines[m].index = pc.lines[i].index
                                           /\ pe.lines[m].type = pc.lines[i].type
  BY <1>2 DEF Within
<1>3. ASSUME NEW k \in 1 .. n
      PROVE  \E j \in DOMAIN pd.lines, m \in DOMAIN pe.lines :
               pd.lines[j].index = k /\ pe.lines[m].index = k /\ pd.lines[j].type = pe.lines[m].type
  <2>1. CASE \E i \in DOMAIN pc.lines : pc.lines[i].index = k
    BY <1>1, <1>2, <2>1
  <2>2. CASE ~\E i \in DOMAIN pc.lines : pc.lines[i].index = k
    <3>1. PICK j \in DOMAIN pd.lines : pd.lines[j].index = k /\ pd.lines[j].type = description[k].type
      BY <2>2 DEF Heeds
    <3> QED BY <3>1
  <2> QED BY <2>1, <2>2
<1>4. ASSUME NEW j \in DOMAIN pd.lines, pd.lines[j].index # NoIndex
      PROVE  \E m \in DOMAIN pe.lines : /\ pe.lines[m].index = pd.lines[j].index
                                        /\ pe.lines[m].type = pd.lines[j].type
  <2>1. CASE pd.lines[j].index \in 1 .. n
    <3>1. PICK i \in DOMAIN pd.lines, m \in DOMAIN pe.lines :
            /\ pd.lines[i].index = pd.lines[j].index /\ pe.lines[m].index = pd.lines[j].index
            /\ pd.lines[i].type = pe.lines[m].type
      BY <1>3, <2>1
    <3>2. i = j
      BY <1>4, <3>1, SamePlace
    <3> QED BY <3>1, <3>2
  <2>2. CASE \E i \in DOMAIN pc.lines : pc.lines[i].index = pd.lines[j].index
    <3>1. PICK i \in DOMAIN pc.lines : pc.lines[i].index = pd.lines[j].index
      BY <2>2
    <3>2. PICK k \in DOMAIN pd.lines : /\ pd.lines[k].index = pc.lines[i].index
                                       /\ pd.lines[k].type = pc.lines[i].type
      BY <1>2, <1>4, <3>1
    <3>3. k = j
      BY <1>4, <3>1, <3>2, SamePlace
    <3> QED BY <1>2, <1>4, <3>1, <3>2, <3>3
  <2>3. pd.lines[j].index \in 1 .. n \/ \E i \in DOMAIN pc.lines : pc.lines[i].index = pd.lines[j].index
    BY <1>4 DEF Heeds
  <2> QED BY <2>1, <2>2, <2>3
<1>5. ASSUME NEW m \in DOMAIN pe.lines, pe.lines[m].index # NoIndex
      PROVE  \E j \in DOMAIN pd.lines : /\ pd.lines[j].index = pe.lines[m].index
                                        /\ pd.lines[j].type = pe.lines[m].type
  <2>1. pe.lines[m].index \in 1 .. n
    BY <1>5
  <2>2. PICK j \in DOMAIN pd.lines, i \in DOMAIN pe.lines :
          /\ pd.lines[j].index = pe.lines[m].index /\ pe.lines[i].index = pe.lines[m].index
          /\ pd.lines[j].type = pe.lines[i].type
    BY <1>3, <2>1
  <2>3. i = m
    BY <1>5, <2>2, SamePlace
  <2> QED BY <2>2, <2>3
<1> QED BY <1>4, <1>5 DEF Within

\* An answer that names no other lines leaves the lines there were.
LEMMA AnswerJoins ==
  ASSUME NEW pc, NEW pd, NEW description, NEW n \in Nat, Heeds(pc, pd, description, n),
         Within(pc, pd), InPlace(pd),
         \A k \in 1 .. n : \E i \in DOMAIN pc.lines : pc.lines[i].index = k
  PROVE  Within(pd, pc)
<1> SUFFICES ASSUME NEW j \in DOMAIN pd.lines, pd.lines[j].index # NoIndex
             PROVE  \E i \in DOMAIN pc.lines : /\ pc.lines[i].index = pd.lines[j].index
                                               /\ pc.lines[i].type = pd.lines[j].type
  BY DEF Within
<1>1. pd.lines[j].index \in 1 .. n \/ \E i \in DOMAIN pc.lines : pc.lines[i].index = pd.lines[j].index
  BY DEF Heeds
<1>2. PICK i \in DOMAIN pc.lines : pc.lines[i].index = pd.lines[j].index
  BY <1>1
<1>3. PICK k \in DOMAIN pd.lines : /\ pd.lines[k].index = pc.lines[i].index
                                   /\ pd.lines[k].type = pc.lines[i].type
  BY <1>2 DEF Within
<1>4. k = j
  BY <1>2, <1>3, SamePlace
<1> QED BY <1>2, <1>3, <1>4

\* What an accepted description leaves of the peer.
LEMMA AcceptedHeeds ==
  ASSUME NEW p \in Peer, NEW pc, Sound(p, pc), Peopled(pc), NEW d \in Description,
         From(Other(p), d), NEW result, result = ApplyMedia(p, pc, d.media), result.ok
  PROVE  LET pd == Applied(result.pc)
         IN  /\ Heeds(pc, pd, d.media, Len(d.media)) /\ Within(pc, pd) /\ Sound(p, pd) /\ Peopled(pd)
             /\ pd.signalling_state =
                  IF pc.signalling_state = "HaveLocalOffer" THEN "Negotiated" ELSE "HaveRemoteOffer"
<1> DEFINE pb == result.pc
           pd == Applied(pb)
           n == Len(d.media)
<1>1. d.media \in Seq(Medium) /\ n \in Nat
  BY DEF Description, Medium
<1>2. \A k \in DOMAIN d.media : d.media[k].streams \subseteq Ssrc[Other(p)]
  BY DEF From
<1>3. Heeds(pc, pb, d.media, n)
  BY <1>1, <1>2, AppliedHeeds
<1>4. Sound(p, pb) /\ Stays(pc, pb) /\ Peopled(pb)
  BY <1>1, <1>2, <1>3, AppliedMedia DEF Heeds
<1> HIDE DEF pb
<1>5. Calm(pb, pd) /\ Peopled(pd)
  BY <1>4, AppliedCalm DEF Sound
<1>6. /\ Sound(p, pd)
      /\ pd.signalling_state =
           IF pb.signalling_state = "HaveLocalOffer" THEN "Negotiated" ELSE "HaveRemoteOffer"
  BY <1>4, AppliedSound
<1> HIDE DEF pd, n
<1>7. Heeds(pc, pd, d.media, n)
  BY <1>1, <1>3, <1>5, HeedsCalm
<1>8. Within(pc, pb)
  BY <1>4 DEF Stays, Within
<1>9. Within(pc, pd)
  BY <1>5, <1>8, CalmWithin, WithinTransitive
<1>10. pb.signalling_state = pc.signalling_state
  BY <1>4 DEF Stays
<1> QED BY <1>5, <1>6, <1>7, <1>9, <1>10 DEF pd, pb, n

\* A description on the wire to p: what its peer says there are lines for.
LEMMA WireTold ==
  ASSUME Tracked, NEW p \in Peer, Inv, NEW i \in DOMAIN wire[p], NEW k \in DOMAIN wire[p][i].media
  PROVE  \E j \in DOMAIN peer[Other(p)].lines :
           /\ peer[Other(p)].lines[j].index = k
           /\ peer[Other(p)].lines[j].type = wire[p][i].media[k].type
<1> DEFINE q == Other(p)
<1>1. PICK place : Tracking(place)
  BY DEF Tracked
<1>2. q \in Peer /\ Other(q) = p
  BY InvParts
<1>3. Told(place, peer[q], wire[p][i])
  BY <1>1, <1>2 DEF Tracking
<1> QED BY <1>3 DEF Told

\* An offer that is accepted and applied.
LEMMA OfferLives ==
  ASSUME Inv, Tracked, \A r \in Peer : Alive(r), NEW p \in Peer, NEW q, q = Other(p),
         wire[p] # <<>>, NEW d, d = Head(wire[p]), d.mode = "offer",
         describing[p] = <<>>, peer[p].signalling_state \in {"None", "Negotiated"},
         NEW pd, Heeds(peer[p], pd, d.media, Len(d.media)), Within(peer[p], pd), Sound(p, pd),
         pd.signalling_state = "HaveRemoteOffer",
         peer'[p] = pd, peer'[q] = peer[q], wire'[p] = Tail(wire[p]), wire'[q] = wire[q],
         describing' = describing
  PROVE  Alive(p)' /\ Alive(q)'
<1>1. /\ q \in Peer /\ q # p /\ Other(q) = p /\ Turn(p) /\ Turn(q) /\ Alive(p) /\ Alive(q)
      /\ InPlace(pd) /\ InPlace(peer[q]) /\ wire[p] \in Seq(Description)
  BY InvParts DEF Sound
<1>2. /\ 1 \in DOMAIN wire[p] /\ d = wire[p][1] /\ d \in Description /\ Has(wire[p], "offer")
      /\ \A mode : Has(Tail(wire[p]), mode) => Has(wire[p], mode)
      /\ Once(wire[p], "offer") => ~Has(Tail(wire[p]), "offer")
  BY <1>1, TailOnce
<1>3. /\ peer[q].signalling_state = "HaveLocalOffer" /\ ~Has(wire[q], "answer")
      /\ ~Has(Tail(wire[p]), "offer")
  BY <1>1, <1>2 DEF Turn
<1>4. ~Has(wire[p], "answer") /\ ~Has(wire[q], "offer")
  BY <1>1 DEF Turn
<1> DEFINE n == Len(d.media)
<1>5. n \in Nat /\ DOMAIN d.media = 1 .. n
  BY <1>2 DEF Description
<1>6. Within(pd, peer[q]) /\ Within(peer[q], pd)
  <2>1. Within(peer[p], peer[q])
    BY <1>1 DEF Alive, Known, Resting
  <2>2. \A k \in 1 .. n : \E m \in DOMAIN peer[q].lines :
          peer[q].lines[m].index = k /\ peer[q].lines[m].type = d.media[k].type
    <3>1. \A k \in DOMAIN wire[p][1].media : \E m \in DOMAIN peer[q].lines :
            peer[q].lines[m].index = k /\ peer[q].lines[m].type = wire[p][1].media[k].type
      BY <1>2, WireTold
    <3> QED BY <1>2, <1>5, <3>1
  <2>3. \A m \in DOMAIN peer[q].lines : peer[q].lines[m].index # NoIndex =>
          peer[q].lines[m].index \in 1 .. n
    BY <1>1, <1>2, <1>5 DEF Alive, Offered
  <2> HIDE DEF n
  <2>4. Heeds(peer[p], pd, d.media, n)
    BY DEF n
  <2> QED BY <1>1, <1>5, <2>1, <2>2, <2>3, <2>4, OfferJoins
<1>7. Known(p)' /\ Joined(p)'
  BY <1>6 DEF Known, Joined
<1>8. Expected(p)' /\ Offered(p)' /\ Described(p)' /\ Heard(p)'
  BY <1>2, <1>4 DEF Expected, Offered, Described, Heard, Has
<1>9. Known(q)' /\ Joined(q)' /\ Expected(q)' /\ Offered(q)'
  BY <1>1, <1>3 DEF Known, Resting, Joined, Expected, Offered, Has
<1>10. Described(q)'
  BY <1>1 DEF Alive, Described
<1>11. Heard(q)'
  <2> SUFFICES ASSUME NEW j \in DOMAIN peer[q].lines, peer[q].lines[j].index # NoIndex,
                      Hopeful(peer[q], peer[q].lines[j])
               PROVE  Reaches(Tail(wire[p]), pd, peer[q].lines[j])
    BY <1>1 DEF Heard
  <2>1. Reaches(wire[p], peer[p], peer[q].lines[j])
    BY <1>1, <1>3 DEF Alive, Heard
  <2> QED BY <1>1, <1>2, <2>1, TailReaches
<1> QED BY <1>7, <1>8, <1>9, <1>10, <1>11 DEF Alive

\* An answer that is applied.
LEMMA AnswerLives ==
  ASSUME Inv, \A r \in Peer : Alive(r), NEW p \in Peer, NEW q, q = Other(p),
         wire[p] # <<>>, NEW d, d = Head(wire[p]), d.mode = "answer",
         describing[p] = <<>>,
         NEW pd, Heeds(peer[p], pd, d.media, Len(d.media)), Within(peer[p], pd), Sound(p, pd),
         pd.signalling_state = "Negotiated",
         peer'[p] = pd, peer'[q] = peer[q], wire'[p] = Tail(wire[p]), wire'[q] = wire[q],
         describing' = describing
  PROVE  Alive(p)' /\ Alive(q)'
<1>1. /\ q \in Peer /\ q # p /\ Other(q) = p /\ Turn(p) /\ Alive(p) /\ Alive(q)
      /\ InPlace(pd) /\ wire[p] \in Seq(Description)
  BY InvParts DEF Sound
<1>2. /\ 1 \in DOMAIN wire[p] /\ d = wire[p][1] /\ d \in Description /\ Has(wire[p], "answer")
      /\ \A mode : Has(Tail(wire[p]), mode) => Has(wire[p], mode)
      /\ Once(wire[p], "answer") => ~Has(Tail(wire[p]), "answer")
      /\ \A i \in DOMAIN Tail(wire[p]) : i + 1 \in DOMAIN wire[p] /\ Tail(wire[p])[i] = wire[p][i + 1]
  BY <1>1, TailOnce, LastTail
<1>3. /\ peer[p].signalling_state = "HaveLocalOffer" /\ peer[q].signalling_state # "HaveRemoteOffer"
      /\ ~Has(wire[q], "offer") /\ ~Has(Tail(wire[p]), "answer")
  BY <1>1, <1>2 DEF Turn
<1> DEFINE n == Len(d.media)
<1>4. n \in Nat /\ DOMAIN d.media = 1 .. n
  BY <1>2 DEF Description
<1>5. Within(pd, peer[p])
  <2>1. \A k \in 1 .. n : \E i \in DOMAIN peer[p].lines : peer[p].lines[i].index = k
    BY <1>1, <1>2, <1>4 DEF Alive, Expected
  <2> HIDE DEF n
  <2>2. Heeds(peer[p], pd, d.media, n)
    BY DEF n
  <2> QED BY <1>1, <1>4, <2>1, <2>2, AnswerJoins
<1>6. Known(p)'
  <2>1. Within(peer[p], peer[q])
    BY <1>1, <1>2 DEF Alive, Known
  <2>2. Within(pd, peer[q])
    BY <1>5, <2>1, WithinTransitive
  <2> QED BY <2>2 DEF Known
<1>7. Joined(p)' /\ Expected(p)' /\ Offered(p)' /\ Described(p)'
  BY <1>3 DEF Joined, Expected, Offered, Described, Has
<1>8. Heard(p)'
  <2> SUFFICES ASSUME NEW j \in DOMAIN pd.lines, pd.lines[j].index # NoIndex,
                      Hopeful(pd, pd.lines[j])
               PROVE  Reaches(wire[q], peer[q], pd.lines[j])
    BY DEF Heard
  <2>1. PICK i \in DOMAIN peer[p].lines :
          /\ peer[p].lines[i].index = pd.lines[j].index
          /\ peer[p].lines[i].local = pd.lines[j].local /\ Hopeful(peer[p], peer[p].lines[i])
    BY DEF Heeds, Hopes
  <2>2. Reaches(wire[q], peer[q], peer[p].lines[i])
    BY <1>1, <1>3, <2>1 DEF Alive, Heard
  <2> QED BY <2>1, <2>2, ReachesSame
<1>9. Known(q)'
  <2>1. Within(peer[q], peer[p]) => Within(peer[q], pd)
    BY WithinTransitive
  <2> QED BY <1>1, <2>1 DEF Alive, Known, Resting
<1>10. Joined(q)' /\ Expected(q)' /\ Described(q)'
  BY <1>1, <1>3 DEF Alive, Joined, Expected, Described
<1>11. Offered(q)'
  <2> SUFFICES ASSUME NEW i \in DOMAIN Tail(wire[p]), Tail(wire[p])[i].mode = "offer",
                      NEW j \in DOMAIN peer[q].lines, peer[q].lines[j].index # NoIndex
               PROVE  peer[q].lines[j].index \in DOMAIN Tail(wire[p])[i].media
    BY <1>1 DEF Offered
  <2>1. PICK m \in DOMAIN wire[p] : wire[p][m] = Tail(wire[p])[i]
    BY <1>2
  <2> QED BY <1>1, <2>1 DEF Alive, Offered
<1>12. Heard(q)'
  <2> SUFFICES ASSUME peer[q].signalling_state \in {"HaveLocalOffer", "Negotiated"},
                      NEW j \in DOMAIN peer[q].lines, peer[q].lines[j].index # NoIndex,
                      Hopeful(peer[q], peer[q].lines[j])
               PROVE  Reaches(Tail(wire[p]), pd, peer[q].lines[j])
    BY <1>1 DEF Heard
  <2>1. Reaches(wire[p], peer[p], peer[q].lines[j])
    BY <1>1 DEF Alive, Heard
  <2> QED BY <1>1, <1>2, <2>1, TailReaches
<1> QED BY <1>6, <1>7, <1>8, <1>9, <1>10, <1>11, <1>12 DEF Alive

LEMMA SetRemoteDescriptionLives ==
  ASSUME Inv, Tracked, Lives, NEW p \in Peer, SetRemoteDescription(p)
  PROVE  Lives'
<1> DEFINE q == Other(p)
           d == Head(wire[p])
           w == Tail(wire[p])
           state == peer[p].signalling_state
           accepted == Accepts(state, d.mode)
           result == ApplyMedia(p, peer[p], d.media)
           pd == IF ~accepted THEN peer[p] ELSE IF result.ok THEN Applied(result.pc) ELSE result.pc
<1>1. /\ Sound(p, peer[p]) /\ Peopled(peer[p]) /\ Carried(p) /\ Turn(p) /\ Turn(q)
      /\ q \in Peer /\ q # p /\ Other(q) = p /\ p = Other(q) /\ \A r \in Peer : r = p \/ r = q
      /\ wire[p] \in Seq(Description) /\ DOMAIN peer = Peer /\ DOMAIN wire = Peer
      /\ state \in SignallingState
  BY InvParts, TwoPeers DEF Lives, Inv, Typed, PeerRecord
<1>2. /\ wire[p] # <<>> /\ describing[p] = <<>> /\ peer' = [peer EXCEPT ![p] = pd]
      /\ wire' = [wire EXCEPT ![p] = w] /\ describing' = describing /\ failed' = failed
  BY <1>1 DEF SetRemoteDescription, Delivered, Inv, Typed
<1>3. /\ d \in Description /\ From(q, d) /\ Has(wire[p], d.mode)
      /\ \A mode : Has(w, mode) => Has(wire[p], mode)
      /\ Once(wire[p], d.mode) => ~Has(w, d.mode)
  BY <1>1, <1>2, TailOnce DEF Carried
<1>4. d.media \in Seq(Medium) /\ d.mode \in {"offer", "answer"}
  BY <1>3 DEF Description, Medium
<1>5. /\ result \in [ok : BOOLEAN, pc : PeerRecord]
      /\ Sound(p, result.pc) /\ Stays(peer[p], result.pc) /\ Peopled(result.pc)
  BY <1>1, <1>3, <1>4, AppliedMedia, AppliedHeeds DEF From
<1>6. result = ApplyMedia(p, peer[p], d.media)
  OBVIOUS
<1>7. CASE accepted /\ result.ok
  <2>1. /\ Heeds(peer[p], pd, d.media, Len(d.media)) /\ Within(peer[p], pd) /\ Sound(p, pd)
        /\ Peopled(pd)
        /\ pd.signalling_state = IF state = "HaveLocalOffer" THEN "Negotiated" ELSE "HaveRemoteOffer"
    <3>1. pd = Applied(result.pc)
      BY <1>7
    <3> HIDE DEF result, d, pd
    <3> QED BY <1>1, <1>3, <1>6, <1>7, <3>1, AcceptedHeeds
  <2>2. \/ d.mode = "offer" /\ state \in {"None", "Negotiated"}
        \/ d.mode = "answer" /\ state = "HaveLocalOffer"
    BY <1>4, <1>7 DEF Accepts
  <2> HIDE DEF pd, result
  <2>3. /\ peer'[p] = pd /\ peer'[q] = peer[q] /\ wire'[p] = w /\ wire'[q] = wire[q]
    BY <1>1, <1>2
  <2>4. \A r \in Peer : Peopled(peer'[r])
    BY <1>1, <2>1, <2>3 DEF Lives
  <2>5. d = Head(wire[p]) /\ w = Tail(wire[p]) /\ q = Other(p)
    OBVIOUS
  <2> HIDE DEF d, w, q
  <2>6. CASE d.mode = "offer" /\ state \in {"None", "Negotiated"}
    <3>1. ~Stuck(p)
      BY <2>6 DEF Stuck
    <3>2. ~Stuck(q)
      BY <1>1, <1>3, <2>6 DEF Stuck
    <3>3. CASE Lost
      BY <1>1, <1>2, <2>4, <3>1, <3>2, <3>3 DEF Lost, Lives
    <3>4. CASE \A r \in Peer : Alive(r)
      <4>1. Alive(p)' /\ Alive(q)'
        BY <1>2, <2>1, <2>3, <2>5, <2>6, <3>4, OfferLives
      <4> QED BY <1>1, <2>4, <4>1 DEF Lives
    <3> QED BY <3>3, <3>4 DEF Lives
  <2>7. CASE d.mode = "answer" /\ state = "HaveLocalOffer"
    <3>1. ~Stuck(p)
      BY <1>3, <2>7 DEF Stuck
    <3>2. Stuck(q) => Stuck(q)'
      BY <1>1, <1>3, <2>1, <2>3, <2>7 DEF Stuck
    <3>3. CASE Lost
      BY <1>1, <1>2, <2>4, <3>1, <3>2, <3>3 DEF Lost, Lives
    <3>4. CASE \A r \in Peer : Alive(r)
      <4>1. Alive(p)' /\ Alive(q)'
        BY <1>2, <2>1, <2>3, <2>5, <2>7, <3>4, AnswerLives
      <4> QED BY <1>1, <2>4, <4>1 DEF Lives
    <3> QED BY <3>3, <3>4 DEF Lives
  <2> QED BY <2>2, <2>6, <2>7
<1>8. CASE ~(accepted /\ result.ok)
  <2>1. pd \in {peer[p], result.pc}
    BY <1>5, <1>8
  <2>2. Peopled(pd) /\ pd.signalling_state = state
    BY <1>1, <1>5, <2>1 DEF Stays
  <2>3. d.mode = "answer" => accepted
    BY <1>1, <1>3 DEF Turn, Accepts
  <2> HIDE DEF pd, result
  <2>4. /\ peer'[p] = pd /\ peer'[q] = peer[q] /\ wire'[p] = w /\ wire'[q] = wire[q]
    BY <1>1, <1>2
  <2>5. \A r \in Peer : Peopled(peer'[r])
    BY <1>1, <2>2, <2>4 DEF Lives
  <2> HIDE DEF d, w
  <2>6. CASE d.mode = "offer"
    <3>1. Stuck(q)'
      BY <1>1, <1>3, <2>2, <2>4, <2>6 DEF Turn, Stuck
    <3> QED BY <1>1, <2>5, <3>1 DEF Lost, Lives
  <2>7. CASE d.mode = "answer"
    <3>1. Stuck(p)'
      BY <1>1, <1>3, <2>2, <2>4, <2>7 DEF Turn, Stuck
    <3> QED BY <1>1, <2>5, <3>1 DEF Lost, Lives
  <2> QED BY <1>4, <2>6, <2>7
<1> QED BY <1>7, <1>8

-----------------------------------------------------------------------------
LEMMA InitLives == Init => Lives
<1> SUFFICES ASSUME Init PROVE Lives
  OBVIOUS
<1>1. NewPeer.lines = <<>> /\ NewPeer.signalling_state = "None" /\ DOMAIN <<>> = {}
  BY DEF NewPeer
<1>2. \A p \in Peer : /\ peer[p] = NewPeer /\ peer[Other(p)] = NewPeer
                      /\ describing[p] = <<>> /\ wire[p] = <<>> /\ wire[Other(p)] = <<>>
  BY TwoPeers DEF Init
<1>3. \A p \in Peer : Peopled(peer[p])
  BY <1>1, <1>2 DEF Peopled
<1>4. \A p \in Peer : Known(p) /\ Joined(p)
  BY <1>1, <1>2 DEF Known, Joined, Within
<1>5. \A p \in Peer : Expected(p) /\ Offered(p) /\ Described(p) /\ Heard(p)
  BY <1>1, <1>2 DEF Expected, Offered, Described, Heard
<1> QED BY <1>3, <1>4, <1>5 DEF Alive, Lives

LEMMA NextLives ==
  ASSUME Inv, Tracked, Lives, [Next]_vars
  PROVE  Lives'
<1>1. CASE UNCHANGED vars
  <2>1. UNCHANGED <<peer, describing, wire, failed>>
    BY <1>1 DEF vars
  <2>2. \A p \in Peer : Stuck(p)' <=> Stuck(p)
    BY <2>1 DEF Stuck
  <2>3. \A p \in Peer : Alive(p) => Alive(p)'
    BY <2>1 DEF Alive, Known, Joined, Expected, Offered, Described, Heard, Resting
  <2> QED BY <2>1, <2>2, <2>3 DEF Lives, Lost
<1>2. CASE Next
  <2>1. PICK p \in Peer :
          \/ \E s \in Streams : \/ \E type \in Media : CreateMediaSender(p, s, type)
                                \/ ChangeProperty(p, s)
                                \/ DropSender(p, s)
          \/ CreateDataChannel(p)
          \/ \E i \in DOMAIN peer[p].lines : RegisterLocalCodec(p, i)
          \/ CreateLocalDescription(p)
          \/ PromoteNegotiation(p)
          \/ SetRemoteDescription(p)
          \/ Poll(p)
    BY <1>2 DEF Next
  <2>2. CASE \E s \in Streams : \E type \in Media : CreateMediaSender(p, s, type)
    BY <2>2, CreateMediaSenderLives
  <2>3. CASE \E s \in Streams : ChangeProperty(p, s)
    BY <2>3, ChangePropertyLives
  <2>4. CASE \E s \in Streams : DropSender(p, s)
    BY <2>4, DropSenderLives
  <2>5. CASE CreateDataChannel(p)
    BY <2>5, CreateDataChannelLives
  <2>6. CASE \E i \in DOMAIN peer[p].lines : RegisterLocalCodec(p, i)
    BY <2>6, RegisterLocalCodecLives
  <2>7. CASE CreateLocalDescription(p)
    BY <2>7, CreateLocalDescriptionLives
  <2>8. CASE PromoteNegotiation(p)
    BY <2>8, PromoteNegotiationLives
  <2>9. CASE SetRemoteDescription(p)
    BY <2>9, SetRemoteDescriptionLives
  <2>10. CASE Poll(p)
    BY <2>10, PollLives
  <2> QED BY <2>1, <2>2, <2>3, <2>4, <2>5, <2>6, <2>7, <2>8, <2>9, <2>10
<1> QED BY <1>1, <1>2

\* When both peers are Negotiated, nothing is on its way and no offer failed before
\* anything was negotiated, each line of one is a line of the other, of the same type at
\* the same index, and the streams a settled line sends are those the other one receives
\* there: set_remote_description adopts or adds a line for every media (rtc.rs 445-543),
\* and the promotion (711-750) and an answer (546-573) settle only what was described.
THEOREM PeersAgree == Spec => []Agreement
<1>1. Inv /\ Lives => Agreement
  <2> SUFFICES ASSUME Inv, Lives, ~failed,
                      \A r \in Peer : /\ peer[r].signalling_state = "Negotiated"
                                      /\ describing[r] = <<>> /\ wire[r] = <<>>,
                      NEW p \in Peer, NEW l \in Registered(peer[p])
               PROVE  \E m \in Registered(peer[Other(p)]) :
                        /\ m.index = l.index /\ m.type = l.type
                        /\ Settled(peer[p], l) => m.remote = l.local
    BY DEF Agreement
  <2> DEFINE q == Other(p)
  <2>1. q \in Peer /\ Sound(q, peer[q])
    BY InvParts
  <2>2. ~Lost
    BY DEF Lost, Stuck
  <2>3. Alive(p)
    BY <2>2 DEF Lives
  <2>4. PICK i \in DOMAIN peer[p].lines : l = peer[p].lines[i] /\ l.index # NoIndex
    BY DEF Registered, Range
  <2>5. Within(peer[p], peer[q])
    BY <2>3 DEF Alive, Known, Resting
  <2>6. PICK j \in DOMAIN peer[q].lines : peer[q].lines[j].index = l.index /\ peer[q].lines[j].type = l.type
    BY <2>4, <2>5 DEF Within
  <2>7. peer[q].lines[j] \in Registered(peer[q])
    BY <2>4, <2>6 DEF Registered, Range
  <2>8. ASSUME Settled(peer[p], l) PROVE peer[q].lines[j].remote = l.local
    <3>1. Hopeful(peer[p], l)
      BY <2>8 DEF Settled, Hopeful, Pending
    <3>2. Reaches(wire[q], peer[q], l)
      BY <2>3, <2>4, <3>1 DEF Alive, Heard
    <3>3. PICK m \in DOMAIN peer[q].lines :
            peer[q].lines[m].index = l.index /\ peer[q].lines[m].remote = l.local
      BY <2>1, <3>2 DEF Reaches
    <3>4. m = j
      BY <2>1, <2>4, <2>6, <3>3, SamePlace DEF Sound
    <3> QED BY <3>3, <3>4
  <2> QED BY <2>6, <2>7, <2>8
<1>2. Init => Inv /\ Tracked /\ Lives
  BY InitInv, InitTracked, InitLives
<1>3. Inv /\ Tracked /\ Lives /\ [Next]_vars => Inv' /\ Tracked' /\ Lives'
  BY NextInv, NextTracked, NextLives
<1> QED BY <1>1, <1>2, <1>3, PTL DEF Spec
=============================================================================
