---------------------- MODULE ChannelApplication_proofs ----------------------
(***************************************************************************)
(* Theorems about ChannelApplication, for any number of streams, handles,  *)
(* messages and closes, and whether channels may be created early or not.  *)
(*                                                                         *)
(* The argument is about one stream id at a time.  Once the DTLS roles are *)
(* fixed it has an owner, the side that opens channels on it, and a guest, *)
(* which accepts them.  A message is not sent on a stream whose reset is   *)
(* under way, and what was sent before the reset arrives before it; so     *)
(* what is on the wire about a stream, or waits in pending_stream_resets,  *)
(* always speaks of the channel the two sides have there or of the one     *)
(* that the reset takes away.  StreamSound says which, conjunct by         *)
(* conjunct.                                                               *)
(***************************************************************************)
EXTENDS ChannelApplication, FiniteSetTheorems, SequenceTheorems, TLAPS

USE DEF Endpoints

\* The endpoint that opens its channels on the stream s once the DTLS roles
\* are fixed, and the one that accepts them.
Owner(s) == IF s % 2 = 0 THEN "a" ELSE "b"
Guest(s) == Peer(Owner(s))

OnWire(q) == ToSet(wire[q])
StateAt(q, s) == channels[q][s].state
HandleAt(q, s) == channels[q][s].handle
OpenerAt(q, s) == handles[channels[q][s].handle].opener

\* m may be followed by n on the wire.
Before(m, n) ==
  /\ m.kind = "Reset" => n.kind # "Reset" /\ m.streams \cap n.streams = {}
  /\ m.kind = "Open" /\ n.kind = "Open" => m.streams \cap n.streams = {}

Ordered(w) == \A j \in 1 .. Len(w) : \A i \in 1 .. j - 1 : Before(w[i], w[j])
WireOrder == \A q \in Endpoints : Ordered(wire[q])
-----------------------------------------------------------------------------
LEMMA Both == \A q \in Endpoints : Peer(q) \in Endpoints /\ Peer(q) # q /\ Peer(Peer(q)) = q
                /\ \A r \in Endpoints : r = q \/ r = Peer(q)
BY DEF Peer

LEMMA OwnerAndGuest == \A s \in Streams : Owner(s) \in Endpoints /\ Guest(s) \in Endpoints
                         /\ Owner(s) # Guest(s) /\ Peer(Owner(s)) = Guest(s) /\ Peer(Guest(s)) = Owner(s)
                         /\ \A r \in Endpoints : r = Owner(s) \/ r = Guest(s)
BY DEF Owner, Guest, Peer

LEMMA Elements == ASSUME NEW S, NEW w \in Seq(S) PROVE ToSet(w) = {w[i] : i \in 1 .. Len(w)} /\ ToSet(w) \subseteq S
BY DEF ToSet

LEMMA AppendedElements ==
  ASSUME NEW S, NEW w \in Seq(S), NEW n \in S
  PROVE  /\ w \o <<n>> \in Seq(S) /\ ToSet(w \o <<n>>) = ToSet(w) \cup {n}
         /\ Ordered(w) /\ (\A m \in ToSet(w) : Before(m, n)) => Ordered(w \o <<n>>)
<1> DEFINE v == w \o <<n>>
<1>1. <<n>> \in Seq(S) /\ Len(<<n>>) = 1 /\ <<n>>[1] = n
  OBVIOUS
<1>2. v \in Seq(S) /\ Len(v) = Len(w) + 1
  BY <1>1, ConcatProperties
<1>3. \A i \in 1 .. Len(w) + 1 : v[i] = IF i <= Len(w) THEN w[i] ELSE <<n>>[i - Len(w)]
  BY <1>1, ConcatProperties
<1>4. Len(w) \in Nat
  OBVIOUS
<1>5. \A i \in 1 .. Len(w) + 1 : v[i] = IF i <= Len(w) THEN w[i] ELSE n
  BY <1>1, <1>3, <1>4
<1>6. ToSet(w) = {w[i] : i \in 1 .. Len(w)} /\ ToSet(v) = {v[i] : i \in 1 .. Len(v)}
  BY <1>2, Elements
<1> HIDE DEF v
<1>7. ToSet(v) = ToSet(w) \cup {n}
  <2>1. ASSUME NEW x \in ToSet(v) PROVE x \in ToSet(w) \cup {n}
    BY <2>1, <1>2, <1>4, <1>5, <1>6
  <2>2. ASSUME NEW x \in ToSet(w) PROVE x \in ToSet(v)
    BY <2>2, <1>2, <1>4, <1>5, <1>6
  <2>3. n \in ToSet(v)
    <3>1. v[Len(w) + 1] = n /\ Len(w) + 1 \in 1 .. Len(v)
      BY <1>2, <1>4, <1>5
    <3> QED
      BY <3>1, <1>6
  <2> QED
    BY <2>1, <2>2, <2>3
<1>8. ASSUME Ordered(w), \A m \in ToSet(w) : Before(m, n) PROVE Ordered(v)
  <2> SUFFICES ASSUME NEW j \in 1 .. Len(v), NEW i \in 1 .. j - 1 PROVE Before(v[i], v[j])
    BY DEF Ordered
  <2>1. i \in 1 .. Len(w) /\ v[i] = w[i] /\ w[i] \in ToSet(w)
    BY <1>2, <1>4, <1>5, <1>6
  <2>2. CASE j \in 1 .. Len(w)
    <3>1. j \in 1 .. Len(w) + 1 /\ j <= Len(w)
      BY <2>2, <1>4
    <3>2. v[j] = w[j]
      BY <3>1, <1>5
    <3> QED
      BY <2>1, <2>2, <3>2, <1>8 DEF Ordered
  <2>3. CASE j = Len(w) + 1
    <3>1. v[j] = n
      BY <2>3, <1>4, <1>5
    <3> QED
      BY <2>1, <3>1, <1>8
  <2> QED
    BY <2>2, <2>3, <1>2, <1>4
<1> QED
  BY <1>2, <1>7, <1>8 DEF v

LEMMA RemovedElements ==
  ASSUME NEW S, NEW w \in Seq(S), NEW i \in 1 .. Len(w)
  PROVE  /\ RemoveAt(w, i) \in Seq(S)
         /\ \A m \in ToSet(RemoveAt(w, i)) : \E j \in 1 .. Len(w) : j # i /\ m = w[j]
         /\ Ordered(w) => Ordered(RemoveAt(w, i))
<1> DEFINE v == RemoveAt(w, i)
           f == SubSeq(w, 1, i - 1)
           g == SubSeq(w, i + 1, Len(w))
<1>1. Len(w) \in Nat /\ i \in Nat /\ (\A j \in 1 .. Len(w) : w[j] \in S)
  OBVIOUS
<1>2. f \in Seq(S) /\ Len(f) = i - 1 /\ \A j \in 1 .. i - 1 : f[j] = w[j]
  <2>1. /\ f \in Seq(S) /\ Len(f) = IF 1 <= i - 1 THEN i - 1 - 1 + 1 ELSE 0
        /\ \A j \in 1 .. i - 1 - 1 + 1 : f[j] = w[1 + j - 1]
    <3>1. 1 \in Int /\ i - 1 \in Int /\ \A j \in 1 .. i - 1 : w[j] \in S
      BY <1>1
    <3> HIDE DEF f
    <3> QED
      BY <3>1, SubSeqProperties DEF f
  <2> HIDE DEF f
  <2> QED
    BY <2>1, <1>1
<1>3. g \in Seq(S) /\ Len(g) = Len(w) - i /\ \A j \in 1 .. Len(w) - i : g[j] = w[i + j]
  <2>1. /\ g \in Seq(S) /\ Len(g) = IF i + 1 <= Len(w) THEN Len(w) - (i + 1) + 1 ELSE 0
        /\ \A j \in 1 .. Len(w) - (i + 1) + 1 : g[j] = w[(i + 1) + j - 1]
    <3>1. i + 1 \in Int /\ Len(w) \in Int /\ \A j \in i + 1 .. Len(w) : w[j] \in S
      BY <1>1
    <3> HIDE DEF g
    <3> QED
      BY <3>1, SubSeqProperties DEF g
  <2> HIDE DEF g
  <2> QED
    BY <2>1, <1>1
<1>4. v = f \o g
  BY DEF RemoveAt
<1> HIDE DEF f, g, v
<1>5. v \in Seq(S) /\ Len(v) = Len(w) - 1
  BY <1>1, <1>2, <1>3, <1>4, ConcatProperties
<1>6. \A j \in 1 .. Len(w) - 1 : v[j] = IF j < i THEN w[j] ELSE w[j + 1]
  <2>1. \A j \in 1 .. Len(f) + Len(g) : v[j] = IF j <= Len(f) THEN f[j] ELSE g[j - Len(f)]
    BY <1>2, <1>3, <1>4, ConcatProperties
  <2> SUFFICES ASSUME NEW j \in 1 .. Len(w) - 1 PROVE v[j] = IF j < i THEN w[j] ELSE w[j + 1]
    OBVIOUS
  <2>2. CASE j < i
    <3>1. j \in 1 .. Len(f) + Len(g) /\ j <= Len(f) /\ j \in 1 .. i - 1
      BY <2>2, <1>1, <1>2, <1>3
    <3>2. v[j] = f[j]
      BY <3>1, <2>1
    <3> QED
      BY <3>1, <3>2, <1>2, <2>2
  <2>3. CASE i <= j
    <3>0. j \in 1 .. Len(f) + Len(g) /\ ~ j <= Len(f) /\ j - Len(f) = j - (i - 1)
      BY <2>3, <1>1, <1>2, <1>3
    <3>1. v[j] = g[j - (i - 1)] /\ j - (i - 1) \in 1 .. Len(w) - i
      BY <3>0, <2>1, <2>3, <1>1
    <3>2. g[j - (i - 1)] = w[i + (j - (i - 1))]
      BY <3>1, <1>3
    <3>3. i + (j - (i - 1)) = j + 1
      BY <1>1
    <3> QED
      BY <3>1, <3>2, <3>3, <2>3, <1>1
  <2> QED
    BY <2>2, <2>3, <1>1
<1>7. ToSet(v) = {v[j] : j \in 1 .. Len(v)}
  BY <1>5, Elements
<1>8. ASSUME NEW m \in ToSet(v) PROVE \E j \in 1 .. Len(w) : j # i /\ m = w[j]
  <2>1. PICK k \in 1 .. Len(w) - 1 : m = v[k]
    BY <1>5, <1>7
  <2>2. CASE k < i
    BY <2>1, <2>2, <1>1, <1>6
  <2>3. CASE ~ k < i
    <3>1. m = w[k + 1] /\ k + 1 \in 1 .. Len(w) /\ k + 1 # i
      BY <2>1, <2>3, <1>1, <1>6
    <3> QED
      BY <3>1
  <2> QED
    BY <2>2, <2>3
<1>9. ASSUME Ordered(w) PROVE Ordered(v)
  <2> SUFFICES ASSUME NEW k \in 1 .. Len(v), NEW j \in 1 .. k - 1 PROVE Before(v[j], v[k])
    BY DEF Ordered
  <2> DEFINE up(x) == IF x < i THEN x ELSE x + 1
  <2>0. k \in 1 .. Len(w) - 1 /\ j \in 1 .. Len(w) - 1 /\ j < k
    BY <1>1, <1>5
  <2>1. v[j] = w[up(j)] /\ v[k] = w[up(k)]
    BY <2>0, <1>6
  <2>2. up(k) \in 1 .. Len(w) /\ up(j) \in 1 .. up(k) - 1
    BY <2>0, <1>1
  <2> HIDE DEF up
  <2> QED
    BY <2>1, <2>2, <1>9 DEF Ordered
<1> QED
  BY <1>5, <1>8, <1>9 DEF v
-----------------------------------------------------------------------------
(***************************************************************************)
(* Types.  References to handles are kept apart from the types proper,     *)
(* which then do not grow with the handles.                                *)
(***************************************************************************)
Message == [kind : {"Open", "Ack", "Data", "Reset"}, streams : SUBSET Streams,
            from : Nat, ordered : BOOLEAN, open : BOOLEAN]
ChannelRecord == [state : States, handle : Nat]
ChannelMaps == UNION {[S -> ChannelRecord] : S \in SUBSET Streams}
HandleRecord == [at : Endpoints, id : Streams, state : States, ordered : BOOLEAN,
                 held : {"held", "closed", "dropped"}, opener : Nat]
ActionRecord == [kind : {"SendMessage", "Close"}, id : Streams, handle : Nat]
Received == [from : Nat, open : BOOLEAN]

\* Only a reset is about several streams and comes from no handle.
FromHandle(m) == m.from \in Handles /\ \E s \in Streams : m.streams = {s}

WireTypes ==
  /\ wire \in [Endpoints -> Seq(Message)]
  /\ \A q \in Endpoints : \A m \in OnWire(q) : m.kind # "Reset" => FromHandle(m)
  /\ \A q \in Endpoints : \A m \in OnWire(q) : m.kind = "Reset" => m.from = 0

ChannelTypes ==
  /\ channels \in [Endpoints -> ChannelMaps]
  /\ \A q \in Endpoints : \A s \in DOMAIN channels[q] : HandleAt(q, s) \in Handles
  /\ pending \in [Endpoints -> SUBSET Streams] /\ resetting \in [Endpoints -> SUBSET Streams]

HandleTypes ==
  /\ handles \in Seq(HandleRecord)
  /\ \A h \in Handles : handles[h].opener \in Handles
  /\ stage \in Seq(States) /\ Len(stage) = Len(handles)
  /\ inbox \in Seq(Seq(Received)) /\ Len(inbox) = Len(handles)
  /\ \A h \in Handles : \A i \in 1 .. Len(inbox[h]) : inbox[h][i].from \in Handles

ActionTypes ==
  /\ actions \in [Endpoints -> Seq(ActionRecord)]
  /\ \A q \in Endpoints : \A a \in ToSet(actions[q]) : a.handle \in Handles

SessionTypes ==
  /\ assoc \in [Endpoints -> {"Disconnected", "Connecting", "Connected"}]
  /\ described \in [Endpoints -> BOOLEAN] /\ client \in [Endpoints -> BOOLEAN]
  /\ answered \in [Endpoints -> BOOLEAN]
  /\ messages \in 0 .. MaxMessages /\ closes \in 0 .. MaxCloses

TypeInv == WireTypes /\ ChannelTypes /\ HandleTypes /\ ActionTypes /\ SessionTypes

LEMMA InitTypes == Init => TypeInv
<1> SUFFICES ASSUME Init PROVE TypeInv
  OBVIOUS
<1>1. WireTypes
  <2>1. wire \in [Endpoints -> Seq(Message)] /\ \A q \in Endpoints : wire[q] = << >>
    BY DEF Init, AssociationInit
  <2>2. \A q \in Endpoints : OnWire(q) = {}
    BY <2>1 DEF OnWire, ToSet
  <2> QED
    BY <2>1, <2>2 DEF WireTypes
<1>2. ChannelTypes
  <2>1. << >> \in ChannelMaps
    <3>1. << >> \in [{} -> ChannelRecord]
      OBVIOUS
    <3> QED
      BY <3>1 DEF ChannelMaps
  <2>2. \A q \in Endpoints : DOMAIN channels[q] = {}
    BY DEF Init
  <2> QED
    BY <2>1, <2>2 DEF Init, AssociationInit, ChannelTypes
<1>3. HandleTypes
  BY DEF Init, HandleTypes, Handles
<1>4. ActionTypes
  <2>1. \A q \in Endpoints : ToSet(actions[q]) = {}
    BY DEF Init, ToSet
  <2> QED
    BY <2>1 DEF Init, ActionTypes
<1>5. SessionTypes
  BY ChannelAssumption DEF Init, AssociationInit, SessionTypes
<1> QED
  BY <1>1, <1>2, <1>3, <1>4, <1>5 DEF TypeInv
-----------------------------------------------------------------------------
(***************************************************************************)
(* What the updates of the model do to the wire, the channels and the      *)
(* handles.                                                                *)
(***************************************************************************)

\* w is the wire, or what is left of it when a message was taken.
FromWire(w) ==
  /\ w \in [Endpoints -> Seq(Message)]
  /\ \A q \in Endpoints : ToSet(w[q]) \subseteq OnWire(q) /\ (Ordered(wire[q]) => Ordered(w[q]))

\* What e sends at once is at most one message.
AtMostOne(t) == t = << >> \/ \E n \in Message : t = <<n>>

LEMMA WireItself == WireTypes => FromWire(wire)
BY DEF WireTypes, FromWire, OnWire

LEMMA WireTaken ==
  ASSUME WireTypes, NEW e \in Endpoints, NEW i \in 1 .. Len(wire[e]), NEW w, w = [wire EXCEPT ![e] = RemoveAt(@, i)]
  PROVE  /\ FromWire(w) /\ wire[e][i] \in OnWire(e) /\ wire[e][i] \in Message
         /\ \A m \in ToSet(w[e]) : \E j \in 1 .. Len(wire[e]) : j # i /\ m = wire[e][j]
<1>1. wire[e] \in Seq(Message) /\ wire \in [Endpoints -> Seq(Message)]
  BY DEF WireTypes
<1>2. /\ RemoveAt(wire[e], i) \in Seq(Message)
      /\ \A m \in ToSet(RemoveAt(wire[e], i)) : \E j \in 1 .. Len(wire[e]) : j # i /\ m = wire[e][j]
      /\ Ordered(wire[e]) => Ordered(RemoveAt(wire[e], i))
  BY <1>1, RemovedElements
<1>3. w \in [Endpoints -> Seq(Message)] /\ w[e] = RemoveAt(wire[e], i) /\ \A q \in Endpoints : q # e => w[q] = wire[q]
  BY <1>1, <1>2
<1>4. OnWire(e) = {wire[e][j] : j \in 1 .. Len(wire[e])} /\ OnWire(e) \subseteq Message
  BY <1>1, Elements DEF OnWire
<1>5. ToSet(w[e]) \subseteq OnWire(e)
  BY <1>2, <1>3, <1>4
<1>6. \A q \in Endpoints : ToSet(w[q]) \subseteq OnWire(q) /\ (Ordered(wire[q]) => Ordered(w[q]))
  BY <1>2, <1>3, <1>5 DEF OnWire
<1> QED
  BY <1>2, <1>3, <1>4, <1>6 DEF FromWire

LEMMA Transmitted ==
  ASSUME WireTypes, NEW e \in Endpoints, NEW w, FromWire(w), NEW t, AtMostOne(t), wire' = [w EXCEPT ![Peer(e)] = @ \o t]
  PROVE  /\ wire' \in [Endpoints -> Seq(Message)]
         /\ OnWire(e)' = ToSet(w[e]) /\ OnWire(e)' \subseteq OnWire(e)
         /\ OnWire(Peer(e))' = ToSet(w[Peer(e)]) \cup ToSet(t)
         /\ OnWire(Peer(e))' \subseteq OnWire(Peer(e)) \cup ToSet(t)
         /\ WireOrder /\ (\A m \in OnWire(Peer(e)), n \in ToSet(t) : Before(m, n)) => WireOrder'
<1>1. w \in [Endpoints -> Seq(Message)] /\ Peer(e) \in Endpoints /\ Peer(e) # e
  BY Both DEF FromWire
<1>2. wire' = [q \in Endpoints |-> IF q = Peer(e) THEN w[q] \o t ELSE w[q]]
  BY <1>1
<1>3. /\ w[Peer(e)] \o t \in Seq(Message) /\ ToSet(w[Peer(e)] \o t) = ToSet(w[Peer(e)]) \cup ToSet(t)
      /\ Ordered(w[Peer(e)]) /\ (\A m \in ToSet(w[Peer(e)]), n \in ToSet(t) : Before(m, n)) => Ordered(w[Peer(e)] \o t)
  <2>1. CASE t = << >>
    <3>1. w[Peer(e)] \o t = w[Peer(e)] /\ ToSet(t) = {}
      BY <2>1, <1>1 DEF ToSet
    <3> QED
      BY <3>1, <1>1
  <2>2. CASE t # << >>
    <3>0. PICK n \in Message : t = <<n>>
      BY <2>2 DEF AtMostOne
    <3>1. ToSet(t) = {n}
      BY <3>0 DEF ToSet
    <3> QED
      BY <3>0, <3>1, <1>1, AppendedElements
  <2> QED
    BY <2>1, <2>2 DEF AtMostOne
<1>4. wire' \in [Endpoints -> Seq(Message)] /\ wire'[e] = w[e] /\ wire'[Peer(e)] = w[Peer(e)] \o t
  BY <1>1, <1>2, <1>3
<1>5. OnWire(e)' = ToSet(w[e]) /\ OnWire(Peer(e))' = ToSet(w[Peer(e)]) \cup ToSet(t)
  BY <1>3, <1>4 DEF OnWire
<1>6. OnWire(e)' \subseteq OnWire(e) /\ OnWire(Peer(e))' \subseteq OnWire(Peer(e)) \cup ToSet(t)
  BY <1>1, <1>5 DEF FromWire
<1>7. ASSUME WireOrder, \A m \in OnWire(Peer(e)), n \in ToSet(t) : Before(m, n) PROVE WireOrder'
  <2>1. Ordered(w[e]) /\ Ordered(w[Peer(e)]) /\ \A m \in ToSet(w[Peer(e)]) : m \in OnWire(Peer(e))
    BY <1>1, <1>7 DEF WireOrder, FromWire
  <2>2. Ordered(wire'[e]) /\ Ordered(wire'[Peer(e)])
    BY <1>3, <1>4, <1>7, <2>1
  <2>3. \A q \in Endpoints : Ordered(wire'[q])
    BY <2>2, Both
  <2> QED
    BY <2>3 DEF WireOrder, Ordered
<1> QED
  BY <1>4, <1>5, <1>6, <1>7

LEMMA ChannelMapShape ==
  ASSUME NEW c
  PROVE  c \in ChannelMaps <=> /\ DOMAIN c \subseteq Streams /\ c = [s \in DOMAIN c |-> c[s]]
                               /\ \A s \in DOMAIN c : c[s] \in ChannelRecord
<1>1. ASSUME c \in ChannelMaps
      PROVE  /\ DOMAIN c \subseteq Streams /\ c = [s \in DOMAIN c |-> c[s]]
             /\ \A s \in DOMAIN c : c[s] \in ChannelRecord
  BY <1>1 DEF ChannelMaps
<1>2. ASSUME DOMAIN c \subseteq Streams, c = [s \in DOMAIN c |-> c[s]], \A s \in DOMAIN c : c[s] \in ChannelRecord
      PROVE  c \in ChannelMaps
  <2>1. c \in [DOMAIN c -> ChannelRecord]
    BY <1>2
  <2> QED
    BY <2>1, <1>2 DEF ChannelMaps
<1> QED
  BY <1>1, <1>2

\* A channel of e changes its state.
ChangesState(e, s, st) == channels' = [channels EXCEPT ![e][s].state = st]

LEMMA StateChanged ==
  ASSUME channels \in [Endpoints -> ChannelMaps], NEW e \in Endpoints, NEW s, Holds(e, s), NEW st \in States,
         ChangesState(e, s, st)
  PROVE  /\ channels' \in [Endpoints -> ChannelMaps]
         /\ \A q \in Endpoints : \A t :
              /\ Holds(q, t)' = Holds(q, t)
              /\ Holds(q, t) => HandleAt(q, t)' = HandleAt(q, t)
              /\ Holds(q, t) => StateAt(q, t)' = IF q = e /\ t = s THEN st ELSE StateAt(q, t)
<1> DEFINE c == [channels[e] EXCEPT ![s] = [channels[e][s] EXCEPT !.state = st]]
<1>1. /\ DOMAIN channels[e] \subseteq Streams /\ channels[e] = [t \in DOMAIN channels[e] |-> channels[e][t]]
      /\ \A t \in DOMAIN channels[e] : channels[e][t] \in ChannelRecord
  BY ChannelMapShape
<1>2. s \in DOMAIN channels[e]
  BY DEF Holds
<1>3. [channels[e][s] EXCEPT !.state = st] = [state |-> st, handle |-> channels[e][s].handle]
  BY <1>1, <1>2 DEF ChannelRecord
<1>4. /\ DOMAIN c = DOMAIN channels[e] /\ c[s] = [state |-> st, handle |-> channels[e][s].handle]
      /\ \A t \in DOMAIN channels[e] : t # s => c[t] = channels[e][t]
  BY <1>1, <1>2, <1>3
<1>5. c = [t \in DOMAIN c |-> c[t]]
  BY <1>1
<1>6. channels' = [channels EXCEPT ![e] = c]
  BY DEF ChangesState
<1> HIDE DEF c
<1>7. c[s] \in ChannelRecord
  BY <1>1, <1>2, <1>4 DEF ChannelRecord
<1>8. c \in ChannelMaps
  BY <1>1, <1>4, <1>5, <1>7, ChannelMapShape
<1>9. channels' \in [Endpoints -> ChannelMaps] /\ channels'[e] = c /\ \A q \in Endpoints : q # e => channels'[q] = channels[q]
  BY <1>6, <1>8
<1> QED
  BY <1>2, <1>4, <1>9 DEF Holds, HandleAt, StateAt

\* A channel appears at e.
LEMMA ChannelPut ==
  ASSUME channels \in [Endpoints -> ChannelMaps], NEW e \in Endpoints, NEW s \in Streams, NEW c \in ChannelRecord,
         channels' = [channels EXCEPT ![e] = Put(@, s, c)]
  PROVE  /\ channels' \in [Endpoints -> ChannelMaps]
         /\ Holds(e, s)' /\ HandleAt(e, s)' = c.handle /\ StateAt(e, s)' = c.state
         /\ \A q \in Endpoints : \A t : q # e \/ t # s =>
              /\ Holds(q, t)' = Holds(q, t)
              /\ Holds(q, t) => HandleAt(q, t)' = HandleAt(q, t) /\ StateAt(q, t)' = StateAt(q, t)
<1> DEFINE n == Put(channels[e], s, c)
<1>1. /\ DOMAIN channels[e] \subseteq Streams
      /\ \A t \in DOMAIN channels[e] : channels[e][t] \in ChannelRecord
  BY ChannelMapShape
<1>2. /\ DOMAIN n = DOMAIN channels[e] \cup {s} /\ n[s] = c
      /\ \A t \in DOMAIN channels[e] : t # s => n[t] = channels[e][t]
      /\ n = [t \in DOMAIN n |-> n[t]]
  BY DEF Put
<1>3. channels' = [channels EXCEPT ![e] = n]
  OBVIOUS
<1> HIDE DEF n
<1>4. n \in ChannelMaps
  BY <1>1, <1>2, ChannelMapShape
<1>5. channels' \in [Endpoints -> ChannelMaps] /\ channels'[e] = n /\ \A q \in Endpoints : q # e => channels'[q] = channels[q]
  BY <1>3, <1>4
<1> QED
  BY <1>2, <1>5 DEF Holds, HandleAt, StateAt

\* The channels of e on the streams of R go.
LEMMA ChannelsGone ==
  ASSUME channels \in [Endpoints -> ChannelMaps], NEW e \in Endpoints, NEW R, NEW gone, gone = R \cap DOMAIN channels[e],
         channels' = [channels EXCEPT ![e] = [t \in DOMAIN @ \ gone |-> @[t]]]
  PROVE  /\ channels' \in [Endpoints -> ChannelMaps]
         /\ \A q \in Endpoints : \A t :
              /\ Holds(q, t)' = (Holds(q, t) /\ ~ (q = e /\ t \in R))
              /\ Holds(q, t)' => HandleAt(q, t)' = HandleAt(q, t) /\ StateAt(q, t)' = StateAt(q, t)
<1> DEFINE n == [t \in DOMAIN channels[e] \ gone |-> channels[e][t]]
<1>1. /\ DOMAIN channels[e] \subseteq Streams
      /\ \A t \in DOMAIN channels[e] : channels[e][t] \in ChannelRecord
  BY ChannelMapShape
<1>2. DOMAIN n = DOMAIN channels[e] \ R /\ n = [t \in DOMAIN n |-> n[t]] /\ \A t \in DOMAIN n : n[t] = channels[e][t]
  OBVIOUS
<1>3. channels' = [channels EXCEPT ![e] = n]
  OBVIOUS
<1> HIDE DEF n
<1>4. n \in ChannelMaps
  BY <1>1, <1>2, ChannelMapShape
<1>5. channels' \in [Endpoints -> ChannelMaps] /\ channels'[e] = n /\ \A q \in Endpoints : q # e => channels'[q] = channels[q]
  BY <1>3, <1>4
<1> QED
  BY <1>2, <1>5 DEF Holds, HandleAt, StateAt

LEMMA ChannelsKept ==
  ASSUME UNCHANGED channels
  PROVE  \A q, t : /\ Holds(q, t)' = Holds(q, t) /\ HandleAt(q, t)' = HandleAt(q, t)
                   /\ StateAt(q, t)' = StateAt(q, t)
BY DEF Holds, HandleAt, StateAt

\* A handle is given out.
LEMMA HandleAdded ==
  ASSUME HandleTypes, NEW r \in HandleRecord, NEW st \in States, r.opener \in Handles \cup {Len(handles) + 1},
         handles' = Append(handles, r), stage' = Append(stage, st), inbox' = Append(inbox, << >>)
  PROVE  /\ HandleTypes'
         /\ Handles' = Handles \cup {Len(handles) + 1} /\ Len(handles) + 1 \notin Handles /\ Len(handles) \in Nat
         /\ handles'[Len(handles) + 1] = r /\ \A h \in Handles : handles'[h] = handles[h]
         /\ stage'[Len(handles) + 1] = st /\ \A h \in Handles : stage'[h] = stage[h]
         /\ inbox'[Len(handles) + 1] = << >> /\ \A h \in Handles : inbox'[h] = inbox[h]
<1> DEFINE n == Len(handles) + 1
<1>1. Len(handles) \in Nat /\ n \notin Handles
  BY DEF HandleTypes, Handles
<1>2. handles' \in Seq(HandleRecord) /\ Len(handles') = n /\ handles'[n] = r /\ \A h \in Handles : handles'[h] = handles[h]
  BY DEF HandleTypes, Handles
<1>3. stage' \in Seq(States) /\ Len(stage') = n /\ stage'[n] = st /\ \A h \in Handles : stage'[h] = stage[h]
  BY DEF HandleTypes, Handles
<1>4. inbox' \in Seq(Seq(Received)) /\ Len(inbox') = n /\ inbox'[n] = << >> /\ \A h \in Handles : inbox'[h] = inbox[h]
  <2>1. << >> \in Seq(Received)
    OBVIOUS
  <2> QED
    BY <2>1 DEF HandleTypes, Handles
<1>5. Handles' = Handles \cup {n}
  BY <1>1, <1>2 DEF Handles
<1> HIDE DEF n
<1>6. \A h \in Handles' : handles'[h].opener \in Handles'
  BY <1>2, <1>5 DEF n, HandleTypes
<1>7. \A h \in Handles' : \A i \in 1 .. Len(inbox'[h]) : inbox'[h][i].from \in Handles'
  <2> SUFFICES ASSUME NEW h \in Handles', NEW i \in 1 .. Len(inbox'[h]) PROVE inbox'[h][i].from \in Handles'
    OBVIOUS
  <2>1. CASE h = n
    BY <2>1, <1>4
  <2>2. CASE h \in Handles
    BY <2>2, <1>4, <1>5 DEF HandleTypes
  <2> QED
    BY <2>1, <2>2, <1>5
<1>8. HandleTypes'
  BY <1>2, <1>3, <1>4, <1>6, <1>7 DEF HandleTypes
<1> QED
  BY <1>1, <1>2, <1>3, <1>4, <1>5, <1>8 DEF n

\* The events of the handle h report the state st.
LEMMA StageReported ==
  ASSUME HandleTypes, NEW h \in Handles, NEW st \in States, stage' = [stage EXCEPT ![h] = st], UNCHANGED <<handles, inbox>>
  PROVE  HandleTypes' /\ Handles' = Handles /\ stage'[h] = st /\ \A g \in Handles : g # h => stage'[g] = stage[g]
<1>1. Len(handles) \in Nat /\ DOMAIN stage = 1 .. Len(handles)
  BY DEF HandleTypes
<1>2. stage' \in Seq(States) /\ Len(stage') = Len(handles)
  BY DEF HandleTypes, Handles
<1>3. HandleTypes'
  BY <1>2 DEF HandleTypes, Handles
<1>4. Handles' = Handles
  BY DEF Handles
<1> QED
  BY <1>1, <1>3, <1>4 DEF Handles
-----------------------------------------------------------------------------
(***************************************************************************)
(* What is sent, and what becomes of the resets an endpoint asks for: one  *)
(* it waits to request, one that is on its way, or both.                   *)
(***************************************************************************)
Requested(q, s) == \E m \in OnWire(Peer(q)) : m.kind = "Reset" /\ s \in m.streams
Asks(q, s)  == s \in pending[q] \/ Requested(q, s)
Twice(q, s) == s \in pending[q] /\ Requested(q, s)

LEMMA SentMessage ==
  ASSUME NEW e \in Endpoints, NEW m \in Message
  PROVE  AtMostOne(Sent(e, m)) /\ \A n \in ToSet(Sent(e, m)) : n = m /\ m.streams \cap resetting[e] = {}
<1>1. ToSet(<< >>) = {} /\ ToSet(<<m>>) = {m}
  BY DEF ToSet
<1> QED
  BY <1>1 DEF AtMostOne, Sent

LEMMA MessagesMade ==
  /\ \A s \in Streams, f \in Nat : Control("Open", s, f) \in Message /\ Control("Ack", s, f) \in Message
  /\ \A s \in Streams, f \in Nat, ordered, open \in BOOLEAN : Data(s, f, ordered, open) \in Message
  /\ \A P \in SUBSET Streams : Reset(P) \in Message
BY DEF Control, Data, Reset, Message

LEMMA RequestMade ==
  ASSUME NEW e \in Endpoints, NEW P \in SUBSET Streams
  PROVE  /\ AtMostOne(ResetRequest(e, P))
         /\ \A n \in ToSet(ResetRequest(e, P)) : n = Reset(P) /\ P # {} /\ resetting[e] = {}
<1>1. ToSet(<< >>) = {} /\ ToSet(<<Reset(P)>>) = {Reset(P)} /\ Reset(P) \in Message
  BY MessagesMade DEF ToSet
<1> QED
  BY <1>1 DEF AtMostOne, ResetRequest, Refuses

LEMMA WireTypesKept ==
  ASSUME WireTypes, NEW e \in Endpoints, NEW w, FromWire(w), NEW t, AtMostOne(t), wire' = [w EXCEPT ![Peer(e)] = @ \o t],
         Handles \subseteq Handles',
         \A n \in ToSet(t) : n.kind # "Reset" => n.from \in Handles' /\ \E s \in Streams : n.streams = {s},
         \A n \in ToSet(t) : n.kind = "Reset" => n.from = 0
  PROVE  WireTypes'
<1>1. /\ wire' \in [Endpoints -> Seq(Message)]
      /\ OnWire(e)' \subseteq OnWire(e) /\ OnWire(Peer(e))' \subseteq OnWire(Peer(e)) \cup ToSet(t)
  BY Transmitted
<1>2. \A q \in Endpoints : OnWire(q)' \subseteq OnWire(q) \cup ToSet(t)
  BY <1>1, Both
<1> QED
  BY <1>1, <1>2 DEF WireTypes, FromHandle

\* Nothing new is asked for when no reset is sent.
LEMMA AsksKept ==
  ASSUME UNCHANGED pending, \A q \in Endpoints : \A m \in OnWire(q)' : m.kind = "Reset" => m \in OnWire(q)
  PROVE  \A q \in Endpoints : \A s : (Asks(q, s)' => Asks(q, s)) /\ (Twice(q, s)' => Twice(q, s))
<1>1. \A q \in Endpoints : \A s : Requested(q, s)' => Requested(q, s)
  BY Both DEF Requested
<1> QED
  BY <1>1 DEF Asks, Twice

LEMMA ResetsSent ==
  ASSUME WireTypes, ChannelTypes, NEW e \in Endpoints, NEW P \in SUBSET Streams, SendResets(e, P),
         NEW w, FromWire(w), wire' = [w EXCEPT ![Peer(e)] = @ \o ResetRequest(e, P)]
  PROVE  /\ pending' \in [Endpoints -> SUBSET Streams] /\ resetting' \in [Endpoints -> SUBSET Streams]
         /\ \A s : /\ Asks(e, s)' => s \in P \/ Requested(e, s)
                   /\ Twice(e, s)' => s \in P /\ Requested(e, s)
                   /\ Asks(Peer(e), s)' => Asks(Peer(e), s)
                   /\ Twice(Peer(e), s)' => Twice(Peer(e), s)
         /\ \A q \in Endpoints : \A m \in OnWire(q)' : m \in OnWire(q) \/ m.kind = "Reset"
<1>1. Peer(e) \in Endpoints /\ Peer(e) # e /\ Peer(Peer(e)) = e
  BY Both
<1>2. /\ pending' = [pending EXCEPT ![e] = StillPending(e, P)]
      /\ resetting' = [resetting EXCEPT ![e] = NowResetting(e, P)]
  BY DEF SendResets
<1>3. /\ pending' \in [Endpoints -> SUBSET Streams] /\ resetting' \in [Endpoints -> SUBSET Streams]
      /\ pending'[e] = StillPending(e, P) /\ pending'[Peer(e)] = pending[Peer(e)]
  BY <1>1, <1>2 DEF ChannelTypes, StillPending, NowResetting
<1>4. /\ OnWire(e)' \subseteq OnWire(e)
      /\ OnWire(Peer(e))' \subseteq OnWire(Peer(e)) \cup ToSet(ResetRequest(e, P))
  BY RequestMade, Transmitted
<1>5. \A s : Requested(Peer(e), s)' => Requested(Peer(e), s)
  BY <1>1, <1>4 DEF Requested
<1>6. \A s : Requested(e, s)' => Requested(e, s) \/ (s \in P /\ ~ Refuses(e))
  <2> SUFFICES ASSUME NEW s, Requested(e, s)', ~ Requested(e, s) PROVE s \in P /\ ~ Refuses(e)
    OBVIOUS
  <2>1. PICK m \in ToSet(ResetRequest(e, P)) : m.kind = "Reset" /\ s \in m.streams
    BY <1>4 DEF Requested
  <2>2. m = Reset(P) /\ resetting[e] = {}
    BY RequestMade
  <2> QED
    BY <2>1, <2>2 DEF Refuses, Reset
<1>7. \A s : s \in pending'[e] => s \in P /\ Refuses(e)
  BY <1>3 DEF StillPending
<1>8. \A s : /\ Asks(e, s)' => s \in P \/ Requested(e, s)
             /\ Twice(e, s)' => s \in P /\ Requested(e, s)
  BY <1>6, <1>7 DEF Asks, Twice
<1>9. \A s : (Asks(Peer(e), s)' => Asks(Peer(e), s)) /\ (Twice(Peer(e), s)' => Twice(Peer(e), s))
  BY <1>3, <1>5 DEF Asks, Twice
<1>10. \A q \in Endpoints : \A m \in OnWire(q)' : m \in OnWire(q) \/ m.kind = "Reset"
  <2>1. \A m \in ToSet(ResetRequest(e, P)) : m.kind = "Reset"
    BY RequestMade DEF Reset
  <2> QED
    BY <2>1, <1>4, Both
<1> QED
  BY <1>3, <1>8, <1>9, <1>10
-----------------------------------------------------------------------------
(***************************************************************************)
(* The types are kept, one lemma for what several actions do and one for   *)
(* each group of actions.                                                  *)
(***************************************************************************)
LEMMA ElementsIn ==
  ASSUME NEW S, NEW T, NEW w \in Seq(S), \A i \in 1 .. Len(w) : w[i] \in T
  PROVE  w \in Seq(T)
OBVIOUS

LEMMA RecordOf == ASSUME TypeInv, NEW h \in Handles PROVE handles[h] \in HandleRecord /\ h \in Nat
<1>1. handles \in Seq(HandleRecord) /\ h \in 1 .. Len(handles)
  BY DEF TypeInv, HandleTypes, Handles
<1> QED
  BY <1>1

LEMMA SessionKeepsTypes ==
  ASSUME TypeInv, NEW e \in Endpoints, Session(e) PROVE TypeInv'
<1>1. UNCHANGED <<wire, resetting, answered, channels, pending, actions, handles, stage, inbox, messages, closes>>
  BY DEF Session, SetRemoteDescription, HandleTransportConnected, AssocChange, association, handleVars
<1>2. assoc' \in [Endpoints -> {"Disconnected", "Connecting", "Connected"}]
      /\ described' \in [Endpoints -> BOOLEAN] /\ client' \in [Endpoints -> BOOLEAN]
  BY DEF TypeInv, SessionTypes, Session, SetRemoteDescription, HandleTransportConnected, AssocChange
<1>3. WireTypes' /\ ActionTypes'
  BY <1>1 DEF TypeInv, WireTypes, ActionTypes, OnWire, FromHandle, Handles
<1>4. ChannelTypes' /\ HandleTypes'
  BY <1>1 DEF TypeInv, ChannelTypes, HandleTypes, HandleAt, Handles
<1> QED
  BY <1>1, <1>2, <1>3, <1>4 DEF TypeInv, SessionTypes

LEMMA ActionTypesKept ==
  ASSUME ActionTypes, UNCHANGED actions, Handles \subseteq Handles' PROVE ActionTypes'
BY DEF ActionTypes

LEMMA CreateKeepsTypes ==
  ASSUME TypeInv, NEW e \in Endpoints, NEW ordered \in Orderings, CreateDataChannel(e, ordered) PROVE TypeInv'
<1> DEFINE h     == Len(handles) + 1
           state == IF assoc[e] = "Connected" THEN "Connecting" ELSE "Closed"
<1>1. PICK s \in FreeIds(e) :
        /\ handles' = Append(handles, Handle(e, s, state, ordered, h))
        /\ stage' = Append(stage, state) /\ inbox' = Append(inbox, << >>)
        /\ channels' = [channels EXCEPT ![e] = Put(@, s, Channel(state, h))]
        /\ IF assoc[e] = "Connected" THEN Transmit(e, Sent(e, Control("Open", s, h))) ELSE UNCHANGED wire
  BY DEF CreateDataChannel
<1>2. UNCHANGED <<resetting, answered, assoc, described, client, pending, actions, messages, closes>>
  BY DEF CreateDataChannel
<1>3. s \in Streams /\ state \in States /\ ordered \in BOOLEAN /\ h \in Nat
  BY ChannelAssumption DEF FreeIds, States, TypeInv, HandleTypes
<1>4. Channel(state, h) \in ChannelRecord /\ Handle(e, s, state, ordered, h) \in HandleRecord
      /\ Handle(e, s, state, ordered, h).opener = h /\ Channel(state, h).handle = h
  BY <1>3 DEF Channel, ChannelRecord, Handle, HandleRecord
<1> DEFINE c == Channel(state, h)
<1> HIDE DEF state
<1>5. HandleTypes' /\ Handles' = Handles \cup {h}
  BY <1>1, <1>3, <1>4, HandleAdded DEF TypeInv
<1>6. ChannelTypes'
  <2>0. /\ c \in ChannelRecord /\ c.handle = h
        /\ channels' = [channels EXCEPT ![e] = Put(@, s, c)] /\ channels \in [Endpoints -> ChannelMaps]
    BY <1>1, <1>4 DEF TypeInv, ChannelTypes
  <2> HIDE DEF c, h
  <2>1. /\ channels' \in [Endpoints -> ChannelMaps] /\ HandleAt(e, s)' = h
        /\ \A q \in Endpoints : \A t : q # e \/ t # s =>
             Holds(q, t)' = Holds(q, t) /\ (Holds(q, t) => HandleAt(q, t)' = HandleAt(q, t))
    BY <2>0, <1>3, ChannelPut
  <2>2. \A q \in Endpoints : \A t \in DOMAIN channels'[q] : HandleAt(q, t)' \in Handles'
    BY <2>1, <1>5 DEF TypeInv, ChannelTypes, Holds
  <2> QED
    BY <2>1, <2>2, <1>2 DEF TypeInv, ChannelTypes
<1>7. WireTypes'
  <2>1. CASE assoc[e] = "Connected"
    <3> DEFINE t == Sent(e, Control("Open", s, h))
    <3>1. AtMostOne(t) /\ \A n \in ToSet(t) : n = Control("Open", s, h)
      BY <1>3, MessagesMade, SentMessage
    <3>2. wire' = [wire EXCEPT ![Peer(e)] = @ \o t] /\ FromWire(wire)
      BY <1>1, <2>1, WireItself DEF Transmit, TypeInv
    <3> DEFINE m == Control("Open", s, h)
    <3>3. m.kind = "Open" /\ m.from = h /\ m.streams = {s}
      BY DEF Control
    <3> HIDE DEF t, m
    <3>4. \A n \in ToSet(t) : n.kind # "Reset" /\ n.from \in Handles' /\ \E x \in Streams : n.streams = {x}
      <4>1. m.from \in Handles'
        BY <3>3, <1>5
      <4>2. \A n \in ToSet(t) : n = m
        BY <3>1 DEF m
      <4> QED
        BY <4>1, <4>2, <3>3, <1>3
    <3> QED
      BY <3>1, <3>2, <3>4, <1>5, WireTypesKept DEF TypeInv
  <2>2. CASE assoc[e] # "Connected"
    BY <2>2, <1>1, <1>5 DEF TypeInv, WireTypes, OnWire, FromHandle
  <2> QED
    BY <2>1, <2>2
<1>8. ActionTypes' /\ SessionTypes'
  BY <1>2, <1>5, ActionTypesKept DEF TypeInv, SessionTypes
<1> QED
  BY <1>5, <1>6, <1>7, <1>8 DEF TypeInv

LEMMA Enqueued ==
  ASSUME TypeInv, NEW h \in Handles, NEW kind \in {"SendMessage", "Close"}, Enqueue(handles[h].at, kind, handles[h].id, h)
  PROVE  /\ actions' \in [Endpoints -> Seq(ActionRecord)]
         /\ \A q \in Endpoints : \A a \in ToSet(actions'[q]) :
              a \in ToSet(actions[q]) \/ (q = handles[h].at /\ a.id = handles[h].id /\ a.handle = h)
<1> DEFINE n == [kind |-> kind, id |-> handles[h].id, handle |-> h]
<1>1. handles[h].at \in Endpoints /\ handles[h].id \in Streams /\ h \in Nat
  BY RecordOf DEF HandleRecord
<1>2. n \in ActionRecord /\ n.id = handles[h].id /\ n.handle = h
  BY <1>1 DEF ActionRecord
<1>3. actions' = [actions EXCEPT ![handles[h].at] = Append(@, n)]
  BY DEF Enqueue
<1> HIDE DEF n
<1>4. \A q \in Endpoints : actions[q] \in Seq(ActionRecord)
  BY DEF TypeInv, ActionTypes
<1>5. actions' \in [Endpoints -> Seq(ActionRecord)]
  BY <1>1, <1>2, <1>3 DEF TypeInv, ActionTypes
<1>6. \A q \in Endpoints : actions'[q] = IF q = handles[h].at THEN Append(actions[q], n) ELSE actions[q]
  BY <1>1, <1>3 DEF TypeInv, ActionTypes
<1>7. ASSUME NEW q \in Endpoints, NEW a \in ToSet(actions'[q]) PROVE a \in ToSet(actions[q]) \/ (q = handles[h].at /\ a = n)
  <2>1. CASE q = handles[h].at
    <3>1. ToSet(actions'[q]) = ToSet(actions[q]) \cup {n}
      <4>1. Append(actions[q], n) = actions[q] \o <<n>>
        BY <1>2, <1>4, AppendIsConcat
      <4>2. actions'[q] = actions[q] \o <<n>>
        BY <4>1, <2>1, <1>6
      <4>3. ToSet(actions[q] \o <<n>>) = ToSet(actions[q]) \cup {n}
        BY <1>2, <1>4, AppendedElements
      <4> QED
        BY <4>2, <4>3
    <3> QED
      BY <3>1, <2>1, <1>7
  <2>2. CASE q # handles[h].at
    BY <2>2, <1>6, <1>7
  <2> QED
    BY <2>1, <2>2
<1> QED
  BY <1>2, <1>5, <1>7

\* A call changes nothing of a handle but what the application did with it.
LEMMA HeldChanged ==
  ASSUME TypeInv, NEW h \in Handles, NEW k \in {"closed", "dropped"}, handles' = [handles EXCEPT ![h].held = k],
         UNCHANGED <<stage, inbox>>
  PROVE  /\ HandleTypes' /\ Handles' = Handles
         /\ \A g \in Handles : /\ handles'[g].at = handles[g].at /\ handles'[g].id = handles[g].id
                               /\ handles'[g].opener = handles[g].opener /\ handles'[g].state = handles[g].state
<1>1. handles \in Seq(HandleRecord) /\ h \in 1 .. Len(handles) /\ handles[h] \in HandleRecord
  BY DEF TypeInv, HandleTypes, Handles
<1> DEFINE r == [handles[h] EXCEPT !.held = k]
<1>2. /\ r \in HandleRecord /\ r.at = handles[h].at /\ r.id = handles[h].id
      /\ r.opener = handles[h].opener /\ r.state = handles[h].state
  BY <1>1 DEF HandleRecord
<1>3. handles' = [handles EXCEPT ![h] = r]
  OBVIOUS
<1> HIDE DEF r
<1>4. /\ handles' \in Seq(HandleRecord) /\ Len(handles') = Len(handles)
      /\ \A g \in Handles : handles'[g] = IF g = h THEN r ELSE handles[g]
  BY <1>1, <1>2, <1>3, ExceptSeq DEF Handles
<1>5. Handles' = Handles
  BY <1>4 DEF Handles
<1>6. \A g \in Handles : /\ handles'[g].at = handles[g].at /\ handles'[g].id = handles[g].id
                         /\ handles'[g].opener = handles[g].opener /\ handles'[g].state = handles[g].state
  BY <1>2, <1>4
<1>7. HandleTypes'
  BY <1>4, <1>5, <1>6 DEF TypeInv, HandleTypes
<1> QED
  BY <1>5, <1>6, <1>7

LEMMA CallKeepsTypes ==
  ASSUME TypeInv, NEW h \in Handles, SendMessage(h) \/ Close(h) \/ Drop(h) PROVE TypeInv'
<1>1. UNCHANGED <<wire, resetting, answered, assoc, described, client, channels, pending, stage, inbox>>
  BY DEF SendMessage, Close, Drop, association
<1>2. HandleTypes' /\ Handles' = Handles
  <2>1. CASE SendMessage(h)
    BY <2>1, <1>1 DEF SendMessage, TypeInv, HandleTypes, Handles
  <2>2. CASE Close(h)
    BY <2>2, <1>1, HeldChanged DEF Close
  <2>3. CASE Drop(h)
    BY <2>3, <1>1, HeldChanged DEF Drop
  <2> QED
    BY <2>1, <2>2, <2>3
<1>3. ActionTypes'
  <2>1. CASE UNCHANGED actions
    BY <2>1, <1>2, ActionTypesKept DEF TypeInv
  <2>2. ASSUME NEW kind \in {"SendMessage", "Close"}, Enqueue(handles[h].at, kind, handles[h].id, h) PROVE ActionTypes'
    <3>1. /\ actions' \in [Endpoints -> Seq(ActionRecord)]
          /\ \A q \in Endpoints : \A a \in ToSet(actions'[q]) : a \in ToSet(actions[q]) \/ a.handle = h
      BY <2>2, Enqueued
    <3> QED
      BY <3>1, <1>2 DEF TypeInv, ActionTypes
  <2> QED
    BY <2>1, <2>2 DEF SendMessage, Close, Drop
<1>4. SessionTypes'
  BY <1>1, ChannelAssumption DEF TypeInv, SessionTypes, SendMessage, Close, Drop
<1>5. WireTypes' /\ ChannelTypes'
  BY <1>1, <1>2 DEF TypeInv, WireTypes, ChannelTypes, OnWire, FromHandle, HandleAt
<1> QED
  BY <1>2, <1>3, <1>4, <1>5 DEF TypeInv

\* close_datachannel_locally: a channel that can close starts to.
LEMMA ClosedLocally ==
  ASSUME TypeInv, NEW e \in Endpoints, NEW s \in Streams, NEW w, FromWire(w), Closable(e, s), CloseLocally(e, s, w),
         UNCHANGED <<handles, inbox>>
  PROVE  /\ WireTypes' /\ ChannelTypes' /\ HandleTypes' /\ Handles' = Handles
         /\ \A q \in Endpoints : \A t :
              /\ Holds(q, t)' = Holds(q, t)
              /\ Holds(q, t) => HandleAt(q, t)' = HandleAt(q, t)
              /\ Holds(q, t) => StateAt(q, t)' = IF q = e /\ t = s THEN "Closing" ELSE StateAt(q, t)
         /\ Holds(e, s) /\ StateAt(e, s) \in {"Connecting", "Open"} /\ HandleAt(e, s) \in Handles
         /\ stage'[HandleAt(e, s)] = "Closing" /\ \A h \in Handles : h # HandleAt(e, s) => stage'[h] = stage[h]
         /\ \A q \in Endpoints : \A m \in OnWire(q)' : m \in OnWire(q) \/ m.kind = "Reset"
         /\ \A t : /\ Asks(e, t)' => Asks(e, t) \/ t = s
                   /\ Twice(e, t)' => Twice(e, t) \/ (t = s /\ Asks(e, s))
                   /\ Asks(Peer(e), t)' => Asks(Peer(e), t)
                   /\ Twice(Peer(e), t)' => Twice(Peer(e), t)
<1> DEFINE P == pending[e] \cup {s}
<1>1. P \in SUBSET Streams
  BY DEF TypeInv, ChannelTypes
<1>2. Holds(e, s) /\ StateAt(e, s) \in {"Connecting", "Open"} /\ HandleAt(e, s) \in Handles
  BY DEF Closable, Holds, StateAt, TypeInv, ChannelTypes
<1>3. /\ channels' = [channels EXCEPT ![e][s].state = "Closing"]
      /\ stage' = [stage EXCEPT ![HandleAt(e, s)] = "Closing"]
      /\ SendResets(e, P) /\ wire' = [w EXCEPT ![Peer(e)] = @ \o ResetRequest(e, P)]
  BY DEF CloseLocally, ClosedChannels, HandleAt
<1> HIDE DEF P
<1>4. /\ channels' \in [Endpoints -> ChannelMaps]
      /\ \A q \in Endpoints : \A t :
           /\ Holds(q, t)' = Holds(q, t)
           /\ Holds(q, t) => HandleAt(q, t)' = HandleAt(q, t)
           /\ Holds(q, t) => StateAt(q, t)' = IF q = e /\ t = s THEN "Closing" ELSE StateAt(q, t)
  <2>1. "Closing" \in States /\ channels \in [Endpoints -> ChannelMaps]
    BY DEF TypeInv, ChannelTypes, States
  <2>2. ChangesState(e, s, "Closing")
    BY <1>3 DEF ChangesState
  <2> QED
    BY <2>1, <2>2, <1>2, StateChanged
<1>5. /\ HandleTypes' /\ Handles' = Handles
      /\ stage'[HandleAt(e, s)] = "Closing" /\ \A h \in Handles : h # HandleAt(e, s) => stage'[h] = stage[h]
  BY <1>2, <1>3, StageReported DEF TypeInv, States
<1>6. /\ pending' \in [Endpoints -> SUBSET Streams] /\ resetting' \in [Endpoints -> SUBSET Streams]
      /\ \A t : /\ Asks(e, t)' => t \in P \/ Requested(e, t)
                /\ Twice(e, t)' => t \in P /\ Requested(e, t)
                /\ Asks(Peer(e), t)' => Asks(Peer(e), t)
                /\ Twice(Peer(e), t)' => Twice(Peer(e), t)
      /\ \A q \in Endpoints : \A m \in OnWire(q)' : m \in OnWire(q) \/ m.kind = "Reset"
  BY <1>1, <1>3, ResetsSent DEF TypeInv
<1>7. /\ \A t : Asks(e, t)' => Asks(e, t) \/ t = s
      /\ \A t : Twice(e, t)' => Twice(e, t) \/ (t = s /\ Asks(e, s))
  BY <1>6 DEF P, Asks, Twice
<1>8. ChannelTypes'
  <2>1. \A q \in Endpoints : \A t \in DOMAIN channels'[q] : HandleAt(q, t)' \in Handles'
    BY <1>4, <1>5 DEF TypeInv, ChannelTypes, Holds
  <2> QED
    BY <2>1, <1>4, <1>6 DEF ChannelTypes
<1>9. WireTypes'
  <2>1. AtMostOne(ResetRequest(e, P)) /\ \A n \in ToSet(ResetRequest(e, P)) : n.kind = "Reset" /\ n.from = 0
    BY <1>1, RequestMade DEF Reset
  <2> QED
    BY <2>1, <1>3, <1>5, WireTypesKept DEF TypeInv
<1> QED
  BY <1>2, <1>4, <1>5, <1>6, <1>7, <1>8, <1>9

\* Types of what is not on the wire when only messages come and go.
LEMMA OthersKeepTypes ==
  ASSUME TypeInv, UNCHANGED <<channels, pending, resetting, handles, stage, inbox>>
  PROVE  ChannelTypes' /\ HandleTypes' /\ Handles' = Handles
BY DEF TypeInv, ChannelTypes, HandleTypes, Handles, HandleAt

LEMMA FirstAction ==
  ASSUME TypeInv, NEW e \in Endpoints, actions[e] # << >>, actions' = [actions EXCEPT ![e] = Tail(@)]
  PROVE  /\ Head(actions[e]) \in ActionRecord /\ Head(actions[e]) \in ToSet(actions[e])
         /\ actions' \in [Endpoints -> Seq(ActionRecord)]
         /\ \A q \in Endpoints : ToSet(actions'[q]) \subseteq ToSet(actions[q])
<1>1. actions[e] \in Seq(ActionRecord) /\ actions \in [Endpoints -> Seq(ActionRecord)]
  BY DEF TypeInv, ActionTypes
<1>2. /\ Head(actions[e]) \in ActionRecord /\ Tail(actions[e]) \in Seq(ActionRecord) /\ Len(actions[e]) \in Nat \ {0}
      /\ Head(actions[e]) = actions[e][1] /\ Len(Tail(actions[e])) = Len(actions[e]) - 1
      /\ \A i \in 1 .. Len(actions[e]) - 1 : Tail(actions[e])[i] = actions[e][i + 1]
  BY <1>1
<1>3. /\ ToSet(actions[e]) = {actions[e][i] : i \in 1 .. Len(actions[e])}
      /\ ToSet(Tail(actions[e])) = {Tail(actions[e])[i] : i \in 1 .. Len(Tail(actions[e]))}
  <2>1. ToSet(actions[e]) = {actions[e][i] : i \in 1 .. Len(actions[e])}
    BY <1>1, Elements
  <2> DEFINE b == Tail(actions[e])
  <2>2. b \in Seq(ActionRecord)
    BY <1>2
  <2> HIDE DEF b
  <2>3. ToSet(b) = {b[i] : i \in 1 .. Len(b)}
    BY <2>2, Elements
  <2> QED
    BY <2>1, <2>3 DEF b
<1>4. Head(actions[e]) \in ToSet(actions[e])
  BY <1>2, <1>3
<1>5. ToSet(Tail(actions[e])) \subseteq ToSet(actions[e])
  <2> SUFFICES ASSUME NEW i \in 1 .. Len(actions[e]) - 1 PROVE actions[e][i + 1] \in ToSet(actions[e])
    BY <1>2, <1>3
  <2>1. i + 1 \in 1 .. Len(actions[e])
    BY <1>2
  <2> QED
    BY <2>1, <1>3
<1>6. actions'[e] = Tail(actions[e]) /\ \A q \in Endpoints : q # e => actions'[q] = actions[q]
  BY <1>1
<1> QED
  BY <1>1, <1>2, <1>4, <1>5, <1>6

\* The handle of an action sends its message on the stream it was given.
LEMMA MessageSent ==
  ASSUME TypeInv, NEW e \in Endpoints, NEW s \in Streams, NEW h \in Handles, NEW ordered \in BOOLEAN, NEW open \in BOOLEAN,
         Transmit(e, Sent(e, Data(s, h, ordered, open))), UNCHANGED handles
  PROVE  /\ WireTypes' /\ OnWire(e)' \subseteq OnWire(e)
         /\ \A m \in OnWire(Peer(e))' : m \in OnWire(Peer(e)) \/ (m = Data(s, h, ordered, open) /\ s \notin resetting[e])
         /\ WireOrder /\ (\A m \in OnWire(Peer(e)) : m.kind = "Reset" => m.streams = resetting[e]) => WireOrder'
<1> DEFINE d == Data(s, h, ordered, open)
           t == Sent(e, d)
<1>1. h \in Nat
  BY RecordOf
<1>2. d \in Message /\ d.kind = "Data" /\ d.streams = {s} /\ d.from = h
  BY <1>1, MessagesMade DEF Data
<1> HIDE DEF d
<1>3. AtMostOne(t) /\ \A n \in ToSet(t) : n = d /\ d.streams \cap resetting[e] = {}
  BY <1>2, SentMessage
<1>4. wire' = [wire EXCEPT ![Peer(e)] = @ \o t] /\ FromWire(wire)
  BY WireItself DEF Transmit, TypeInv, d
<1> HIDE DEF t
<1>5. /\ OnWire(e)' \subseteq OnWire(e) /\ OnWire(Peer(e))' \subseteq OnWire(Peer(e)) \cup ToSet(t)
      /\ WireOrder /\ (\A m \in OnWire(Peer(e)), n \in ToSet(t) : Before(m, n)) => WireOrder'
  BY <1>3, <1>4, Transmitted DEF TypeInv
<1>6. WireTypes'
  <2>1. Handles' = Handles
    BY DEF Handles
  <2>2. \A n \in ToSet(t) : n.kind # "Reset" /\ n.from \in Handles' /\ \E x \in Streams : n.streams = {x}
    BY <2>1, <1>2, <1>3
  <2> QED
    BY <2>1, <2>2, <1>3, <1>4, WireTypesKept DEF TypeInv
<1>7. \A m \in OnWire(Peer(e))' : m \in OnWire(Peer(e)) \/ (m = d /\ s \notin resetting[e])
  BY <1>2, <1>3, <1>5
<1>8. ASSUME \A m \in OnWire(Peer(e)) : m.kind = "Reset" => m.streams = resetting[e]
      PROVE  \A m \in OnWire(Peer(e)), n \in ToSet(t) : Before(m, n)
  BY <1>2, <1>3, <1>8 DEF Before
<1> QED
  BY <1>5, <1>6, <1>7, <1>8 DEF d

\* An open is accepted: a handle and its channel appear and an
\* acknowledgement is sent.
LEMMA OpenAccepted ==
  ASSUME TypeInv, NEW e \in Endpoints, NEW s \in Streams, NEW m \in Message, m.from \in Handles,
         NEW w, FromWire(w), Accept(e, m, s, w)
  PROVE  LET n == Len(handles) + 1 IN
         /\ WireTypes' /\ ChannelTypes' /\ HandleTypes'
         /\ Handles' = Handles \cup {n} /\ n \notin Handles
         /\ handles'[n].opener = m.from /\ handles'[n].at = e /\ handles'[n].id = s
         /\ \A h \in Handles : handles'[h] = handles[h] /\ stage'[h] = stage[h] /\ inbox'[h] = inbox[h]
         /\ stage'[n] = "Open" /\ inbox'[n] = << >>
         /\ Holds(e, s)' /\ HandleAt(e, s)' = n /\ StateAt(e, s)' = "Open"
         /\ \A q \in Endpoints : \A t : q # e \/ t # s =>
              /\ Holds(q, t)' = Holds(q, t)
              /\ Holds(q, t) => HandleAt(q, t)' = HandleAt(q, t) /\ StateAt(q, t)' = StateAt(q, t)
         /\ OnWire(e)' = ToSet(w[e]) /\ OnWire(e)' \subseteq OnWire(e)
         /\ \A k \in OnWire(Peer(e))' : k \in OnWire(Peer(e)) \/ (k = Control("Ack", s, m.from) /\ s \notin resetting[e])
         /\ WireOrder /\ (\A k \in OnWire(Peer(e)) : k.kind = "Reset" => k.streams = resetting[e]) => WireOrder'
<1> DEFINE n == Len(handles) + 1
           r == Handle(e, s, "Open", handles[m.from].ordered, m.from)
           c == Channel("Open", n)
           a == Control("Ack", s, m.from)
           t == Sent(e, a)
<1>1. handles[m.from] \in HandleRecord /\ m.from \in Nat /\ n \in Nat
  BY RecordOf DEF TypeInv, HandleTypes
<1>2. /\ r \in HandleRecord /\ r.opener = m.from /\ r.at = e /\ r.id = s
      /\ c \in ChannelRecord /\ c.handle = n /\ c.state = "Open"
  BY <1>1 DEF HandleRecord, Handle, States, ChannelRecord, Channel
<1>3. a \in Message /\ a.kind = "Ack" /\ a.streams = {s} /\ a.from = m.from
  BY <1>1, MessagesMade DEF Control
<1>4. /\ handles' = Append(handles, r) /\ stage' = Append(stage, "Open") /\ inbox' = Append(inbox, << >>)
      /\ channels' = [channels EXCEPT ![e] = Put(@, s, c)] /\ wire' = [w EXCEPT ![Peer(e)] = @ \o t]
  BY DEF Accept
<1>5. UNCHANGED <<resetting, pending>>
  BY DEF Accept
<1> HIDE DEF n, r, c, a, t
<1>6. /\ HandleTypes' /\ Handles' = Handles \cup {n} /\ n \notin Handles
      /\ handles'[n] = r /\ \A h \in Handles : handles'[h] = handles[h] /\ stage'[h] = stage[h] /\ inbox'[h] = inbox[h]
      /\ stage'[n] = "Open" /\ inbox'[n] = << >>
  <2>1. r \in HandleRecord /\ "Open" \in States /\ r.opener \in Handles \cup {n} /\ HandleTypes
    BY <1>2 DEF States, TypeInv
  <2> QED
    BY <2>1, <1>4, HandleAdded DEF n
<1>7. /\ channels' \in [Endpoints -> ChannelMaps] /\ Holds(e, s)' /\ HandleAt(e, s)' = n /\ StateAt(e, s)' = "Open"
      /\ \A q \in Endpoints : \A x : q # e \/ x # s =>
           /\ Holds(q, x)' = Holds(q, x)
           /\ Holds(q, x) => HandleAt(q, x)' = HandleAt(q, x) /\ StateAt(q, x)' = StateAt(q, x)
  <2>1. channels \in [Endpoints -> ChannelMaps]
    BY DEF TypeInv, ChannelTypes
  <2> QED
    BY <2>1, <1>2, <1>4, ChannelPut
<1>8. ChannelTypes'
  <2>1. \A q \in Endpoints : \A x \in DOMAIN channels'[q] : HandleAt(q, x)' \in Handles'
    BY <1>6, <1>7 DEF TypeInv, ChannelTypes, Holds
  <2> QED
    BY <2>1, <1>5, <1>7 DEF TypeInv, ChannelTypes
<1>9. AtMostOne(t) /\ \A k \in ToSet(t) : k = a /\ s \notin resetting[e]
  <2>1. AtMostOne(t) /\ \A k \in ToSet(t) : k = a /\ a.streams \cap resetting[e] = {}
    BY <1>3, SentMessage DEF t
  <2> QED
    BY <2>1, <1>3
<1>10. /\ OnWire(e)' = ToSet(w[e]) /\ OnWire(e)' \subseteq OnWire(e) /\ OnWire(Peer(e))' \subseteq OnWire(Peer(e)) \cup ToSet(t)
       /\ WireOrder /\ (\A k \in OnWire(Peer(e)), j \in ToSet(t) : Before(k, j)) => WireOrder'
  BY <1>4, <1>9, Transmitted DEF TypeInv
<1>11. WireTypes'
  <2>1. Handles \subseteq Handles' /\ m.from \in Handles'
    BY <1>6
  <2>2. \A k \in ToSet(t) : k.kind # "Reset" /\ k.from \in Handles' /\ \E x \in Streams : k.streams = {x}
    BY <2>1, <1>3, <1>9
  <2> QED
    BY <2>1, <2>2, <1>4, <1>9, WireTypesKept DEF TypeInv
<1>12. \A k \in OnWire(Peer(e))' : k \in OnWire(Peer(e)) \/ (k = a /\ s \notin resetting[e])
  BY <1>9, <1>10
<1>13. ASSUME \A k \in OnWire(Peer(e)) : k.kind = "Reset" => k.streams = resetting[e]
       PROVE  \A k \in OnWire(Peer(e)), j \in ToSet(t) : Before(k, j)
  BY <1>3, <1>9, <1>13 DEF Before
<1>14. WireOrder /\ (\A k \in OnWire(Peer(e)) : k.kind = "Reset" => k.streams = resetting[e]) => WireOrder'
  BY <1>10, <1>13
<1>15. handles'[n].opener = m.from /\ handles'[n].at = e /\ handles'[n].id = s
  BY <1>2, <1>6
<1> QED
  BY <1>6, <1>7, <1>8, <1>10, <1>11, <1>12, <1>14, <1>15 DEF n, a

\* An acknowledgement opens the channel that connects.
LEMMA AckOpens ==
  ASSUME TypeInv, NEW e \in Endpoints, NEW s \in Streams, Holds(e, s),
         channels' = [channels EXCEPT ![e][s].state = "Open"],
         stage' = [stage EXCEPT ![channels[e][s].handle] = "Open"],
         UNCHANGED <<resetting, pending, handles, inbox>>
  PROVE  /\ ChannelTypes' /\ HandleTypes' /\ Handles' = Handles
         /\ \A q \in Endpoints : \A t :
              /\ Holds(q, t)' = Holds(q, t)
              /\ Holds(q, t) => HandleAt(q, t)' = HandleAt(q, t)
              /\ Holds(q, t) => StateAt(q, t)' = IF q = e /\ t = s THEN "Open" ELSE StateAt(q, t)
         /\ stage'[HandleAt(e, s)] = "Open" /\ \A h \in Handles : h # HandleAt(e, s) => stage'[h] = stage[h]
<1>1. "Open" \in States /\ channels \in [Endpoints -> ChannelMaps] /\ HandleAt(e, s) \in Handles
  BY DEF TypeInv, ChannelTypes, States, Holds
<1>2. /\ channels' \in [Endpoints -> ChannelMaps]
      /\ \A q \in Endpoints : \A t :
           /\ Holds(q, t)' = Holds(q, t)
           /\ Holds(q, t) => HandleAt(q, t)' = HandleAt(q, t)
           /\ Holds(q, t) => StateAt(q, t)' = IF q = e /\ t = s THEN "Open" ELSE StateAt(q, t)
  <2>1. ChangesState(e, s, "Open")
    BY DEF ChangesState
  <2> QED
    BY <2>1, <1>1, StateChanged
<1>3. /\ HandleTypes' /\ Handles' = Handles
      /\ stage'[HandleAt(e, s)] = "Open" /\ \A h \in Handles : h # HandleAt(e, s) => stage'[h] = stage[h]
  BY <1>1, StageReported DEF TypeInv, HandleAt
<1>4. \A q \in Endpoints : \A t \in DOMAIN channels'[q] : HandleAt(q, t)' \in Handles'
  BY <1>2, <1>3 DEF TypeInv, ChannelTypes, Holds
<1> QED
  BY <1>2, <1>3, <1>4 DEF TypeInv, ChannelTypes

\* A handle receives the message of another one.
Delivers(h, f, open) == inbox' = [inbox EXCEPT ![h] = Append(@, [from |-> f, open |-> open])]

LEMMA DataArrives ==
  ASSUME TypeInv, NEW h \in Handles, NEW f \in Handles, NEW open \in BOOLEAN,
         Delivers(h, f, open), UNCHANGED <<handles, stage>>
  PROVE  /\ HandleTypes' /\ Handles' = Handles
         /\ \A g \in Handles : \A i \in 1 .. Len(inbox'[g]) :
              \/ i \in 1 .. Len(inbox[g]) /\ inbox'[g][i] = inbox[g][i]
              \/ g = h /\ inbox'[g][i] = [from |-> f, open |-> open]
<1> DEFINE d == [from |-> f, open |-> open]
           b == Append(inbox[h], d)
<1>1. d \in Received /\ d.from = f
  BY RecordOf DEF Received
<1>2. inbox \in Seq(Seq(Received)) /\ h \in 1 .. Len(inbox) /\ inbox[h] \in Seq(Received)
  BY DEF TypeInv, HandleTypes, Handles
<1> HIDE DEF d
<1>3. /\ b \in Seq(Received) /\ Len(b) = Len(inbox[h]) + 1 /\ Len(inbox[h]) \in Nat
      /\ b[Len(inbox[h]) + 1] = d /\ \A i \in 1 .. Len(inbox[h]) : b[i] = inbox[h][i]
  BY <1>1, <1>2
<1> HIDE DEF b
<1>4. inbox' = [inbox EXCEPT ![h] = b]
  BY DEF b, d, Delivers
<1>5. inbox' \in Seq(Seq(Received)) /\ Len(inbox') = Len(inbox) /\ \A g \in Handles : inbox'[g] = IF g = h THEN b ELSE inbox[g]
  <2> DEFINE T == Seq(Received)
  <2>1. inbox \in Seq(T) /\ b \in T /\ h \in 1 .. Len(inbox) /\ Handles = 1 .. Len(inbox)
    BY <1>2, <1>3 DEF Handles, TypeInv, HandleTypes
  <2> HIDE DEF T
  <2>2. inbox' \in Seq(T) /\ Len(inbox') = Len(inbox) /\ \A g \in 1 .. Len(inbox) : inbox'[g] = IF g = h THEN b ELSE inbox[g]
    <3>1. LET x == [inbox EXCEPT ![h] = b] IN
          x \in Seq(T) /\ Len(x) = Len(inbox) /\ \A g \in 1 .. Len(inbox) : x[g] = IF g = h THEN b ELSE inbox[g]
      BY ONLY <2>1, ExceptSeq
    <3> QED
      BY <3>1, <1>4
  <2> QED
    BY <2>1, <2>2 DEF T
<1>6. \A g \in Handles : \A i \in 1 .. Len(inbox'[g]) :
        \/ i \in 1 .. Len(inbox[g]) /\ inbox'[g][i] = inbox[g][i]
        \/ g = h /\ inbox'[g][i] = d
  <2> SUFFICES ASSUME NEW g \in Handles, NEW i \in 1 .. Len(inbox'[g])
               PROVE  \/ i \in 1 .. Len(inbox[g]) /\ inbox'[g][i] = inbox[g][i]
                      \/ g = h /\ inbox'[g][i] = d
    OBVIOUS
  <2>1. CASE g # h
    BY <2>1, <1>5
  <2>2. CASE g = h
    <3>1. inbox'[g] = b /\ i \in 1 .. Len(inbox[h]) + 1
      BY <2>2, <1>3, <1>5
    <3> QED
      BY <3>1, <2>2, <1>3
  <2> QED
    BY <2>1, <2>2
<1>7. Handles' = Handles
  BY DEF Handles
<1>8. HandleTypes'
  BY <1>1, <1>5, <1>6, <1>7 DEF TypeInv, HandleTypes
<1> QED
  BY <1>6, <1>7, <1>8 DEF d

\* The peer resets the streams of R.
LEMMA ChannelsReset ==
  ASSUME TypeInv, NEW e \in Endpoints, NEW m \in Message, NEW w, FromWire(w), ReceiveReset(e, m, w)
  PROVE  /\ WireTypes' /\ ChannelTypes' /\ HandleTypes' /\ Handles' = Handles /\ UNCHANGED <<handles, inbox>>
         /\ \A q \in Endpoints : \A t :
              /\ Holds(q, t)' = (Holds(q, t) /\ ~ (q = e /\ t \in m.streams))
              /\ Holds(q, t)' => HandleAt(q, t)' = HandleAt(q, t) /\ StateAt(q, t)' = StateAt(q, t)
         /\ \A h \in Handles : stage'[h] = IF \E t \in m.streams : Holds(e, t) /\ h = HandleAt(e, t) THEN "Closed" ELSE stage[h]
         /\ DOMAIN stage' = Handles
         /\ OnWire(e)' = ToSet(w[e]) /\ OnWire(e)' \subseteq OnWire(e)
         /\ \A q \in Endpoints : \A k \in OnWire(q)' : k \in OnWire(q) \/ k.kind = "Reset"
         /\ \A t : /\ Asks(e, t)' => Asks(e, t)
                   /\ Twice(e, t)' => Twice(e, t)
<1> DEFINE gone == m.streams \cap DOMAIN channels[e]
           told == {channels[e][s].handle : s \in gone}
           P    == pending[e]
<1>1. /\ channels' = [channels EXCEPT ![e] = [s \in DOMAIN @ \ gone |-> @[s]]]
      /\ stage' = [h \in Handles |-> IF h \in told THEN "Closed" ELSE stage[h]]
      /\ SendResets(e, P) /\ wire' = [w EXCEPT ![Peer(e)] = @ \o ResetRequest(e, P)]
  BY DEF ReceiveReset
<1>2. UNCHANGED <<handles, inbox>> /\ P \in SUBSET Streams
  BY DEF ReceiveReset, TypeInv, ChannelTypes
<1>3. \A h : h \in told <=> \E t \in m.streams : Holds(e, t) /\ h = HandleAt(e, t)
  BY DEF Holds, HandleAt
<1> HIDE DEF told, P
<1>4. /\ channels' \in [Endpoints -> ChannelMaps]
      /\ \A q \in Endpoints : \A t :
           /\ Holds(q, t)' = (Holds(q, t) /\ ~ (q = e /\ t \in m.streams))
           /\ Holds(q, t)' => HandleAt(q, t)' = HandleAt(q, t) /\ StateAt(q, t)' = StateAt(q, t)
  <2>1. channels \in [Endpoints -> ChannelMaps]
    BY DEF TypeInv, ChannelTypes
  <2> HIDE DEF gone
  <2>2. gone = m.streams \cap DOMAIN channels[e]
    BY DEF gone
  <2> QED
    BY <2>1, <2>2, <1>1, ChannelsGone
<1>5. HandleTypes' /\ Handles' = Handles
  <2>1. Handles' = Handles
    BY <1>2 DEF Handles
  <2>2. Len(handles) \in Nat /\ stage \in [Handles -> States]
    BY DEF TypeInv, HandleTypes, Handles
  <2>3. stage' \in [1 .. Len(handles) -> States]
    BY <2>2, <1>1 DEF Handles, States
  <2>4. stage' \in Seq(States) /\ Len(stage') = Len(handles)
    BY <2>2, <2>3
  <2> QED
    BY <2>1, <2>4, <1>2 DEF TypeInv, HandleTypes
<1>6. /\ pending' \in [Endpoints -> SUBSET Streams] /\ resetting' \in [Endpoints -> SUBSET Streams]
      /\ \A t : (Asks(e, t)' => t \in P \/ Requested(e, t)) /\ (Twice(e, t)' => t \in P /\ Requested(e, t))
      /\ \A q \in Endpoints : \A k \in OnWire(q)' : k \in OnWire(q) \/ k.kind = "Reset"
  BY <1>1, <1>2, ResetsSent DEF TypeInv
<1>7. \A t : (Asks(e, t)' => Asks(e, t)) /\ (Twice(e, t)' => Twice(e, t))
  BY <1>6 DEF P, Asks, Twice
<1>8. ChannelTypes'
  <2>1. \A q \in Endpoints : \A t \in DOMAIN channels'[q] : HandleAt(q, t)' \in Handles'
    BY <1>4, <1>5 DEF TypeInv, ChannelTypes, Holds
  <2> QED
    BY <2>1, <1>4, <1>6 DEF ChannelTypes
<1>9. AtMostOne(ResetRequest(e, P)) /\ \A n \in ToSet(ResetRequest(e, P)) : n.kind = "Reset" /\ n.from = 0
  BY <1>2, RequestMade DEF Reset
<1>10. WireTypes'
  BY <1>1, <1>5, <1>9, WireTypesKept DEF TypeInv
<1>11. OnWire(e)' = ToSet(w[e]) /\ OnWire(e)' \subseteq OnWire(e)
  BY <1>1, <1>9, Transmitted DEF TypeInv
<1>12. \A h \in Handles : stage'[h] = IF \E t \in m.streams : Holds(e, t) /\ h = HandleAt(e, t) THEN "Closed" ELSE stage[h]
  BY <1>1, <1>3
<1> QED
  BY <1>1, <1>2, <1>4, <1>5, <1>6, <1>7, <1>8, <1>10, <1>11, <1>12

LEMMA ProcessKeepsTypes ==
  ASSUME TypeInv, NEW e \in Endpoints, ProcessAction(e) PROVE TypeInv'
<1> DEFINE a == Head(actions[e])
<1>1. /\ a \in ActionRecord /\ a.handle \in Handles
      /\ actions' \in [Endpoints -> Seq(ActionRecord)]
      /\ \A q \in Endpoints : ToSet(actions'[q]) \subseteq ToSet(actions[q])
  BY FirstAction DEF ProcessAction, TypeInv, ActionTypes
<1>2. UNCHANGED <<answered, assoc, described, client, handles, inbox, messages, closes>>
  BY DEF ProcessAction
<1>3. Handles' = Handles
  BY <1>2 DEF Handles
<1>4. ActionTypes' /\ SessionTypes'
  BY <1>1, <1>2, <1>3 DEF TypeInv, ActionTypes, SessionTypes
<1>5. a.id \in Streams /\ a.kind \in {"SendMessage", "Close"}
  BY <1>1 DEF ActionRecord
<1>6. CASE a.kind = "Close" /\ Closable(e, a.id)
  <2>1. CloseLocally(e, a.id, wire)
    BY <1>6 DEF ProcessAction
  <2>2. FromWire(wire)
    BY WireItself DEF TypeInv
  <2>3. WireTypes' /\ ChannelTypes' /\ HandleTypes'
    BY <2>1, <2>2, <1>2, <1>5, <1>6, ClosedLocally
  <2> QED
    BY <2>3, <1>4 DEF TypeInv
<1>7. CASE a.kind = "Close" /\ ~ Closable(e, a.id)
  <2>1. UNCHANGED <<wire, resetting, channels, pending, stage>>
    BY <1>7 DEF ProcessAction
  <2>2. ChannelTypes' /\ HandleTypes'
    BY <2>1, <1>2, OthersKeepTypes
  <2>3. WireTypes'
    BY <2>1, <1>3 DEF TypeInv, WireTypes, OnWire, FromHandle
  <2> QED
    BY <2>2, <2>3, <1>4 DEF TypeInv
<1>8. CASE a.kind = "SendMessage"
  <2>1. UNCHANGED <<resetting, channels, pending, stage>>
    BY <1>8 DEF ProcessAction
  <2>2. ChannelTypes' /\ HandleTypes'
    BY <2>1, <1>2, OthersKeepTypes
  <2>3. CASE Holds(e, a.id)
    <3>1. PICK ordered \in BOOLEAN, open \in BOOLEAN : Transmit(e, Sent(e, Data(a.id, a.handle, ordered, open)))
      <4> DEFINE ord == LET c == channels[e][a.id] IN c.state = "Open" => handles[c.handle].ordered
      <4>1. channels[e][a.id].handle \in Handles
        BY <2>3 DEF Holds, TypeInv, ChannelTypes, HandleAt
      <4>2. ord \in BOOLEAN
        BY <4>1, RecordOf DEF HandleRecord
      <4>3. Transmit(e, Sent(e, Data(a.id, a.handle, ord, stage[a.handle] = "Open")))
        BY <2>3, <1>8 DEF ProcessAction
      <4> HIDE DEF ord
      <4> QED
        BY <4>2, <4>3
    <3> HIDE DEF a
    <3>2. WireTypes'
      BY <3>1, <1>1, <1>2, <1>5, MessageSent
    <3> QED
      BY <3>2, <2>2, <1>4 DEF TypeInv
  <2>4. CASE ~ Holds(e, a.id)
    <3>1. UNCHANGED wire
      BY <2>4, <1>8 DEF ProcessAction
    <3>2. WireTypes'
      BY <3>1, <1>3 DEF TypeInv, WireTypes, OnWire, FromHandle
    <3> QED
      BY <3>2, <2>2, <1>4 DEF TypeInv
  <2> QED
    BY <2>3, <2>4
<1> QED
  BY <1>5, <1>6, <1>7, <1>8

LEMMA AnsweredKeepsTypes ==
  ASSUME TypeInv, NEW e \in Endpoints, ResetAnswered(e) PROVE TypeInv'
<1> DEFINE t == IF pending[e] = {} THEN << >> ELSE <<Reset(pending[e])>>
<1>1. /\ answered' = [answered EXCEPT ![e] = FALSE] /\ pending' = [pending EXCEPT ![e] = {}]
      /\ resetting' = [resetting EXCEPT ![e] = pending[e]] /\ Transmit(e, t)
      /\ UNCHANGED <<assoc, described, client, channels, actions, handles, stage, inbox, messages, closes>>
  BY DEF ResetAnswered, handleVars
<1>2. pending[e] \in SUBSET Streams /\ Handles' = Handles
  BY <1>1 DEF TypeInv, ChannelTypes, Handles
<1>3. AtMostOne(t) /\ \A n \in ToSet(t) : n.kind = "Reset" /\ n.from = 0
  <2>1. Reset(pending[e]) \in Message /\ Reset(pending[e]).kind = "Reset" /\ Reset(pending[e]).from = 0
    BY <1>2, MessagesMade DEF Reset
  <2> QED
    BY <2>1 DEF AtMostOne, ToSet
<1> HIDE DEF t
<1>4. WireTypes'
  BY <1>1, <1>2, <1>3, WireItself, WireTypesKept DEF Transmit, TypeInv
<1>5. ChannelTypes'
  BY <1>1, <1>2 DEF TypeInv, ChannelTypes, HandleAt
<1>6. HandleTypes' /\ ActionTypes' /\ SessionTypes'
  BY <1>1, <1>2 DEF TypeInv, HandleTypes, ActionTypes, SessionTypes
<1> QED
  BY <1>4, <1>5, <1>6 DEF TypeInv

\* A message is taken from the wire and nothing is sent.
LEMMA OnlyTaken ==
  ASSUME TypeInv, NEW w, FromWire(w), wire' = w, Handles \subseteq Handles'
  PROVE  /\ WireTypes' /\ (WireOrder => WireOrder')
         /\ \A q \in Endpoints : OnWire(q)' \subseteq OnWire(q) /\ OnWire(q)' = ToSet(w[q])
<1>1. \A q \in Endpoints : OnWire(q)' = ToSet(w[q]) /\ OnWire(q)' \subseteq OnWire(q)
  BY DEF FromWire, OnWire
<1>2. WireTypes'
  BY <1>1 DEF FromWire, TypeInv, WireTypes, FromHandle
<1>3. WireOrder => WireOrder'
  BY DEF FromWire, WireOrder, Ordered
<1> QED
  BY <1>1, <1>2, <1>3

LEMMA ReceiveKeepsTypes ==
  ASSUME TypeInv, NEW e \in Endpoints, Receive(e) PROVE TypeInv'
<1>1. PICK i \in 1 .. Len(wire[e]) :
        LET m == wire[e][i]
            w == [wire EXCEPT ![e] = RemoveAt(@, i)]
        IN /\ \/ m.kind = "Open" /\ ReceiveOpen(e, m, w)
              \/ m.kind = "Ack" /\ ReceiveOpenAck(e, m, w)
              \/ m.kind = "Data" /\ ReceiveData(e, m, w)
              \/ m.kind = "Reset" /\ ReceiveReset(e, m, w)
           /\ answered' = IF m.kind = "Reset" THEN [answered EXCEPT ![Peer(e)] = TRUE] ELSE answered
  BY DEF Receive
<1> DEFINE m == wire[e][i]
           w == [wire EXCEPT ![e] = RemoveAt(@, i)]
<1>2. FromWire(w) /\ m \in OnWire(e) /\ m \in Message
  BY WireTaken DEF TypeInv
<1>3. UNCHANGED <<assoc, described, client, actions, messages, closes>>
  BY DEF Receive
<1>4. SessionTypes'
  BY <1>1, <1>3 DEF TypeInv, SessionTypes
<1> SUFFICES WireTypes' /\ ChannelTypes' /\ HandleTypes' /\ Handles \subseteq Handles'
  BY <1>3, <1>4, ActionTypesKept DEF TypeInv
<1>5. m.kind # "Reset" => m.from \in Handles /\ \E s \in Streams : m.streams = {s}
  BY <1>2 DEF TypeInv, WireTypes, FromHandle
<1> HIDE DEF m, w
<1>6. CASE m.kind = "Open" /\ ReceiveOpen(e, m, w)
  <2>1. PICK s \in Streams : m.streams = {s}
    BY <1>5, <1>6
  <2>2. CASE /\ SendResets(e, pending[e] \cup {s})
             /\ wire' = [w EXCEPT ![Peer(e)] = @ \o ResetRequest(e, pending[e] \cup {s})]
             /\ UNCHANGED <<channels, handles, stage, inbox>>
    <3> DEFINE P == pending[e] \cup {s}
    <3>1. P \in SUBSET Streams
      BY DEF TypeInv, ChannelTypes
    <3>2. SendResets(e, P) /\ wire' = [w EXCEPT ![Peer(e)] = @ \o ResetRequest(e, P)] /\ Handles' = Handles
      BY <2>2 DEF Handles
    <3> HIDE DEF P
    <3>3. pending' \in [Endpoints -> SUBSET Streams] /\ resetting' \in [Endpoints -> SUBSET Streams]
      BY <3>1, <3>2, <1>2, ResetsSent DEF TypeInv
    <3>4. AtMostOne(ResetRequest(e, P)) /\ \A n \in ToSet(ResetRequest(e, P)) : n.kind = "Reset" /\ n.from = 0
      BY <3>1, RequestMade DEF Reset
    <3>5. WireTypes'
      BY <3>2, <3>4, <1>2, WireTypesKept DEF TypeInv
    <3>6. ChannelTypes' /\ HandleTypes'
      BY <2>2, <3>2, <3>3 DEF TypeInv, ChannelTypes, HandleTypes, HandleAt
    <3> QED
      BY <3>2, <3>5, <3>6
  <2>3. CASE Closable(e, s) /\ CloseLocally(e, s, w) /\ UNCHANGED <<handles, inbox>>
    BY <2>3, <1>2, ClosedLocally
  <2>4. CASE wire' = w /\ UNCHANGED <<resetting, channels, pending, handles, stage, inbox>>
    <3>1. ChannelTypes' /\ HandleTypes' /\ Handles' = Handles
      BY <2>4, OthersKeepTypes
    <3> QED
      BY <3>1, <2>4, <1>2, OnlyTaken
  <2>5. CASE Accept(e, m, s, w)
    BY <2>5, <1>2, <1>5, <1>6, OpenAccepted
  <2> QED
    BY <2>1, <2>2, <2>3, <2>4, <2>5, <1>6 DEF ReceiveOpen
<1>7. CASE m.kind = "Ack" /\ ReceiveOpenAck(e, m, w)
  <2>1. PICK s \in Streams : m.streams = {s}
    BY <1>5, <1>7
  <2>2. wire' = w /\ UNCHANGED <<resetting, pending, handles, inbox>>
    BY <1>7 DEF ReceiveOpenAck
  <2>3. ChannelTypes' /\ HandleTypes' /\ Handles' = Handles
    <3>1. CASE UNCHANGED <<channels, stage>>
      BY <3>1, <2>2, OthersKeepTypes
    <3>2. CASE /\ Holds(e, s) /\ channels' = [channels EXCEPT ![e][s].state = "Open"]
               /\ stage' = [stage EXCEPT ![channels[e][s].handle] = "Open"]
      BY <3>2, <2>2, AckOpens
    <3> QED
      BY <3>1, <3>2, <2>1, <1>7 DEF ReceiveOpenAck
  <2> QED
    BY <2>2, <2>3, <1>2, OnlyTaken
<1>8. CASE m.kind = "Data" /\ ReceiveData(e, m, w)
  <2>1. PICK s \in Streams : m.streams = {s}
    BY <1>5, <1>8
  <2>2. wire' = w /\ UNCHANGED <<resetting, channels, pending, handles, stage>>
    BY <1>8 DEF ReceiveData
  <2>3. HandleTypes' /\ Handles' = Handles
    <3>1. CASE UNCHANGED inbox
      BY <3>1, <2>2, OthersKeepTypes
    <3>2. CASE Closable(e, s) /\ inbox' = [inbox EXCEPT ![channels[e][s].handle] = Append(@, [from |-> m.from, open |-> m.open])]
      <4>1. channels[e][s].handle \in Handles /\ m.from \in Handles /\ m.open \in BOOLEAN
        BY <3>2, <1>2, <1>5, <1>8 DEF Closable, Holds, TypeInv, ChannelTypes, HandleAt, Message
      <4>2. Delivers(channels[e][s].handle, m.from, m.open)
        BY <3>2 DEF Delivers
      <4> QED
        BY <4>1, <4>2, <2>2, DataArrives
    <3> QED
      BY <3>1, <3>2, <2>1, <1>8 DEF ReceiveData
  <2>4. ChannelTypes'
    BY <2>2, <2>3 DEF TypeInv, ChannelTypes, HandleAt
  <2> QED
    BY <2>2, <2>3, <2>4, <1>2, OnlyTaken
<1>9. CASE m.kind = "Reset" /\ ReceiveReset(e, m, w)
  BY <1>9, <1>2, ChannelsReset
<1> QED
  BY <1>1, <1>6, <1>7, <1>8, <1>9 DEF m, w

LEMMA NextTypes == TypeInv /\ [Next]_vars => TypeInv'
<1> SUFFICES ASSUME TypeInv, [Next]_vars PROVE TypeInv'
  OBVIOUS
<1>1. CASE UNCHANGED vars
  <2>1. /\ UNCHANGED <<wire, resetting, answered, assoc, described, client, channels, pending, actions>>
        /\ UNCHANGED <<handles, stage, inbox, messages, closes>>
    BY <1>1 DEF vars, association, endpointVars, handleVars
  <2>2. ChannelTypes' /\ HandleTypes' /\ Handles' = Handles
    BY <2>1, OthersKeepTypes
  <2> QED
    BY <2>1, <2>2 DEF TypeInv, WireTypes, ActionTypes, SessionTypes, OnWire, FromHandle
<1>2. ASSUME NEW e \in Endpoints, Session(e) \/ Poll(e) PROVE TypeInv'
  BY <1>2, SessionKeepsTypes, ProcessKeepsTypes, ReceiveKeepsTypes, AnsweredKeepsTypes DEF Poll
<1>3. CASE Application
  BY <1>3, CreateKeepsTypes, CallKeepsTypes DEF Application
<1> QED
  BY <1>1, <1>2, <1>3 DEF Next

LEMMA Typed == Spec => []TypeInv
BY InitTypes, NextTypes, PTL DEF Spec
-----------------------------------------------------------------------------
(***************************************************************************)
(* Channels, handles and actions agree: a channel belongs to its handle,   *)
(* and a handle that was not told of the end has the channel on its id.    *)
(***************************************************************************)
ChannelsSound ==
  \A q \in Endpoints, s \in Streams : Holds(q, s) =>
    /\ handles[HandleAt(q, s)].at = q /\ handles[HandleAt(q, s)].id = s
    /\ stage[HandleAt(q, s)] = StateAt(q, s)

StageSound ==
  \A h \in Handles, q \in Endpoints, s \in Streams :
    handles[h].at = q /\ handles[h].id = s /\ stage[h] # "Closed" => Holds(q, s) /\ HandleAt(q, s) = h

ActionsSound ==
  \A q \in Endpoints : \A a \in ToSet(actions[q]) : handles[a.handle].at = q /\ handles[a.handle].id = a.id

Coherent == ChannelsSound /\ StageSound /\ ActionsSound

LEMMA HeldHandle == ASSUME TypeInv, NEW q \in Endpoints, NEW s, Holds(q, s) PROVE HandleAt(q, s) \in Handles /\ s \in Streams
<1>1. channels[q] \in ChannelMaps /\ s \in DOMAIN channels[q]
  BY DEF TypeInv, ChannelTypes, Holds
<1>2. DOMAIN channels[q] \subseteq Streams
  BY <1>1, ChannelMapShape
<1> QED
  BY <1>1, <1>2 DEF TypeInv, ChannelTypes

LEMMA InitCoherent == Init => Coherent
<1> SUFFICES ASSUME Init PROVE Coherent
  OBVIOUS
<1>1. \A q \in Endpoints : DOMAIN channels[q] = {} /\ ToSet(actions[q]) = {}
  BY DEF Init, ToSet
<1>2. Handles = {}
  BY DEF Init, Handles
<1> QED
  BY <1>1, <1>2 DEF Coherent, ChannelsSound, StageSound, ActionsSound, Holds

\* Handles stay where they are.
LEMMA ActionsSoundKept ==
  ASSUME TypeInv, ActionsSound, \A q \in Endpoints : ToSet(actions'[q]) \subseteq ToSet(actions[q]),
         \A h \in Handles : handles'[h].at = handles[h].at /\ handles'[h].id = handles[h].id
  PROVE  ActionsSound'
BY DEF TypeInv, ActionTypes, ActionsSound

LEMMA PlacesKept ==
  ASSUME TypeInv, ChannelsSound, StageSound, UNCHANGED <<channels, stage>>, Handles' = Handles,
         \A h \in Handles : handles'[h].at = handles[h].at /\ handles'[h].id = handles[h].id
  PROVE  ChannelsSound' /\ StageSound'
<1>1. \A q \in Endpoints : \A s \in Streams : Holds(q, s) => HandleAt(q, s) \in Handles
  BY HeldHandle
<1>2. ChannelsSound'
  BY <1>1, ChannelsKept DEF ChannelsSound
<1>3. StageSound'
  BY ChannelsKept DEF StageSound
<1> QED
  BY <1>2, <1>3

LEMMA StateMoves ==
  ASSUME TypeInv, ChannelsSound, StageSound, NEW e \in Endpoints, NEW s \in Streams, Holds(e, s), NEW st,
         UNCHANGED handles, Handles' = Handles,
         \A q \in Endpoints : \A t :
           /\ Holds(q, t)' = Holds(q, t)
           /\ Holds(q, t) => HandleAt(q, t)' = HandleAt(q, t)
           /\ Holds(q, t) => StateAt(q, t)' = IF q = e /\ t = s THEN st ELSE StateAt(q, t),
         stage'[HandleAt(e, s)] = st, \A h \in Handles : h # HandleAt(e, s) => stage'[h] = stage[h]
  PROVE  ChannelsSound' /\ StageSound'
<1>1. \A q \in Endpoints : \A t \in Streams : Holds(q, t) => HandleAt(q, t) \in Handles
  BY HeldHandle
<1>2. ChannelsSound'
  <2> SUFFICES ASSUME NEW q \in Endpoints, NEW t \in Streams, Holds(q, t)
               PROVE  /\ handles[HandleAt(q, t)].at = q /\ handles[HandleAt(q, t)].id = t
                      /\ stage'[HandleAt(q, t)] = StateAt(q, t)'
    BY DEF ChannelsSound
  <2>1. /\ handles[HandleAt(q, t)].at = q /\ handles[HandleAt(q, t)].id = t
        /\ handles[HandleAt(e, s)].at = e /\ handles[HandleAt(e, s)].id = s /\ stage[HandleAt(q, t)] = StateAt(q, t)
    BY DEF ChannelsSound
  <2> QED
    BY <2>1, <1>1
<1>3. StageSound'
  <2> SUFFICES ASSUME NEW h \in Handles, NEW q \in Endpoints, NEW t \in Streams,
                      handles[h].at = q, handles[h].id = t, stage'[h] # "Closed"
               PROVE  Holds(q, t)' /\ HandleAt(q, t)' = h
    BY DEF StageSound
  <2>1. CASE h = HandleAt(e, s)
    BY <2>1 DEF ChannelsSound
  <2>2. CASE h # HandleAt(e, s)
    BY <2>2 DEF StageSound
  <2> QED
    BY <2>1, <2>2
<1> QED
  BY <1>2, <1>3

LEMMA HandleAppears ==
  ASSUME TypeInv, ChannelsSound, StageSound, NEW e \in Endpoints, NEW s \in Streams, ~ Holds(e, s), NEW n, n \notin Handles,
         Handles' = Handles \cup {n}, handles'[n].at = e, handles'[n].id = s,
         \A h \in Handles : handles'[h] = handles[h] /\ stage'[h] = stage[h],
         Holds(e, s)', HandleAt(e, s)' = n, StateAt(e, s)' = stage'[n],
         \A q \in Endpoints : \A t : q # e \/ t # s =>
           /\ Holds(q, t)' = Holds(q, t)
           /\ Holds(q, t) => HandleAt(q, t)' = HandleAt(q, t) /\ StateAt(q, t)' = StateAt(q, t)
  PROVE  ChannelsSound' /\ StageSound'
<1>1. ChannelsSound'
  <2> SUFFICES ASSUME NEW q \in Endpoints, NEW t \in Streams, Holds(q, t)'
               PROVE  /\ handles'[HandleAt(q, t)'].at = q /\ handles'[HandleAt(q, t)'].id = t
                      /\ stage'[HandleAt(q, t)'] = StateAt(q, t)'
    BY DEF ChannelsSound
  <2>1. CASE q = e /\ t = s
    BY <2>1
  <2>2. CASE q # e \/ t # s
    <3>1. Holds(q, t) /\ HandleAt(q, t) \in Handles /\ HandleAt(q, t)' = HandleAt(q, t) /\ StateAt(q, t)' = StateAt(q, t)
      BY <2>2, HeldHandle
    <3>2. handles'[HandleAt(q, t)] = handles[HandleAt(q, t)] /\ stage'[HandleAt(q, t)] = stage[HandleAt(q, t)]
      BY <3>1
    <3> QED
      BY <3>1, <3>2 DEF ChannelsSound
  <2> QED
    BY <2>1, <2>2
<1>2. StageSound'
  <2> SUFFICES ASSUME NEW h \in Handles', NEW q \in Endpoints, NEW t \in Streams,
                      handles'[h].at = q, handles'[h].id = t, stage'[h] # "Closed"
               PROVE  Holds(q, t)' /\ HandleAt(q, t)' = h
    BY DEF StageSound
  <2>1. CASE h = n
    BY <2>1
  <2>2. CASE h \in Handles
    <3>1. Holds(q, t) /\ HandleAt(q, t) = h
      BY <2>2 DEF StageSound
    <3> QED
      BY <3>1
  <2> QED
    BY <2>1, <2>2
<1> QED
  BY <1>1, <1>2

(***************************************************************************)
(* What becomes of a message received.                                     *)
(***************************************************************************)
Takes(e, i, m, w) ==
  /\ i \in 1 .. Len(wire[e]) /\ m = wire[e][i] /\ Deliverable(e, i)
  /\ w = [wire EXCEPT ![e] = RemoveAt(@, i)]

IsRefused(e, s, w) == \* an open on an id of the own parity
  /\ s % 2 = OwnParity(e) /\ SendResets(e, pending[e] \cup {s})
  /\ wire' = [w EXCEPT ![Peer(e)] = @ \o ResetRequest(e, pending[e] \cup {s})]
  /\ UNCHANGED <<channels, handles, stage, inbox>>
ClosesThere(e, s, w) == Closable(e, s) /\ CloseLocally(e, s, w) /\ UNCHANGED <<handles, inbox>>
IsIgnored(w) == wire' = w /\ UNCHANGED <<resetting, channels, pending, handles, stage, inbox>>
IsAccepted(e, m, s, w) == s % 2 # OwnParity(e) /\ ~ Holds(e, s) /\ Accept(e, m, s, w)
IsAnswered(e, s, w) ==
  /\ Holds(e, s) /\ StateAt(e, s) = "Connecting" /\ wire' = w
  /\ channels' = [channels EXCEPT ![e][s].state = "Open"]
  /\ stage' = [stage EXCEPT ![channels[e][s].handle] = "Open"]
  /\ UNCHANGED <<resetting, pending, handles, inbox>>
IsDelivered(e, m, s, w) ==
  /\ Closable(e, s) /\ wire' = w
  /\ inbox' = [inbox EXCEPT ![HandleAt(e, s)] = Append(@, [from |-> m.from, open |-> m.open])]
  /\ UNCHANGED <<resetting, channels, pending, handles, stage>>

Handled(e, m, s, w) ==
  \/ m.kind = "Open" /\ (IsRefused(e, s, w) \/ ClosesThere(e, s, w) \/ IsAccepted(e, m, s, w))
  \/ m.kind = "Ack" /\ IsAnswered(e, s, w)
  \/ m.kind = "Data" /\ IsDelivered(e, m, s, w)
  \/ IsIgnored(w)

LEMMA ReceiveCases ==
  ASSUME TypeInv, NEW e \in Endpoints, Receive(e)
  PROVE  \E i, m, w :
           /\ Takes(e, i, m, w) /\ FromWire(w) /\ m \in OnWire(e) /\ m \in Message
           /\ \/ m.kind = "Reset" /\ ReceiveReset(e, m, w) /\ answered' = [answered EXCEPT ![Peer(e)] = TRUE]
              \/ /\ m.kind # "Reset" /\ UNCHANGED answered
                 /\ \E s \in Streams : m.streams = {s} /\ m.from \in Handles /\ Handled(e, m, s, w)
<1>1. PICK i \in 1 .. Len(wire[e]) :
        /\ Deliverable(e, i)
        /\ LET m == wire[e][i]
               w == [wire EXCEPT ![e] = RemoveAt(@, i)]
           IN /\ \/ m.kind = "Open" /\ ReceiveOpen(e, m, w)
                 \/ m.kind = "Ack" /\ ReceiveOpenAck(e, m, w)
                 \/ m.kind = "Data" /\ ReceiveData(e, m, w)
                 \/ m.kind = "Reset" /\ ReceiveReset(e, m, w)
              /\ answered' = IF m.kind = "Reset" THEN [answered EXCEPT ![Peer(e)] = TRUE] ELSE answered
  BY DEF Receive
<1> DEFINE m == wire[e][i]
           w == [wire EXCEPT ![e] = RemoveAt(@, i)]
<1>2. FromWire(w) /\ m \in OnWire(e) /\ m \in Message
  BY WireTaken DEF TypeInv
<1>3. Takes(e, i, m, w)
  BY <1>1 DEF Takes
<1>4. m.kind # "Reset" => m.from \in Handles /\ \E s \in Streams : m.streams = {s}
  BY <1>2 DEF TypeInv, WireTypes, FromHandle
<1>5. /\ \/ m.kind = "Open" /\ ReceiveOpen(e, m, w)
         \/ m.kind = "Ack" /\ ReceiveOpenAck(e, m, w)
         \/ m.kind = "Data" /\ ReceiveData(e, m, w)
         \/ m.kind = "Reset" /\ ReceiveReset(e, m, w)
      /\ answered' = IF m.kind = "Reset" THEN [answered EXCEPT ![Peer(e)] = TRUE] ELSE answered
  BY <1>1
<1> HIDE DEF m, w
<1>6. ASSUME m.kind # "Reset" PROVE \E s \in Streams : m.streams = {s} /\ m.from \in Handles /\ Handled(e, m, s, w)
  <2>1. PICK s \in Streams : m.streams = {s}
    BY <1>4, <1>6
  <2>2. ASSUME m.kind = "Open", ReceiveOpen(e, m, w) PROVE Handled(e, m, s, w)
    <3>1. IsRefused(e, s, w) \/ ClosesThere(e, s, w) \/ IsIgnored(w) \/ IsAccepted(e, m, s, w)
      BY <2>1, <2>2 DEF ReceiveOpen, IsRefused, ClosesThere, IsIgnored, IsAccepted
    <3> QED
      BY <3>1, <2>2 DEF Handled
  <2>3. ASSUME m.kind = "Ack", ReceiveOpenAck(e, m, w) PROVE Handled(e, m, s, w)
    <3>1. IsAnswered(e, s, w) \/ IsIgnored(w)
      BY <2>1, <2>3 DEF ReceiveOpenAck, IsAnswered, IsIgnored, StateAt
    <3> QED
      BY <3>1, <2>3 DEF Handled
  <2>4. ASSUME m.kind = "Data", ReceiveData(e, m, w) PROVE Handled(e, m, s, w)
    <3>1. IsDelivered(e, m, s, w) \/ IsIgnored(w)
      BY <2>1, <2>4 DEF ReceiveData, IsDelivered, IsIgnored, HandleAt
    <3> QED
      BY <3>1, <2>4 DEF Handled
  <2>5. Handled(e, m, s, w)
    BY <2>2, <2>3, <2>4, <1>5, <1>6
  <2> QED
    BY <2>1, <2>5, <1>4, <1>6
<1> QED
  BY <1>2, <1>3, <1>5, <1>6
-----------------------------------------------------------------------------
LEMMA CreatedChannel ==
  ASSUME TypeInv, NEW e \in Endpoints, NEW ordered \in Orderings, CreateDataChannel(e, ordered)
  PROVE  \E s \in FreeIds(e) : LET n == Len(handles) + 1 IN
           /\ s \in Streams /\ ~ Holds(e, s) /\ Handles' = Handles \cup {n} /\ n \notin Handles
           /\ handles'[n].opener = n /\ handles'[n].at = e /\ handles'[n].id = s /\ handles'[n].state = stage'[n]
           /\ \A h \in Handles : handles'[h] = handles[h] /\ stage'[h] = stage[h] /\ inbox'[h] = inbox[h]
           /\ stage'[n] = (IF assoc[e] = "Connected" THEN "Connecting" ELSE "Closed") /\ inbox'[n] = << >>
           /\ Holds(e, s)' /\ HandleAt(e, s)' = n /\ StateAt(e, s)' = stage'[n]
           /\ \A q \in Endpoints : \A t : q # e \/ t # s =>
                /\ Holds(q, t)' = Holds(q, t)
                /\ Holds(q, t) => HandleAt(q, t)' = HandleAt(q, t) /\ StateAt(q, t)' = StateAt(q, t)
           /\ stage' = Append(stage, stage'[n]) /\ inbox' = Append(inbox, << >>)
           /\ IF assoc[e] = "Connected" THEN Transmit(e, Sent(e, Control("Open", s, n))) ELSE UNCHANGED wire
<1> DEFINE n     == Len(handles) + 1
           state == IF assoc[e] = "Connected" THEN "Connecting" ELSE "Closed"
<1>1. PICK s \in FreeIds(e) :
        /\ handles' = Append(handles, Handle(e, s, state, ordered, n))
        /\ stage' = Append(stage, state) /\ inbox' = Append(inbox, << >>)
        /\ channels' = [channels EXCEPT ![e] = Put(@, s, Channel(state, n))]
        /\ IF assoc[e] = "Connected" THEN Transmit(e, Sent(e, Control("Open", s, n))) ELSE UNCHANGED wire
  BY DEF CreateDataChannel
<1>2. s \in Streams /\ ~ Holds(e, s) /\ state \in States /\ ordered \in BOOLEAN /\ n \in Nat
  BY ChannelAssumption DEF FreeIds, States, TypeInv, HandleTypes
<1> DEFINE c == Channel(state, n)
           r == Handle(e, s, state, ordered, n)
<1>3. /\ c \in ChannelRecord /\ c.handle = n /\ c.state = state
      /\ r \in HandleRecord /\ r.opener = n /\ r.at = e /\ r.id = s /\ r.state = state
  BY <1>2 DEF Channel, ChannelRecord, Handle, HandleRecord
<1> HIDE DEF state
<1>4. /\ handles' = Append(handles, r) /\ stage' = Append(stage, state)
      /\ channels' = [channels EXCEPT ![e] = Put(@, s, c)] /\ channels \in [Endpoints -> ChannelMaps]
  BY <1>1 DEF TypeInv, ChannelTypes
<1> HIDE DEF c, r
<1>5. /\ Handles' = Handles \cup {n} /\ n \notin Handles
      /\ handles'[n] = r /\ \A h \in Handles : handles'[h] = handles[h] /\ stage'[h] = stage[h] /\ inbox'[h] = inbox[h]
      /\ stage'[n] = state /\ inbox'[n] = << >>
  BY <1>1, <1>2, <1>3, <1>4, HandleAdded DEF TypeInv
<1> HIDE DEF n
<1>6. /\ Holds(e, s)' /\ HandleAt(e, s)' = n /\ StateAt(e, s)' = state
      /\ \A q \in Endpoints : \A t : q # e \/ t # s =>
           /\ Holds(q, t)' = Holds(q, t)
           /\ Holds(q, t) => HandleAt(q, t)' = HandleAt(q, t) /\ StateAt(q, t)' = StateAt(q, t)
  BY <1>2, <1>3, <1>4, ChannelPut
<1>7. state = IF assoc[e] = "Connected" THEN "Connecting" ELSE "Closed"
  BY DEF state
<1>8. handles'[n].opener = n /\ handles'[n].at = e /\ handles'[n].id = s /\ handles'[n].state = stage'[n]
  BY <1>3, <1>5
<1>9. IF assoc[e] = "Connected" THEN Transmit(e, Sent(e, Control("Open", s, n))) ELSE UNCHANGED wire
  BY <1>1
<1>10. stage' = Append(stage, stage'[n]) /\ inbox' = Append(inbox, << >>)
  BY <1>1, <1>4, <1>5
<1>11. StateAt(e, s)' = stage'[n]
  BY <1>5, <1>6
<1>12. stage'[n] = IF assoc[e] = "Connected" THEN "Connecting" ELSE "Closed"
  BY <1>5, <1>7
<1> QED
  BY <1>2, <1>5, <1>6, <1>8, <1>9, <1>10, <1>11, <1>12 DEF n

LEMMA NextCoherent == TypeInv /\ Coherent /\ [Next]_vars => Coherent'
<1> SUFFICES ASSUME TypeInv, Coherent, [Next]_vars PROVE Coherent'
  OBVIOUS
<1> USE DEF Coherent
<1>1. ASSUME UNCHANGED <<channels, stage, handles>>, \A q \in Endpoints : ToSet(actions'[q]) \subseteq ToSet(actions[q])
      PROVE  Coherent'
  <2>1. Handles' = Handles
    BY <1>1 DEF Handles
  <2> QED
    BY <1>1, <2>1, PlacesKept, ActionsSoundKept
<1>2. CASE UNCHANGED vars
  BY <1>1, <1>2 DEF vars, endpointVars, handleVars
<1>3. ASSUME NEW e \in Endpoints, Session(e) \/ ResetAnswered(e) PROVE Coherent'
  BY <1>1, <1>3 DEF Session, SetRemoteDescription, HandleTransportConnected, AssocChange, ResetAnswered, handleVars
<1>4. ASSUME NEW e \in Endpoints, ProcessAction(e) PROVE Coherent'
  <2> DEFINE a == Head(actions[e])
  <2>1. \A q \in Endpoints : ToSet(actions'[q]) \subseteq ToSet(actions[q])
    BY <1>4, FirstAction DEF ProcessAction
  <2>2. UNCHANGED <<handles, inbox>> /\ a.id \in Streams
    BY <1>4, FirstAction DEF ProcessAction, ActionRecord
  <2>3. CASE Closable(e, a.id) /\ CloseLocally(e, a.id, wire)
    <3>0. FromWire(wire)
      BY WireItself DEF TypeInv
    <3> HIDE DEF a
    <3>1. ChannelsSound' /\ StageSound'
      BY <3>0, <2>2, <2>3, ClosedLocally, StateMoves
    <3> QED
      BY <3>1, <2>1, <2>2, ActionsSoundKept
  <2>4. CASE UNCHANGED <<channels, stage>>
    BY <2>1, <2>2, <2>4, <1>1
  <2> QED
    BY <2>3, <2>4, <1>4 DEF ProcessAction
<1>5. ASSUME NEW e \in Endpoints, Receive(e) PROVE Coherent'
  <2>0. UNCHANGED actions
    BY <1>5 DEF Receive
  <2>1. PICK i, m, w :
           /\ Takes(e, i, m, w) /\ FromWire(w) /\ m \in OnWire(e) /\ m \in Message
           /\ \/ m.kind = "Reset" /\ ReceiveReset(e, m, w)
              \/ /\ m.kind # "Reset"
                 /\ \E s \in Streams : m.streams = {s} /\ m.from \in Handles /\ Handled(e, m, s, w)
    BY <1>5, ReceiveCases
  <2>2. CASE m.kind = "Reset" /\ ReceiveReset(e, m, w)
    <3>1. /\ Handles' = Handles /\ UNCHANGED handles
          /\ \A q \in Endpoints : \A t :
               /\ Holds(q, t)' = (Holds(q, t) /\ ~ (q = e /\ t \in m.streams))
               /\ Holds(q, t)' => HandleAt(q, t)' = HandleAt(q, t) /\ StateAt(q, t)' = StateAt(q, t)
          /\ \A h \in Handles : stage'[h] = IF \E t \in m.streams : Holds(e, t) /\ h = HandleAt(e, t) THEN "Closed" ELSE stage[h]
      BY <2>1, <2>2, ChannelsReset
    <3>2. m.streams \subseteq Streams
      BY <2>1 DEF Message
    <3>3. ChannelsSound'
      <4> SUFFICES ASSUME NEW q \in Endpoints, NEW s \in Streams, Holds(q, s)'
                   PROVE  /\ handles[HandleAt(q, s)].at = q /\ handles[HandleAt(q, s)].id = s
                          /\ stage'[HandleAt(q, s)] = StateAt(q, s)
        BY <3>1 DEF ChannelsSound
      <4>1. Holds(q, s) /\ ~ (q = e /\ s \in m.streams) /\ HandleAt(q, s) \in Handles
        BY <3>1, HeldHandle
      <4>2. /\ handles[HandleAt(q, s)].at = q /\ handles[HandleAt(q, s)].id = s
            /\ stage[HandleAt(q, s)] = StateAt(q, s)
        BY <4>1 DEF ChannelsSound
      <4>3. \A t \in m.streams : Holds(e, t) => HandleAt(q, s) # HandleAt(e, t)
        BY <4>1, <4>2, <3>2 DEF ChannelsSound
      <4> QED
        BY <4>1, <4>2, <4>3, <3>1
    <3>4. StageSound'
      <4> SUFFICES ASSUME NEW h \in Handles, NEW q \in Endpoints, NEW s \in Streams,
                          handles[h].at = q, handles[h].id = s, stage'[h] # "Closed"
                   PROVE  Holds(q, s)' /\ HandleAt(q, s)' = h
        BY <3>1 DEF StageSound
      <4>1. stage'[h] = stage[h] /\ ~ \E t \in m.streams : Holds(e, t) /\ h = HandleAt(e, t)
        BY <3>1
      <4>2. Holds(q, s) /\ HandleAt(q, s) = h
        BY <4>1 DEF StageSound
      <4> QED
        BY <4>1, <4>2, <3>1
    <3>5. ActionsSound'
      BY <3>1, <2>0, ActionsSoundKept
    <3> QED
      BY <3>3, <3>4, <3>5
  <2>3. ASSUME NEW s \in Streams, m.from \in Handles, Handled(e, m, s, w) PROVE Coherent'
    <3>1. CASE IsRefused(e, s, w) \/ IsIgnored(w) \/ IsDelivered(e, m, s, w)
      BY <3>1, <2>0, <1>1 DEF IsRefused, IsIgnored, IsDelivered
    <3>2. CASE ClosesThere(e, s, w)
      <4>1. ChannelsSound' /\ StageSound'
        BY <3>2, <2>1, ClosedLocally, StateMoves DEF ClosesThere
      <4> QED
        BY <4>1, <3>2, <2>0, ActionsSoundKept DEF ClosesThere
    <3>3. CASE IsAnswered(e, s, w)
      <4>0. /\ Holds(e, s) /\ Handles' = Handles /\ UNCHANGED handles
            /\ \A q \in Endpoints : \A t :
                 /\ Holds(q, t)' = Holds(q, t)
                 /\ Holds(q, t) => HandleAt(q, t)' = HandleAt(q, t)
                 /\ Holds(q, t) => StateAt(q, t)' = IF q = e /\ t = s THEN "Open" ELSE StateAt(q, t)
            /\ stage'[HandleAt(e, s)] = "Open" /\ \A h \in Handles : h # HandleAt(e, s) => stage'[h] = stage[h]
        BY <3>3, AckOpens DEF IsAnswered
      <4>1. ChannelsSound' /\ StageSound'
        BY <4>0, StateMoves
      <4> QED
        BY <4>1, <3>3, <2>0, ActionsSoundKept DEF IsAnswered
    <3>4. CASE IsAccepted(e, m, s, w)
      <4> DEFINE n == Len(handles) + 1
      <4>1. /\ Handles' = Handles \cup {n} /\ n \notin Handles
            /\ handles'[n].at = e /\ handles'[n].id = s
            /\ \A h \in Handles : handles'[h] = handles[h] /\ stage'[h] = stage[h]
            /\ Holds(e, s)' /\ HandleAt(e, s)' = n /\ StateAt(e, s)' = stage'[n] /\ ~ Holds(e, s)
            /\ \A q \in Endpoints : \A t : q # e \/ t # s =>
                 /\ Holds(q, t)' = Holds(q, t)
                 /\ Holds(q, t) => HandleAt(q, t)' = HandleAt(q, t) /\ StateAt(q, t)' = StateAt(q, t)
        BY <3>4, <2>1, <2>3, OpenAccepted DEF IsAccepted
      <4> HIDE DEF n
      <4>2. ChannelsSound' /\ StageSound'
        BY <4>1, HandleAppears
      <4> QED
        BY <4>1, <4>2, <2>0, ActionsSoundKept
    <3> QED
      BY <3>1, <3>2, <3>3, <3>4, <2>3 DEF Handled
  <2> QED
    BY <2>1, <2>2, <2>3
<1>6. ASSUME NEW e \in Endpoints, NEW ordered \in Orderings, CreateDataChannel(e, ordered) PROVE Coherent'
  <2> DEFINE n == Len(handles) + 1
  <2>1. PICK s \in Streams :
           /\ ~ Holds(e, s) /\ Handles' = Handles \cup {n} /\ n \notin Handles
           /\ handles'[n].at = e /\ handles'[n].id = s
           /\ \A h \in Handles : handles'[h] = handles[h] /\ stage'[h] = stage[h]
           /\ Holds(e, s)' /\ HandleAt(e, s)' = n /\ StateAt(e, s)' = stage'[n]
           /\ \A q \in Endpoints : \A t : q # e \/ t # s =>
                /\ Holds(q, t)' = Holds(q, t)
                /\ Holds(q, t) => HandleAt(q, t)' = HandleAt(q, t) /\ StateAt(q, t)' = StateAt(q, t)
    BY <1>6, CreatedChannel
  <2> HIDE DEF n
  <2>2. ChannelsSound' /\ StageSound'
    BY <2>1, HandleAppears
  <2>3. ActionsSound'
    BY <1>6, <2>1, ActionsSoundKept DEF CreateDataChannel
  <2> QED
    BY <2>2, <2>3
<1>7. ASSUME NEW h \in Handles, SendMessage(h) \/ Close(h) \/ Drop(h) PROVE Coherent'
  <2>1. /\ Handles' = Handles
        /\ \A g \in Handles : handles'[g].at = handles[g].at /\ handles'[g].id = handles[g].id
    <3>1. CASE SendMessage(h)
      BY <3>1 DEF SendMessage, Handles
    <3>2. CASE Close(h)
      BY <3>2, HeldChanged DEF Close
    <3>3. CASE Drop(h)
      BY <3>3, HeldChanged DEF Drop
    <3> QED
      BY <3>1, <3>2, <3>3, <1>7
  <2>2. ChannelsSound' /\ StageSound'
    BY <2>1, <1>7, PlacesKept DEF SendMessage, Close, Drop
  <2>3. ActionsSound'
    <3>1. CASE UNCHANGED actions
      BY <3>1, <2>1, ActionsSoundKept
    <3>2. ASSUME NEW kind \in {"SendMessage", "Close"}, Enqueue(handles[h].at, kind, handles[h].id, h) PROVE ActionsSound'
      <4>1. \A q \in Endpoints : \A a \in ToSet(actions'[q]) :
              a \in ToSet(actions[q]) \/ (q = handles[h].at /\ a.id = handles[h].id /\ a.handle = h)
        BY <3>2, Enqueued
      <4> QED
        BY <4>1, <2>1 DEF ActionsSound, TypeInv, ActionTypes
    <3> QED
      BY <3>1, <3>2, <1>7 DEF SendMessage, Close, Drop
  <2> QED
    BY <2>2, <2>3
<1> QED
  BY <1>2, <1>3, <1>4, <1>5, <1>6, <1>7 DEF Next, Poll, Application

LEMMA AlwaysCoherent == Spec => []Coherent
BY InitCoherent, NextCoherent, Typed, PTL DEF Spec
-----------------------------------------------------------------------------
(***************************************************************************)
(* The DTLS roles are fixed before anything is sent: until one of the two  *)
(* is connected there are only channels created early, and from then on    *)
(* each side opens channels on its own streams.                            *)
(***************************************************************************)
SessionSound ==
  /\ client["a"] /\ client["b"] = ~ described["b"]
  /\ \A q \in Endpoints : assoc[q] # "Disconnected" => described[q]
  /\ \A q \in Endpoints : assoc[q] = "Connected" => assoc[Peer(q)] # "Disconnected"

Quiet == \A q \in Endpoints : assoc[q] # "Connected"

QuietSound ==
  Quiet => /\ \A q \in Endpoints : /\ wire[q] = << >> /\ actions[q] = << >>
                                   /\ pending[q] = {} /\ resetting[q] = {} /\ ~ answered[q]
           /\ \A h \in Handles : handles[h].state = "Closed" /\ stage[h] = "Closed"

\* An open goes to the guest of its stream, its answer to the owner.
Headed ==
  \A q \in Endpoints : \A m \in OnWire(q) : \A s \in Streams :
    s \in m.streams => (m.kind = "Open" => q = Guest(s)) /\ (m.kind = "Ack" => q = Owner(s))

Settled == SessionSound /\ QuietSound /\ Headed

LEMMA InitSettled == Init => Settled
<1> SUFFICES ASSUME Init PROVE Settled
  OBVIOUS
<1>1. SessionSound
  BY DEF Init, SessionSound
<1>2. QuietSound
  <2>1. Handles = {}
    BY DEF Init, Handles
  <2> QED
    BY <2>1 DEF Init, AssociationInit, QuietSound
<1>3. Headed
  BY DEF Init, AssociationInit, Headed, OnWire, ToSet
<1> QED
  BY <1>1, <1>2, <1>3 DEF Settled

LEMMA Roles ==
  ASSUME TypeInv, SessionSound, NEW e \in Endpoints, assoc[e] = "Connected", NEW s \in Streams
  PROVE  s % 2 = OwnParity(e) <=> e = Owner(s)
<1>1. client["a"] = TRUE /\ client["b"] = FALSE
  BY Both DEF SessionSound, TypeInv, SessionTypes
<1>2. s % 2 = 0 \/ s % 2 = 1
  <2>1. s \in Nat
    BY DEF Streams
  <2> QED
    BY <2>1
<1> QED
  BY <1>1, <1>2 DEF OwnParity, Owner

LEMMA NextSession == TypeInv /\ SessionSound /\ [Next]_vars => SessionSound'
<1> SUFFICES ASSUME TypeInv, SessionSound, [Next]_vars PROVE SessionSound'
  OBVIOUS
<1>1. CASE UNCHANGED <<assoc, described, client>>
  BY <1>1 DEF SessionSound
<1>2. ASSUME NEW e \in Endpoints, Session(e) PROVE SessionSound'
  BY <1>2 DEF Session, SetRemoteDescription, HandleTransportConnected, AssocChange, SessionSound, TypeInv, SessionTypes,
              Server, Peer
<1>3. CASE UNCHANGED vars
  BY <1>1, <1>3 DEF vars, endpointVars
<1>4. ASSUME NEW e \in Endpoints, Poll(e) PROVE SessionSound'
  BY <1>1, <1>4 DEF Poll, ProcessAction, Receive, ResetAnswered
<1>5. CASE Application
  BY <1>1, <1>5 DEF Application, CreateDataChannel, SendMessage, Close, Drop
<1> QED
  BY <1>2, <1>3, <1>4, <1>5 DEF Next

LEMMA NextQuiet == TypeInv /\ QuietSound /\ [Next]_vars => QuietSound'
<1> SUFFICES ASSUME TypeInv, QuietSound, [Next]_vars, Quiet' PROVE QuietSound'
  BY DEF QuietSound
<1>1. Quiet
  <2>1. CASE UNCHANGED assoc
    BY <2>1 DEF Quiet
  <2>2. ASSUME NEW e \in Endpoints, Session(e) PROVE Quiet
    BY <2>2 DEF Session, SetRemoteDescription, HandleTransportConnected, AssocChange, Quiet, TypeInv, SessionTypes
  <2>3. CASE UNCHANGED vars
    BY <2>1, <2>3 DEF vars, endpointVars
  <2>4. ASSUME NEW e \in Endpoints, Poll(e) PROVE Quiet
    BY <2>1, <2>4 DEF Poll, ProcessAction, Receive, ResetAnswered
  <2>5. CASE Application
    BY <2>1, <2>5 DEF Application, CreateDataChannel, SendMessage, Close, Drop
  <2> QED
    BY <2>2, <2>3, <2>4, <2>5 DEF Next
<1>2. /\ \A q \in Endpoints : wire[q] = << >> /\ actions[q] = << >> /\ pending[q] = {} /\ resetting[q] = {} /\ ~ answered[q]
      /\ \A h \in Handles : handles[h].state = "Closed" /\ stage[h] = "Closed"
  BY <1>1 DEF QuietSound
<1>3. ASSUME UNCHANGED <<wire, actions, pending, resetting, answered, stage>>, Handles' = Handles,
             \A h \in Handles : handles'[h].state = handles[h].state
      PROVE  QuietSound'
  BY <1>2, <1>3 DEF QuietSound
<1>4. CASE UNCHANGED handles /\ UNCHANGED <<wire, actions, pending, resetting, answered, stage>>
  <2>1. Handles' = Handles
    BY <1>4 DEF Handles
  <2> QED
    BY <2>1, <1>3, <1>4
<1>5. CASE UNCHANGED vars
  BY <1>4, <1>5 DEF vars, association, endpointVars, handleVars
<1>6. ASSUME NEW e \in Endpoints, Session(e) PROVE QuietSound'
  BY <1>4, <1>6 DEF Session, SetRemoteDescription, HandleTransportConnected, AssocChange, association, handleVars
<1>7. ASSUME NEW e \in Endpoints, Poll(e) PROVE FALSE
  BY <1>1, <1>2, <1>7 DEF Poll, ProcessAction, Receive, ResetAnswered, Quiet
<1>8. ASSUME NEW h \in Handles, SendMessage(h) \/ Close(h) \/ Drop(h) PROVE QuietSound'
  <2>1. handles[h].state = "Closed"
    BY <1>2
  <2>2. Drop(h) /\ UNCHANGED <<wire, actions, pending, resetting, answered, stage, inbox>>
    BY <2>1, <1>8 DEF SendMessage, Close, Drop, association
  <2>3. Handles' = Handles /\ \A g \in Handles : handles'[g].state = handles[g].state
    BY <2>2, HeldChanged DEF Drop
  <2> QED
    BY <2>2, <2>3, <1>3
<1>9. ASSUME NEW e \in Endpoints, NEW ordered \in Orderings, CreateDataChannel(e, ordered) PROVE QuietSound'
  <2> DEFINE n == Len(handles) + 1
  <2>0. assoc[e] # "Connected"
    BY <1>1 DEF Quiet
  <2>1. /\ Handles' = Handles \cup {n} /\ stage'[n] = "Closed" /\ handles'[n].state = "Closed" /\ UNCHANGED wire
        /\ \A h \in Handles : handles'[h] = handles[h] /\ stage'[h] = stage[h]
    BY <2>0, <1>9, CreatedChannel
  <2>2. UNCHANGED <<actions, pending, resetting, answered>>
    BY <1>9 DEF CreateDataChannel
  <2> HIDE DEF n
  <2> QED
    BY <2>1, <2>2, <1>2 DEF QuietSound
<1> QED
  BY <1>5, <1>6, <1>7, <1>8, <1>9 DEF Next, Application

LEMMA NextHeaded == TypeInv /\ SessionSound /\ Headed /\ [Next]_vars => Headed'
<1> SUFFICES ASSUME TypeInv, SessionSound, Headed, [Next]_vars PROVE Headed'
  OBVIOUS
<1>1. ASSUME \A q \in Endpoints : \A m \in OnWire(q)' : m \in OnWire(q) \/ m.kind \notin {"Open", "Ack"} PROVE Headed'
  BY <1>1 DEF Headed
<1>2. CASE UNCHANGED wire
  BY <1>1, <1>2 DEF OnWire
<1>3. ASSUME NEW e \in Endpoints, Session(e) PROVE Headed'
  BY <1>2, <1>3 DEF Session, SetRemoteDescription, HandleTransportConnected, AssocChange, association
<1>4. ASSUME NEW e \in Endpoints, NEW s \in Streams, NEW f, NEW kind \in {"Open", "Ack"},
             OnWire(e)' \subseteq OnWire(e), \A m \in OnWire(Peer(e))' : m \in OnWire(Peer(e)) \/ m = Control(kind, s, f),
             Peer(e) = IF kind = "Open" THEN Guest(s) ELSE Owner(s)
      PROVE  Headed'
  <2> SUFFICES ASSUME NEW q \in Endpoints, NEW m \in OnWire(q)', NEW t \in Streams, t \in m.streams
               PROVE  (m.kind = "Open" => q = Guest(t)) /\ (m.kind = "Ack" => q = Owner(t))
    BY DEF Headed
  <2>1. CASE m \in OnWire(q)
    BY <2>1 DEF Headed
  <2>2. CASE q = Peer(e) /\ m = Control(kind, s, f)
    <3>1. m.kind = kind /\ m.streams = {s}
      BY <2>2 DEF Control
    <3> QED
      BY <3>1, <2>2, <1>4
  <2> QED
    BY <2>1, <2>2, <1>4, Both
<1>5. ASSUME NEW e \in Endpoints, ResetAnswered(e) PROVE Headed'
  <2> DEFINE t == IF pending[e] = {} THEN << >> ELSE <<Reset(pending[e])>>
  <2>1. AtMostOne(t) /\ \A n \in ToSet(t) : n.kind = "Reset"
    <3>1. Reset(pending[e]) \in Message /\ Reset(pending[e]).kind = "Reset"
      BY MessagesMade DEF Reset, TypeInv, ChannelTypes
    <3> QED
      BY <3>1 DEF AtMostOne, ToSet
  <2>2. wire' = [wire EXCEPT ![Peer(e)] = @ \o t] /\ FromWire(wire)
    BY <1>5, WireItself DEF ResetAnswered, Transmit, TypeInv
  <2> HIDE DEF t
  <2>3. OnWire(e)' \subseteq OnWire(e) /\ OnWire(Peer(e))' \subseteq OnWire(Peer(e)) \cup ToSet(t)
    BY <2>1, <2>2, Transmitted DEF TypeInv
  <2> QED
    BY <2>1, <2>3, <1>1, Both
<1>6. ASSUME NEW e \in Endpoints, ProcessAction(e) PROVE Headed'
  <2> DEFINE a == Head(actions[e])
  <2>1. a \in ActionRecord /\ a.id \in Streams /\ a.handle \in Handles /\ UNCHANGED <<handles, inbox>>
    BY <1>6, FirstAction DEF ProcessAction, ActionRecord, TypeInv, ActionTypes
  <2>2. CASE Closable(e, a.id) /\ CloseLocally(e, a.id, wire)
    <3>0. FromWire(wire)
      BY WireItself DEF TypeInv
    <3>1. \A q \in Endpoints : \A m \in OnWire(q)' : m \in OnWire(q) \/ m.kind = "Reset"
      BY <3>0, <2>1, <2>2, ClosedLocally
    <3> QED
      BY <3>1, <1>1
  <2>3. CASE a.kind = "SendMessage" /\ Holds(e, a.id)
    <3>1. PICK ordered \in BOOLEAN, open \in BOOLEAN : Transmit(e, Sent(e, Data(a.id, a.handle, ordered, open)))
      <4> DEFINE ord == LET c == channels[e][a.id] IN c.state = "Open" => handles[c.handle].ordered
      <4>1. channels[e][a.id].handle \in Handles
        BY <2>3, HeldHandle DEF HandleAt
      <4>2. ord \in BOOLEAN
        BY <4>1, RecordOf DEF HandleRecord
      <4>3. Transmit(e, Sent(e, Data(a.id, a.handle, ord, stage[a.handle] = "Open")))
        BY <2>3, <1>6 DEF ProcessAction
      <4> HIDE DEF ord
      <4> QED
        BY <4>2, <4>3
    <3> HIDE DEF a
    <3>2. /\ OnWire(e)' \subseteq OnWire(e)
          /\ \A m \in OnWire(Peer(e))' : m \in OnWire(Peer(e)) \/ m = Data(a.id, a.handle, ordered, open)
      BY <3>1, <2>1, MessageSent
    <3>3. Data(a.id, a.handle, ordered, open).kind = "Data"
      BY DEF Data
    <3> QED
      BY <3>2, <3>3, <1>1, Both
  <2>4. CASE UNCHANGED wire
    BY <2>4, <1>2
  <2> QED
    BY <2>2, <2>3, <2>4, <1>6 DEF ProcessAction
<1>7. ASSUME NEW e \in Endpoints, Receive(e) PROVE Headed'
  <2>1. PICK i, m, w :
           /\ Takes(e, i, m, w) /\ FromWire(w) /\ m \in OnWire(e) /\ m \in Message
           /\ \/ m.kind = "Reset" /\ ReceiveReset(e, m, w)
              \/ /\ m.kind # "Reset"
                 /\ \E s \in Streams : m.streams = {s} /\ m.from \in Handles /\ Handled(e, m, s, w)
    BY <1>7, ReceiveCases
  <2>2. CASE m.kind = "Reset" /\ ReceiveReset(e, m, w)
    <3>1. \A q \in Endpoints : \A k \in OnWire(q)' : k \in OnWire(q) \/ k.kind = "Reset"
      BY <2>1, <2>2, ChannelsReset
    <3> QED
      BY <3>1, <1>1
  <2>3. ASSUME NEW s \in Streams, m.streams = {s}, m.from \in Handles, Handled(e, m, s, w) PROVE Headed'
    <3>0. s % 2 = OwnParity(e) <=> e = Owner(s)
      BY <1>7, Roles DEF Receive
    <3>1. CASE m.kind = "Open" /\ IsRefused(e, s, w)
      BY <3>0, <3>1, <2>1, <2>3, OwnerAndGuest DEF IsRefused, Headed
    <3>2. CASE ClosesThere(e, s, w)
      <4>1. \A q \in Endpoints : \A k \in OnWire(q)' : k \in OnWire(q) \/ k.kind = "Reset"
        BY <3>2, <2>1, ClosedLocally DEF ClosesThere
      <4> QED
        BY <4>1, <1>1
    <3>3. CASE IsAccepted(e, m, s, w)
      <4>1. /\ OnWire(e)' \subseteq OnWire(e)
            /\ \A k \in OnWire(Peer(e))' : k \in OnWire(Peer(e)) \/ k = Control("Ack", s, m.from)
        BY <3>3, <2>1, <2>3, OpenAccepted DEF IsAccepted
      <4>2. Peer(e) = Owner(s)
        BY <3>0, <3>3, OwnerAndGuest, Both DEF IsAccepted
      <4> QED
        BY <4>1, <4>2, <1>4
    <3>4. CASE wire' = w
      <4>1. \A q \in Endpoints : OnWire(q)' \subseteq OnWire(q)
        BY <3>4, <2>1 DEF FromWire, OnWire
      <4> QED
        BY <4>1, <1>1
    <3> QED
      BY <3>1, <3>2, <3>3, <3>4, <2>3 DEF Handled, IsAnswered, IsDelivered, IsIgnored
  <2> QED
    BY <2>1, <2>2, <2>3
<1>8. ASSUME NEW e \in Endpoints, NEW ordered \in Orderings, CreateDataChannel(e, ordered) PROVE Headed'
  <2> DEFINE n == Len(handles) + 1
  <2>1. PICK s \in FreeIds(e) :
           s \in Streams /\ IF assoc[e] = "Connected" THEN Transmit(e, Sent(e, Control("Open", s, n))) ELSE UNCHANGED wire
    BY <1>8, CreatedChannel
  <2>2. CASE assoc[e] = "Connected"
    <3> DEFINE t == Sent(e, Control("Open", s, n))
    <3>1. n \in Nat
      BY DEF TypeInv, HandleTypes
    <3>2. AtMostOne(t) /\ \A k \in ToSet(t) : k = Control("Open", s, n)
      BY <3>1, <2>1, MessagesMade, SentMessage
    <3>3. wire' = [wire EXCEPT ![Peer(e)] = @ \o t] /\ FromWire(wire)
      BY <2>1, <2>2, WireItself DEF Transmit, TypeInv
    <3> HIDE DEF t, n
    <3>4. OnWire(e)' \subseteq OnWire(e) /\ OnWire(Peer(e))' \subseteq OnWire(Peer(e)) \cup ToSet(t)
      BY <3>2, <3>3, Transmitted DEF TypeInv
    <3>5. Peer(e) = Guest(s)
      BY <2>1, <2>2, Roles, OwnerAndGuest DEF FreeIds
    <3> QED
      BY <3>2, <3>4, <3>5, <2>1, <1>4
  <2>3. CASE assoc[e] # "Connected"
    BY <2>1, <2>3, <1>2
  <2> QED
    BY <2>2, <2>3
<1>9. CASE UNCHANGED vars
  BY <1>2, <1>9 DEF vars, association
<1>10. ASSUME NEW h \in Handles, SendMessage(h) \/ Close(h) \/ Drop(h) PROVE Headed'
  BY <1>2, <1>10 DEF SendMessage, Close, Drop, association
<1> QED
  BY <1>3, <1>5, <1>6, <1>7, <1>8, <1>9, <1>10 DEF Next, Poll, Application

LEMMA AlwaysSettled == Spec => []Settled
<1>1. TypeInv /\ Settled /\ [Next]_vars => Settled'
  BY NextSession, NextQuiet, NextHeaded DEF Settled
<1> QED
  BY <1>1, InitSettled, Typed, PTL DEF Spec
-----------------------------------------------------------------------------
(***************************************************************************)
(* The wire: a reset is the last of its kind, nothing follows it on the    *)
(* streams it is about, and no two opens of one stream are on it.          *)
(***************************************************************************)
ResetsSoundAt(q) ==
  /\ \A m \in OnWire(Peer(q)) : m.kind = "Reset" => m.streams = resetting[q] /\ m.streams # {} /\ ~ answered[q]
  /\ answered[q] => resetting[q] # {}

ResetsSound == \A q \in Endpoints : ResetsSoundAt(q)

\* A handle the peer of its side accepted.
Accepted(h) == \E g \in Handles : g # h /\ handles[g].opener = h

\* Opens and acknowledgements of a stream under way.
Opens(s) == {m \in OnWire(Guest(s)) : m.kind = "Open" /\ s \in m.streams}
Acks(s)  == {m \in OnWire(Owner(s)) : m.kind = "Ack" /\ s \in m.streams}

(***************************************************************************)
(* One stream: what its owner, its guest and the wire know of each other.  *)
(***************************************************************************)
\* The owner has channels it opened, open ones when they were accepted; a
\* channel the guest opened is one it created before the roles were fixed.
OwnerSound(s) ==
  /\ Holds(Owner(s), s) => OpenerAt(Owner(s), s) = HandleAt(Owner(s), s)
  /\ Holds(Guest(s), s) /\ OpenerAt(Guest(s), s) = HandleAt(Guest(s), s) => StateAt(Guest(s), s) = "Closed"
  /\ Holds(Owner(s), s) /\ StateAt(Owner(s), s) = "Open" => Accepted(HandleAt(Owner(s), s))

\* A guest whose channel is open shares it with the owner.
GuestOpen(s) ==
  Holds(Guest(s), s) /\ StateAt(Guest(s), s) \in {"Connecting", "Open"} =>
    /\ StateAt(Guest(s), s) = "Open" /\ ~ Asks(Guest(s), s)
    /\ Holds(Owner(s), s) /\ OpenerAt(Guest(s), s) = HandleAt(Owner(s), s)

\* A guest that asks for the reset of the stream had the owner's channel.
GuestAsks(s) ==
  Asks(Guest(s), s) => Holds(Owner(s), s) /\ Accepted(HandleAt(Owner(s), s)) /\ ~ Twice(Guest(s), s)

\* An open under way is that of the owner's channel, which nobody accepted.
OpensSound(s) ==
  \A m \in Opens(s) : /\ Holds(Owner(s), s) /\ HandleAt(Owner(s), s) = m.from /\ ~ Accepted(m.from)
                      /\ StateAt(Owner(s), s) \in {"Connecting", "Closing"}

AcksSound(s) ==
  \A m \in Acks(s) : Holds(Owner(s), s) /\ HandleAt(Owner(s), s) = m.from /\ Accepted(m.from)

\* An owner whose channel is open, or will be, shares it with the guest.
OwnerOpen(s) ==
  Holds(Owner(s), s) /\ StateAt(Owner(s), s) \in {"Connecting", "Open"} /\ Accepted(HandleAt(Owner(s), s)) =>
    Holds(Guest(s), s) /\ OpenerAt(Guest(s), s) = HandleAt(Owner(s), s) /\ ~ Asks(Owner(s), s)

\* A reset of the owner that an open under way will meet at the guest is that
\* of an earlier channel, which the guest still has.
OpenAfterReset(s) ==
  Opens(s) # {} /\ Asks(Owner(s), s) /\ (StateAt(Owner(s), s) = "Connecting" \/ Twice(Owner(s), s)) => Holds(Guest(s), s)

\* The owner asks twice for the reset of a stream only when the second channel
\* closes before it is accepted.
OwnerTwice(s) == Holds(Owner(s), s) /\ Twice(Owner(s), s) => ~ Accepted(HandleAt(Owner(s), s))

\* An owner whose channel is gone while it still asks for the reset is met by
\* a guest that has not heard of it.
OwnerGone(s) == ~ Holds(Owner(s), s) /\ Asks(Owner(s), s) => Holds(Guest(s), s) /\ ~ Twice(Owner(s), s)
BothAsk(s) == Holds(Owner(s), s) /\ Asks(Guest(s), s) /\ Asks(Owner(s), s) => Holds(Guest(s), s)

StreamSound(s) ==
  /\ OwnerSound(s) /\ GuestOpen(s) /\ GuestAsks(s) /\ OpensSound(s) /\ AcksSound(s) /\ OwnerOpen(s)
  /\ OpenAfterReset(s) /\ OwnerTwice(s) /\ OwnerGone(s) /\ BothAsk(s)

StreamsSound == \A s \in Streams : StreamSound(s)

\* Data sent on an open channel finds that channel.
DataSound ==
  \A q \in Endpoints, s \in Streams : \A m \in OnWire(q) :
    m.kind = "Data" /\ m.open /\ s \in m.streams => Holds(q, s) /\ OpenerAt(q, s) = handles[m.from].opener

Protocol == WireOrder /\ ResetsSound /\ StreamsSound /\ DataSound

LEMMA InitProtocol == Init => Protocol
<1> SUFFICES ASSUME Init PROVE Protocol
  OBVIOUS
<1>1. \A q \in Endpoints : wire[q] = << >> /\ OnWire(q) = {} /\ ~ answered[q] /\ pending[q] = {} /\ \A s : ~ Holds(q, s)
  BY DEF Init, AssociationInit, OnWire, ToSet, Holds
<1>2. WireOrder
  BY <1>1 DEF WireOrder, Ordered
<1>3. ResetsSound
  BY <1>1, Both DEF ResetsSound, ResetsSoundAt
<1>4. DataSound
  BY <1>1 DEF DataSound
<1>5. ASSUME NEW s \in Streams PROVE StreamSound(s)
  <2>1. Owner(s) \in Endpoints /\ Guest(s) \in Endpoints
    BY OwnerAndGuest
  <2>2. Opens(s) = {} /\ Acks(s) = {} /\ ~ Holds(Owner(s), s) /\ ~ Holds(Guest(s), s)
    BY <2>1, <1>1 DEF Opens, Acks
  <2>3. ~ Asks(Owner(s), s) /\ ~ Asks(Guest(s), s)
    BY <2>1, <1>1, Both DEF Asks, Requested
  <2> QED
    BY <2>2, <2>3 DEF StreamSound, OwnerSound, GuestOpen, GuestAsks, OpensSound, AcksSound, OwnerOpen, OpenAfterReset,
                      OwnerTwice, OwnerGone, BothAsk
<1> QED
  BY <1>2, <1>3, <1>4, <1>5 DEF Protocol, StreamsSound
-----------------------------------------------------------------------------
(***************************************************************************)
(* The order of the wire is kept.                                          *)
(***************************************************************************)
\* A reset is sent when none of the same side is under way.
LEMMA ResetOrdered ==
  ASSUME TypeInv, WireOrder, ResetsSound, NEW e \in Endpoints, NEW P \in SUBSET Streams, SendResets(e, P),
         NEW w, FromWire(w), wire' = [w EXCEPT ![Peer(e)] = @ \o ResetRequest(e, P)], answered'[e] = answered[e]
  PROVE  /\ WireOrder' /\ ResetsSoundAt(e)'
         /\ OnWire(e)' \subseteq OnWire(e) /\ resetting'[Peer(e)] = resetting[Peer(e)]
<1> DEFINE t == ResetRequest(e, P)
<1>0. Peer(e) \in Endpoints /\ Peer(e) # e
  BY Both
<1>1. AtMostOne(t) /\ \A n \in ToSet(t) : n = Reset(P) /\ P # {} /\ resetting[e] = {}
  BY RequestMade
<1>2. \A n \in ToSet(t) : n.kind = "Reset" /\ n.streams = P /\ P # {} /\ resetting[e] = {}
  BY <1>1 DEF Reset
<1>3. /\ resetting' = [resetting EXCEPT ![e] = NowResetting(e, P)] /\ resetting \in [Endpoints -> SUBSET Streams]
  BY DEF SendResets, TypeInv, ChannelTypes
<1>4. resetting'[e] = NowResetting(e, P) /\ resetting'[Peer(e)] = resetting[Peer(e)]
  BY <1>0, <1>3
<1>5. WireTypes /\ wire' = [w EXCEPT ![Peer(e)] = @ \o t]
  BY DEF TypeInv
<1> HIDE DEF t
<1>6. /\ OnWire(e)' \subseteq OnWire(e) /\ OnWire(Peer(e))' \subseteq OnWire(Peer(e)) \cup ToSet(t)
      /\ WireOrder /\ (\A m \in OnWire(Peer(e)), n \in ToSet(t) : Before(m, n)) => WireOrder'
  BY <1>1, <1>5, Transmitted
<1>7. \A m \in OnWire(Peer(e)) : m.kind = "Reset" => m.streams = resetting[e] /\ resetting[e] # {} /\ ~ answered[e]
  BY DEF ResetsSound, ResetsSoundAt
<1>8. \A m \in OnWire(Peer(e)), n \in ToSet(t) : Before(m, n)
  BY <1>2, <1>7 DEF Before
<1>9. answered[e] => resetting[e] # {}
  BY DEF ResetsSound, ResetsSoundAt
<1>10. resetting'[e] = IF resetting[e] # {} THEN resetting[e] ELSE P
  BY <1>4 DEF NowResetting, Refuses
<1>11. ResetsSoundAt(e)'
  <2>1. \A m \in OnWire(Peer(e))' : m.kind = "Reset" => m.streams = resetting'[e] /\ m.streams # {} /\ ~ answered'[e]
    BY <1>2, <1>6, <1>7, <1>9, <1>10
  <2>2. answered'[e] => resetting'[e] # {}
    BY <1>9, <1>10
  <2> QED
    BY <2>1, <2>2 DEF ResetsSoundAt
<1> QED
  BY <1>4, <1>6, <1>8, <1>11

\* Nothing becomes of the resets when none is sent, answered or received.
LEMMA ResetsSoundKept ==
  ASSUME ResetsSound, UNCHANGED <<resetting, answered>>,
         \A q \in Endpoints : \A m \in OnWire(q)' : m.kind = "Reset" => m \in OnWire(q)
  PROVE  ResetsSound'
BY Both DEF ResetsSound, ResetsSoundAt

\* A request leaves those of the peer alone.
LEMMA OwnResetsSound ==
  ASSUME ResetsSound, NEW e \in Endpoints, ResetsSoundAt(e)', OnWire(e)' \subseteq OnWire(e),
         resetting'[Peer(e)] = resetting[Peer(e)], answered'[Peer(e)] = answered[Peer(e)]
  PROVE  ResetsSound'
<1>1. ResetsSoundAt(Peer(e))'
  <2>1. Peer(Peer(e)) = e /\ Peer(e) \in Endpoints
    BY Both
  <2>2. ResetsSoundAt(Peer(e))
    BY <2>1 DEF ResetsSound
  <2> QED
    BY <2>1, <2>2 DEF ResetsSoundAt
<1>2. \A q \in Endpoints : q = e \/ q = Peer(e)
  BY Both
<1> QED
  BY <1>1, <1>2 DEF ResetsSound

\* A message of a stream is sent after the resets that are not about it.
LEMMA MessageOrdered ==
  ASSUME TypeInv, WireOrder, ResetsSound, NEW e \in Endpoints, NEW n \in Message, NEW s \in Streams, n.streams = {s},
         n.kind # "Reset", n.kind = "Open" => \A m \in OnWire(Peer(e)) : m.kind = "Open" => s \notin m.streams,
         Transmit(e, Sent(e, n)), UNCHANGED <<resetting, answered>>
  PROVE  /\ WireOrder' /\ ResetsSound'
         /\ OnWire(e)' \subseteq OnWire(e) /\ \A m \in OnWire(Peer(e))' : m \in OnWire(Peer(e)) \/ m = n
<1> DEFINE t == Sent(e, n)
<1>1. AtMostOne(t) /\ \A m \in ToSet(t) : m = n /\ n.streams \cap resetting[e] = {}
  BY SentMessage
<1>2. wire' = [wire EXCEPT ![Peer(e)] = @ \o t] /\ WireTypes /\ FromWire(wire)
  BY WireItself DEF Transmit, TypeInv
<1> HIDE DEF t
<1>3. /\ OnWire(e)' \subseteq OnWire(e) /\ OnWire(Peer(e))' \subseteq OnWire(Peer(e)) \cup ToSet(t)
      /\ WireOrder /\ (\A m \in OnWire(Peer(e)), k \in ToSet(t) : Before(m, k)) => WireOrder'
  BY <1>1, <1>2, Transmitted
<1>4. \A m \in OnWire(Peer(e)), k \in ToSet(t) : Before(m, k)
  BY <1>1 DEF Before, ResetsSound, ResetsSoundAt
<1>5. ResetsSound'
  <2>1. \A q \in Endpoints : \A m \in OnWire(q)' : m.kind = "Reset" => m \in OnWire(q)
    BY <1>1, <1>3, Both
  <2> QED
    BY <2>1, ResetsSoundKept
<1> QED
  BY <1>1, <1>3, <1>4, <1>5
-----------------------------------------------------------------------------
(***************************************************************************)
(* The streams, one lemma for each thing that can happen to one.           *)
(***************************************************************************)
\* The endpoint q sees the channel on t as before.
SameAt(q, t) ==
  /\ Holds(q, t)' = Holds(q, t)
  /\ Holds(q, t) => HandleAt(q, t)' = HandleAt(q, t) /\ StateAt(q, t)' = StateAt(q, t) /\ OpenerAt(q, t)' = OpenerAt(q, t)

\* It asks for no more resets than before.
AsksLess(q, t) == (Asks(q, t)' => Asks(q, t)) /\ (Twice(q, t)' => Twice(q, t))

\* Nothing new about t but data and resets is on the wire, and nobody accepted
\* a channel of its owner.
NoNews(t) ==
  /\ Opens(t)' \subseteq Opens(t) /\ Acks(t)' \subseteq Acks(t)
  /\ Holds(Owner(t), t) => Accepted(HandleAt(Owner(t), t))' = Accepted(HandleAt(Owner(t), t))

LEMMA TwiceAsks == \A q, t : Twice(q, t) => Asks(q, t)
BY DEF Twice, Asks

LEMMA StreamKept ==
  ASSUME NEW s \in Streams, StreamSound(s), SameAt(Owner(s), s), SameAt(Guest(s), s), NoNews(s),
         AsksLess(Owner(s), s), AsksLess(Guest(s), s)
  PROVE  StreamSound(s)'
<1> USE DEF SameAt, NoNews, AsksLess
<1>1. OwnerSound(s)'
  BY DEF StreamSound, OwnerSound
<1>2. GuestOpen(s)'
  BY DEF StreamSound, GuestOpen
<1>3. GuestAsks(s)'
  BY DEF StreamSound, GuestAsks
<1>4. OpensSound(s)'
  BY DEF StreamSound, OpensSound
<1>5. AcksSound(s)'
  BY DEF StreamSound, AcksSound
<1>6. OwnerOpen(s)'
  BY DEF StreamSound, OwnerOpen
<1>7. OpenAfterReset(s)'
  BY DEF StreamSound, OpenAfterReset, OpensSound
<1>8. OwnerTwice(s)' /\ OwnerGone(s)' /\ BothAsk(s)'
  BY DEF StreamSound, OwnerTwice, OwnerGone, BothAsk
<1> QED
  BY <1>1, <1>2, <1>3, <1>4, <1>5, <1>6, <1>7, <1>8 DEF StreamSound

\* The channel of q on s closes.
ClosingAt(q, s) ==
  /\ Holds(q, s) /\ StateAt(q, s) \in {"Connecting", "Open"}
  /\ Holds(q, s)' /\ HandleAt(q, s)' = HandleAt(q, s) /\ StateAt(q, s)' = "Closing" /\ OpenerAt(q, s)' = OpenerAt(q, s)
  /\ Twice(q, s)' => Asks(q, s)

LEMMA OwnerCloses ==
  ASSUME NEW s \in Streams, StreamSound(s), ClosingAt(Owner(s), s), SameAt(Guest(s), s), NoNews(s), AsksLess(Guest(s), s)
  PROVE  StreamSound(s)'
<1> USE DEF SameAt, NoNews, AsksLess, ClosingAt
<1>1. OwnerSound(s)'
  BY DEF StreamSound, OwnerSound
<1>2. GuestOpen(s)'
  BY DEF StreamSound, GuestOpen
<1>3. GuestAsks(s)'
  BY DEF StreamSound, GuestAsks
<1>4. OpensSound(s)'
  BY DEF StreamSound, OpensSound
<1>5. AcksSound(s)'
  BY DEF StreamSound, AcksSound
<1>6. OwnerOpen(s)' /\ OwnerGone(s)'
  BY DEF StreamSound, OwnerOpen, OwnerGone
<1>7. OpenAfterReset(s)'
  <2> SUFFICES ASSUME Opens(s)' # {}, Twice(Owner(s), s)' PROVE Holds(Guest(s), s)
    BY DEF OpenAfterReset
  <2>1. Opens(s) # {} /\ Asks(Owner(s), s)
    OBVIOUS
  <2>2. StateAt(Owner(s), s) = "Connecting"
    BY <2>1 DEF StreamSound, OpensSound
  <2> QED
    BY <2>1, <2>2 DEF StreamSound, OpenAfterReset
<1>8. OwnerTwice(s)'
  BY DEF StreamSound, OwnerTwice, OwnerOpen
<1>9. BothAsk(s)'
  BY DEF StreamSound, BothAsk, GuestAsks, OwnerOpen
<1> QED
  BY <1>1, <1>2, <1>3, <1>4, <1>5, <1>6, <1>7, <1>8, <1>9 DEF StreamSound

LEMMA GuestCloses ==
  ASSUME TypeInv, NEW s \in Streams, StreamSound(s), ClosingAt(Guest(s), s), SameAt(Owner(s), s), NoNews(s), AsksLess(Owner(s), s)
  PROVE  StreamSound(s)'
<1> USE DEF SameAt, NoNews, AsksLess, ClosingAt
<1>0. /\ ~ Asks(Guest(s), s) /\ Holds(Owner(s), s) /\ OpenerAt(Guest(s), s) = HandleAt(Owner(s), s)
      /\ OpenerAt(Guest(s), s) # HandleAt(Guest(s), s)
  BY DEF StreamSound, GuestOpen, OwnerSound
<1>1. OwnerSound(s)'
  BY <1>0 DEF StreamSound, OwnerSound
<1>2. GuestOpen(s)'
  BY DEF GuestOpen
<1>3. GuestAsks(s)'
  <2>1. HandleAt(Guest(s), s) \in Handles
    BY OwnerAndGuest, HeldHandle
  <2>2. Accepted(HandleAt(Owner(s), s))
    BY <2>1, <1>0 DEF Accepted, OpenerAt, HandleAt
  <2> QED
    BY <2>2, <1>0, TwiceAsks DEF GuestAsks
<1>4. OpensSound(s)'
  BY DEF StreamSound, OpensSound
<1>5. AcksSound(s)'
  BY DEF StreamSound, AcksSound
<1>6. OwnerOpen(s)'
  BY DEF StreamSound, OwnerOpen
<1>7. OpenAfterReset(s)' /\ OwnerTwice(s)' /\ OwnerGone(s)' /\ BothAsk(s)'
  BY DEF StreamSound, OpenAfterReset, OwnerTwice, OwnerGone, BothAsk
<1> QED
  BY <1>1, <1>2, <1>3, <1>4, <1>5, <1>6, <1>7 DEF StreamSound

\* The guest accepts the open m with the handle n.
LEMMA GuestAccepts ==
  ASSUME NEW s \in Streams, StreamSound(s), NEW m \in Opens(s), ~ Holds(Guest(s), s), Opens(s)' = {},
         SameAt(Owner(s), s), AsksLess(Owner(s), s), AsksLess(Guest(s), s), NEW n, n # m.from,
         Holds(Guest(s), s)', HandleAt(Guest(s), s)' = n, StateAt(Guest(s), s)' = "Open", OpenerAt(Guest(s), s)' = m.from,
         Accepted(m.from)', \A k \in Acks(s)' : k \in Acks(s) \/ k.from = m.from
  PROVE  StreamSound(s)'
<1> USE DEF SameAt, AsksLess
<1>0. /\ Holds(Owner(s), s) /\ HandleAt(Owner(s), s) = m.from /\ ~ Accepted(m.from)
      /\ StateAt(Owner(s), s) \in {"Connecting", "Closing"}
  BY DEF StreamSound, OpensSound
<1>1. OwnerSound(s)'
  BY <1>0 DEF StreamSound, OwnerSound
<1>2. ~ Asks(Guest(s), s)
  BY <1>0 DEF StreamSound, GuestAsks
<1>3. GuestOpen(s)' /\ GuestAsks(s)' /\ BothAsk(s)'
  BY <1>0, <1>2 DEF GuestOpen, GuestAsks, BothAsk
<1>4. OpensSound(s)' /\ OpenAfterReset(s)'
  BY DEF OpensSound, OpenAfterReset
<1>5. AcksSound(s)'
  BY <1>0 DEF StreamSound, AcksSound
<1>6. OwnerOpen(s)'
  BY <1>0 DEF StreamSound, OwnerOpen, OpenAfterReset
<1>7. OwnerTwice(s)' /\ OwnerGone(s)'
  BY <1>0, TwiceAsks DEF StreamSound, OwnerTwice, OwnerGone, OpenAfterReset
<1> QED
  BY <1>1, <1>3, <1>4, <1>5, <1>6, <1>7 DEF StreamSound

\* The owner creates a channel with the handle n.
LEMMA OwnerCreates ==
  ASSUME NEW s \in Streams, StreamSound(s), ~ Holds(Owner(s), s), NEW n,
         SameAt(Guest(s), s), AsksLess(Owner(s), s), AsksLess(Guest(s), s), ~ Accepted(n)',
         Holds(Owner(s), s)', HandleAt(Owner(s), s)' = n, OpenerAt(Owner(s), s)' = n, Acks(s)' \subseteq Acks(s),
         \/ StateAt(Owner(s), s)' = "Connecting" /\ \A k \in Opens(s)' : k \in Opens(s) \/ k.from = n
         \/ StateAt(Owner(s), s)' = "Closed" /\ Opens(s)' \subseteq Opens(s)
  PROVE  StreamSound(s)'
<1> USE DEF SameAt, AsksLess
<1>1. OwnerSound(s)'
  BY DEF StreamSound, OwnerSound
<1>2. Opens(s) = {} /\ Acks(s) = {} /\ ~ Asks(Guest(s), s)
  BY DEF StreamSound, OpensSound, AcksSound, GuestAsks
<1>3. ~ (Holds(Guest(s), s) /\ StateAt(Guest(s), s) \in {"Connecting", "Open"})
  BY DEF StreamSound, GuestOpen
<1>4. GuestOpen(s)' /\ GuestAsks(s)' /\ BothAsk(s)' /\ OwnerGone(s)' /\ OwnerTwice(s)' /\ OwnerOpen(s)' /\ AcksSound(s)'
  BY <1>2, <1>3 DEF GuestOpen, GuestAsks, BothAsk, OwnerGone, OwnerTwice, OwnerOpen, AcksSound
<1>5. OpensSound(s)'
  BY <1>2 DEF OpensSound
<1>6. OpenAfterReset(s)'
  BY <1>2 DEF StreamSound, OpenAfterReset, OwnerGone
<1> QED
  BY <1>1, <1>4, <1>5, <1>6 DEF StreamSound

\* The guest creates a channel before the roles are fixed.
LEMMA GuestCreates ==
  ASSUME NEW s \in Streams, StreamSound(s), SameAt(Owner(s), s), NoNews(s),
         Opens(s)' = {}, ~ Asks(Owner(s), s)', ~ Asks(Guest(s), s)',
         Holds(Guest(s), s)', StateAt(Guest(s), s)' = "Closed",
         Holds(Owner(s), s) => StateAt(Owner(s), s) \notin {"Connecting", "Open"}
  PROVE  StreamSound(s)'
<1> USE DEF SameAt, NoNews
<1>1. OwnerSound(s)'
  BY DEF StreamSound, OwnerSound
<1>2. GuestOpen(s)' /\ GuestAsks(s)' /\ BothAsk(s)' /\ OwnerGone(s)' /\ OpensSound(s)' /\ OpenAfterReset(s)' /\ OwnerOpen(s)'
  BY DEF GuestOpen, GuestAsks, BothAsk, OwnerGone, OpensSound, OpenAfterReset, OwnerOpen
<1>3. AcksSound(s)'
  BY DEF StreamSound, AcksSound
<1>4. OwnerTwice(s)'
  BY TwiceAsks DEF OwnerTwice, Twice, Asks
<1> QED
  BY <1>1, <1>2, <1>3, <1>4 DEF StreamSound

\* The owner's channel opens when the acknowledgement m arrives.
LEMMA OwnerOpens ==
  ASSUME NEW s \in Streams, StreamSound(s), NEW m \in Acks(s), StateAt(Owner(s), s) = "Connecting",
         Holds(Owner(s), s)', HandleAt(Owner(s), s)' = HandleAt(Owner(s), s), StateAt(Owner(s), s)' = "Open",
         OpenerAt(Owner(s), s)' = OpenerAt(Owner(s), s),
         SameAt(Guest(s), s), NoNews(s), AsksLess(Owner(s), s), AsksLess(Guest(s), s)
  PROVE  StreamSound(s)'
<1> USE DEF SameAt, AsksLess, NoNews
<1>0. Holds(Owner(s), s) /\ HandleAt(Owner(s), s) = m.from /\ Accepted(m.from) /\ Opens(s) = {}
  BY DEF StreamSound, AcksSound, OpensSound
<1>1. OwnerSound(s)'
  BY <1>0 DEF StreamSound, OwnerSound
<1>2. GuestOpen(s)' /\ GuestAsks(s)'
  BY <1>0 DEF StreamSound, GuestOpen, GuestAsks
<1>3. OpensSound(s)' /\ OpenAfterReset(s)' /\ OwnerGone(s)'
  BY <1>0 DEF OpensSound, OpenAfterReset, OwnerGone
<1>4. AcksSound(s)'
  BY DEF StreamSound, AcksSound
<1>5. OwnerOpen(s)'
  BY <1>0 DEF StreamSound, OwnerOpen
<1>6. OwnerTwice(s)' /\ BothAsk(s)'
  BY <1>0 DEF StreamSound, OwnerTwice, BothAsk
<1> QED
  BY <1>1, <1>2, <1>3, <1>4, <1>5, <1>6 DEF StreamSound

\* The reset of the guest, which it asked for once, arrives at the owner.
LEMMA OwnerIsReset ==
  ASSUME NEW s \in Streams, StreamSound(s), Asks(Guest(s), s), Asks(Guest(s), s)' => Twice(Guest(s), s),
         ~ Holds(Owner(s), s)', SameAt(Guest(s), s), AsksLess(Owner(s), s), Acks(s)' = {}, Opens(s)' \subseteq Opens(s)
  PROVE  StreamSound(s)'
<1> USE DEF SameAt, AsksLess
<1>0. Holds(Owner(s), s) /\ Accepted(HandleAt(Owner(s), s)) /\ ~ Twice(Guest(s), s)
  BY DEF StreamSound, GuestAsks
<1>1. OwnerSound(s)' /\ AcksSound(s)' /\ OwnerOpen(s)' /\ OwnerTwice(s)' /\ BothAsk(s)' /\ GuestAsks(s)'
  BY <1>0 DEF StreamSound, OwnerSound, AcksSound, OwnerOpen, OwnerTwice, BothAsk, GuestAsks
<1>2. GuestOpen(s)'
  BY DEF StreamSound, GuestOpen
<1>3. Opens(s) = {}
  BY <1>0 DEF StreamSound, OpensSound
<1>4. OpensSound(s)' /\ OpenAfterReset(s)'
  BY <1>3 DEF OpensSound, OpenAfterReset
<1>5. OwnerGone(s)'
  BY <1>0 DEF StreamSound, OwnerGone, OwnerTwice, BothAsk
<1> QED
  BY <1>1, <1>2, <1>4, <1>5 DEF StreamSound

\* The reset of the owner arrives at the guest.
LEMMA GuestIsReset ==
  ASSUME NEW s \in Streams, StreamSound(s), Asks(Owner(s), s), Asks(Owner(s), s)' => Twice(Owner(s), s), ~ Twice(Owner(s), s)',
         ~ Holds(Guest(s), s)', SameAt(Owner(s), s), NoNews(s), AsksLess(Guest(s), s), Opens(s)' = {}
  PROVE  StreamSound(s)'
<1> USE DEF SameAt, AsksLess, NoNews
<1>1. OwnerSound(s)'
  BY DEF StreamSound, OwnerSound
<1>2. GuestOpen(s)' /\ OpensSound(s)' /\ OpenAfterReset(s)' /\ OwnerTwice(s)'
  BY DEF GuestOpen, OpensSound, OpenAfterReset, OwnerTwice
<1>3. GuestAsks(s)'
  BY DEF StreamSound, GuestAsks
<1>4. AcksSound(s)'
  BY DEF StreamSound, AcksSound
<1>5. OwnerOpen(s)'
  BY DEF StreamSound, OwnerOpen
<1>6. OwnerGone(s)'
  BY DEF StreamSound, OwnerGone
<1>7. BothAsk(s)'
  BY DEF StreamSound, BothAsk, OwnerTwice, GuestAsks
<1> QED
  BY <1>1, <1>2, <1>3, <1>4, <1>5, <1>6, <1>7 DEF StreamSound
-----------------------------------------------------------------------------
(***************************************************************************)
(* The steps, one lemma for each of those that reach a stream.             *)
(***************************************************************************)
OpenersKept == \A h \in Handles : handles'[h].opener = handles[h].opener

LEMMA SamePlace ==
  ASSUME TypeInv, OpenersKept, NEW q \in Endpoints, NEW t, Holds(q, t)' = Holds(q, t),
         Holds(q, t) => HandleAt(q, t)' = HandleAt(q, t) /\ StateAt(q, t)' = StateAt(q, t)
  PROVE  SameAt(q, t)
<1>1. Holds(q, t) => HandleAt(q, t) \in Handles
  BY HeldHandle
<1> QED
  BY <1>1 DEF SameAt, OpenerAt, HandleAt, OpenersKept

LEMMA NobodyAccepts ==
  ASSUME Handles' = Handles, OpenersKept PROVE \A h : Accepted(h)' = Accepted(h)
BY DEF Accepted, OpenersKept

LEMMA NothingNew ==
  ASSUME Handles' = Handles, OpenersKept, NEW t \in Streams, SameAt(Owner(t), t),
         \A q \in Endpoints : \A m \in OnWire(q)' : m \in OnWire(q) \/ m.kind \in {"Data", "Reset"}
  PROVE  NoNews(t)
<1>1. Opens(t)' \subseteq Opens(t) /\ Acks(t)' \subseteq Acks(t)
  BY OwnerAndGuest DEF Opens, Acks
<1> QED
  BY <1>1, NobodyAccepts DEF NoNews, SameAt

\* Streams nothing happens to.
LEMMA StreamUntouched ==
  ASSUME TypeInv, NEW t \in Streams, StreamSound(t), Handles' = Handles, OpenersKept,
         \A q \in Endpoints : /\ Holds(q, t)' = Holds(q, t) /\ AsksLess(q, t)
                              /\ Holds(q, t) => HandleAt(q, t)' = HandleAt(q, t) /\ StateAt(q, t)' = StateAt(q, t),
         \A q \in Endpoints : \A m \in OnWire(q)' : m \in OnWire(q) \/ m.kind \in {"Data", "Reset"}
  PROVE  StreamSound(t)'
<1>1. \A q \in Endpoints : SameAt(q, t)
  BY SamePlace
<1>2. NoNews(t)
  BY <1>1, NothingNew, OwnerAndGuest
<1> QED
  BY <1>1, <1>2, StreamKept, OwnerAndGuest

\* Data is sound as long as its channel is there.
LEMMA DataKept ==
  ASSUME TypeInv, DataSound, OpenersKept,
         \A q \in Endpoints, t \in Streams : \A m \in OnWire(q)' :
           m.kind = "Data" /\ m.open /\ t \in m.streams =>
             m \in OnWire(q) /\ (Holds(q, t) => Holds(q, t)' /\ HandleAt(q, t)' = HandleAt(q, t))
  PROVE  DataSound'
<1> SUFFICES ASSUME NEW q \in Endpoints, NEW t \in Streams, NEW m \in OnWire(q)', m.kind = "Data", m.open, t \in m.streams
             PROVE  Holds(q, t)' /\ OpenerAt(q, t)' = handles'[m.from].opener
  BY DEF DataSound
<1>1. m \in OnWire(q)
  OBVIOUS
<1>2. Holds(q, t) /\ OpenerAt(q, t) = handles[m.from].opener
  BY <1>1 DEF DataSound
<1>3. Holds(q, t)' /\ HandleAt(q, t)' = HandleAt(q, t)
  BY <1>1, <1>2
<1>4. m.from \in Handles /\ HandleAt(q, t) \in Handles
  BY <1>1, <1>2, HeldHandle DEF TypeInv, WireTypes, FromHandle
<1> QED
  BY <1>2, <1>3, <1>4 DEF OpenersKept, OpenerAt, HandleAt

LEMMA NothingHappens ==
  ASSUME TypeInv, Protocol, UNCHANGED <<wire, resetting, answered, channels, pending>>, Handles' = Handles, OpenersKept
  PROVE  Protocol'
<1>1. \A q : OnWire(q)' = OnWire(q)
  BY DEF OnWire
<1>2. WireOrder' /\ ResetsSound'
  BY <1>1 DEF Protocol, WireOrder, Ordered, ResetsSound, ResetsSoundAt
<1>3. \A q, t : Holds(q, t)' = Holds(q, t) /\ HandleAt(q, t)' = HandleAt(q, t) /\ StateAt(q, t)' = StateAt(q, t)
  BY ChannelsKept
<1>4. \A q, t : AsksLess(q, t)
  BY <1>1 DEF AsksLess, Asks, Twice, Requested
<1>5. StreamsSound'
  BY <1>1, <1>3, <1>4, StreamUntouched DEF StreamsSound, Protocol
<1>6. DataSound'
  BY <1>1, <1>3, DataKept DEF Protocol
<1> QED
  BY <1>2, <1>5, <1>6 DEF Protocol

\* A channel closes, by an action or by an open that finds its id taken.
LEMMA ChannelCloses ==
  ASSUME TypeInv, Protocol, NEW e \in Endpoints, NEW s \in Streams, NEW w, FromWire(w), Closable(e, s), CloseLocally(e, s, w),
         UNCHANGED <<handles, inbox, answered>>
  PROVE  Protocol'
<1>1. /\ Handles' = Handles
      /\ \A q \in Endpoints : \A t :
           /\ Holds(q, t)' = Holds(q, t)
           /\ Holds(q, t) => HandleAt(q, t)' = HandleAt(q, t)
           /\ Holds(q, t) => StateAt(q, t)' = IF q = e /\ t = s THEN "Closing" ELSE StateAt(q, t)
      /\ Holds(e, s) /\ StateAt(e, s) \in {"Connecting", "Open"} /\ HandleAt(e, s) \in Handles
      /\ \A q \in Endpoints : \A m \in OnWire(q)' : m \in OnWire(q) \/ m.kind = "Reset"
      /\ \A t : /\ Asks(e, t)' => Asks(e, t) \/ t = s
                /\ Twice(e, t)' => Twice(e, t) \/ (t = s /\ Asks(e, s))
                /\ Asks(Peer(e), t)' => Asks(Peer(e), t)
                /\ Twice(Peer(e), t)' => Twice(Peer(e), t)
  BY ClosedLocally
<1>2. OpenersKept
  BY DEF OpenersKept
<1>3. WireOrder' /\ ResetsSound'
  <2> DEFINE P == pending[e] \cup {s}
  <2>1. P \in SUBSET Streams /\ SendResets(e, P) /\ wire' = [w EXCEPT ![Peer(e)] = @ \o ResetRequest(e, P)]
    BY DEF CloseLocally, TypeInv, ChannelTypes
  <2> HIDE DEF P
  <2>2. WireOrder' /\ ResetsSoundAt(e)' /\ OnWire(e)' \subseteq OnWire(e) /\ resetting'[Peer(e)] = resetting[Peer(e)]
    BY <2>1, ResetOrdered DEF Protocol
  <2> QED
    BY <2>2, OwnResetsSound DEF Protocol
<1>4. DataSound'
  BY <1>1, <1>2, DataKept DEF Protocol
<1>5. ASSUME NEW t \in Streams PROVE StreamSound(t)'
  <2>0. StreamSound(t)
    BY DEF Protocol, StreamsSound
  <2>1. CASE t # s
    <3>1. \A q \in Endpoints : AsksLess(q, t)
      BY <2>1, <1>1, Both DEF AsksLess
    <3> QED
      BY <3>1, <2>0, <2>1, <1>1, <1>2, StreamUntouched
  <2>2. CASE t = s
    <3>1. SameAt(Peer(e), s) /\ AsksLess(Peer(e), s)
      <4>1. Peer(e) \in Endpoints /\ Peer(e) # e
        BY Both
      <4> QED
        BY <4>1, <1>1, <1>2, SamePlace DEF AsksLess
    <3>2. ClosingAt(e, s)
      BY <1>1, TwiceAsks DEF ClosingAt, OpenerAt, HandleAt
    <3>3. NoNews(s)
      <4>1. Opens(s)' \subseteq Opens(s) /\ Acks(s)' \subseteq Acks(s)
        BY <1>1, OwnerAndGuest DEF Opens, Acks
      <4>2. Holds(Owner(s), s) => HandleAt(Owner(s), s)' = HandleAt(Owner(s), s)
        BY <1>1, OwnerAndGuest
      <4> QED
        BY <4>1, <4>2, <1>1, <1>2, NobodyAccepts DEF NoNews
    <3>4. CASE e = Owner(s)
      <4>1. Peer(e) = Guest(s)
        BY <3>4, OwnerAndGuest
      <4> QED
        BY <4>1, <3>1, <3>2, <3>3, <3>4, <2>0, <2>2, OwnerCloses
    <3>5. CASE e = Guest(s)
      <4>1. Peer(e) = Owner(s)
        BY <3>5, OwnerAndGuest
      <4> QED
        BY <4>1, <3>1, <3>2, <3>3, <3>5, <2>0, <2>2, GuestCloses
    <3> QED
      BY <3>4, <3>5, OwnerAndGuest
  <2> QED
    BY <2>1, <2>2
<1> QED
  BY <1>3, <1>4, <1>5 DEF Protocol, StreamsSound

\* A message is taken that changes no channel.
LEMMA MessageTaken ==
  ASSUME TypeInv, Protocol, NEW w, FromWire(w), wire' = w, UNCHANGED <<resetting, answered, channels, pending, handles>>
  PROVE  Protocol'
<1>0. Handles' = Handles /\ OpenersKept
  BY DEF Handles, OpenersKept
<1>1. (\A q \in Endpoints : OnWire(q)' \subseteq OnWire(q)) /\ WireOrder'
  BY <1>0, OnlyTaken DEF Protocol
<1>2. ResetsSound'
  BY <1>1, ResetsSoundKept DEF Protocol
<1>3. \A q, t : Holds(q, t)' = Holds(q, t) /\ HandleAt(q, t)' = HandleAt(q, t) /\ StateAt(q, t)' = StateAt(q, t)
  BY ChannelsKept
<1>4. \A q \in Endpoints : \A t : AsksLess(q, t)
  BY <1>1, AsksKept DEF AsksLess
<1>5. StreamsSound'
  BY <1>0, <1>1, <1>3, <1>4, StreamUntouched DEF StreamsSound, Protocol
<1>6. DataSound'
  BY <1>0, <1>1, <1>3, DataKept DEF Protocol
<1> QED
  BY <1>1, <1>2, <1>5, <1>6 DEF Protocol

\* An acknowledgement opens the channel.
LEMMA ChannelOpens ==
  ASSUME TypeInv, SessionSound, Headed, Protocol, NEW e \in Endpoints, NEW s \in Streams,
         NEW m \in OnWire(e), m.kind = "Ack", m.streams = {s},
         NEW w, FromWire(w), IsAnswered(e, s, w), UNCHANGED answered
  PROVE  Protocol'
<1>0. OpenersKept /\ e = Owner(s) /\ wire' = w /\ Holds(e, s) /\ StateAt(e, s) = "Connecting"
  BY DEF OpenersKept, Headed, IsAnswered
<1>1. /\ Handles' = Handles
      /\ \A q \in Endpoints : \A t :
           /\ Holds(q, t)' = Holds(q, t)
           /\ Holds(q, t) => HandleAt(q, t)' = HandleAt(q, t)
           /\ Holds(q, t) => StateAt(q, t)' = IF q = e /\ t = s THEN "Open" ELSE StateAt(q, t)
  BY AckOpens DEF IsAnswered
<1>2. (\A q \in Endpoints : OnWire(q)' \subseteq OnWire(q)) /\ WireOrder'
  BY <1>0, <1>1, OnlyTaken DEF Protocol
<1>3. ResetsSound'
  BY <1>2, ResetsSoundKept DEF Protocol, IsAnswered
<1>4. \A q \in Endpoints : \A t : AsksLess(q, t)
  BY <1>2, AsksKept DEF AsksLess, IsAnswered
<1>5. ASSUME NEW t \in Streams PROVE StreamSound(t)'
  <2>0. StreamSound(t)
    BY DEF Protocol, StreamsSound
  <2>1. CASE t # s
    BY <2>0, <2>1, <1>0, <1>1, <1>2, <1>4, StreamUntouched
  <2>2. CASE t = s
    <3>1. SameAt(Guest(s), s)
      BY <1>0, <1>1, SamePlace, OwnerAndGuest
    <3>2. /\ Holds(Owner(s), s)' /\ HandleAt(Owner(s), s)' = HandleAt(Owner(s), s) /\ StateAt(Owner(s), s)' = "Open"
      BY <1>0, <1>1
    <3>3. OpenerAt(Owner(s), s)' = OpenerAt(Owner(s), s)
      BY <3>2 DEF OpenerAt, HandleAt, IsAnswered
    <3>4. NoNews(s)
      <4>1. Opens(s)' \subseteq Opens(s) /\ Acks(s)' \subseteq Acks(s)
        BY <1>2, OwnerAndGuest DEF Opens, Acks
      <4> QED
        BY <4>1, <3>2, <1>0, <1>1, NobodyAccepts DEF NoNews
    <3>5. m \in Acks(s)
      BY <1>0 DEF Acks
    <3> QED
      BY <3>1, <3>2, <3>3, <3>4, <3>5, <2>0, <2>2, <1>0, <1>4, OwnerOpens, OwnerAndGuest
  <2> QED
    BY <2>1, <2>2
<1>6. DataSound'
  BY <1>0, <1>1, <1>2, DataKept DEF Protocol
<1> QED
  BY <1>2, <1>3, <1>5, <1>6 DEF Protocol, StreamsSound

\* The messages of a wire but the one at i.
Elsewhere(e, i) == {wire[e][j] : j \in 1 .. Len(wire[e]) \ {i}}

LEMMA OthersTaken ==
  ASSUME TypeInv, NEW e \in Endpoints, NEW i, NEW m, NEW w, Takes(e, i, m, w)
  PROVE  ToSet(w[e]) \subseteq Elsewhere(e, i)
<1>1. wire[e] \in Seq(Message) /\ w[e] = RemoveAt(wire[e], i) /\ i \in 1 .. Len(wire[e])
  BY DEF TypeInv, WireTypes, Takes
<1>2. \A k \in ToSet(w[e]) : \E j \in 1 .. Len(wire[e]) : j # i /\ k = wire[e][j]
  BY <1>1, RemovedElements
<1> QED
  BY <1>2 DEF Elsewhere

\* A handle given out answers no handle but its opener.
LEMMA OnlyOpenerAccepted ==
  ASSUME NEW n, Handles' = Handles \cup {n}, n \notin Handles, \A h \in Handles : handles'[h] = handles[h],
         NEW h, h # n => h # handles'[n].opener
  PROVE  h \in Handles => Accepted(h)' = Accepted(h)
<1>1. ASSUME h \in Handles, NEW g \in Handles', g # h, handles'[g].opener = h PROVE g \in Handles /\ handles[g].opener = h
  BY <1>1
<1>2. ASSUME NEW g \in Handles, g # h, handles[g].opener = h PROVE g \in Handles' /\ handles'[g].opener = h
  BY <1>2
<1>3. h \in Handles => (Accepted(h)' <=> Accepted(h))
  BY <1>1, <1>2 DEF Accepted
<1> QED
  BY <1>3 DEF Accepted

\* An open is accepted.
LEMMA OpenIsAccepted ==
  ASSUME TypeInv, Coherent, Headed, Protocol, NEW e \in Endpoints, NEW i, NEW m, NEW w, Takes(e, i, m, w), FromWire(w),
         m \in OnWire(e), m \in Message, m.kind = "Open", NEW s \in Streams, m.streams = {s}, m.from \in Handles,
         IsAccepted(e, m, s, w), UNCHANGED answered
  PROVE  Protocol'
<1>0. PICK n : n = Len(handles) + 1
  OBVIOUS
<1> DEFINE a == Control("Ack", s, m.from)
<1>1. /\ Handles' = Handles \cup {n} /\ n \notin Handles /\ handles'[n].opener = m.from
      /\ \A h \in Handles : handles'[h] = handles[h]
      /\ Holds(e, s)' /\ HandleAt(e, s)' = n /\ StateAt(e, s)' = "Open" /\ ~ Holds(e, s)
      /\ \A q \in Endpoints : \A t : q # e \/ t # s =>
           /\ Holds(q, t)' = Holds(q, t)
           /\ Holds(q, t) => HandleAt(q, t)' = HandleAt(q, t) /\ StateAt(q, t)' = StateAt(q, t)
      /\ OnWire(e)' = ToSet(w[e]) /\ OnWire(e)' \subseteq OnWire(e)
      /\ \A k \in OnWire(Peer(e))' : k \in OnWire(Peer(e)) \/ k = a
      /\ WireOrder /\ (\A k \in OnWire(Peer(e)) : k.kind = "Reset" => k.streams = resetting[e]) => WireOrder'
  BY <1>0, OpenAccepted DEF IsAccepted
<1>2. a.kind = "Ack" /\ a.streams = {s} /\ a.from = m.from
  BY DEF Control
<1> HIDE DEF a
<1>3. e = Guest(s) /\ Peer(e) = Owner(s) /\ Owner(s) # e /\ Owner(s) \in Endpoints
  BY OwnerAndGuest DEF Headed
<1>4. OpenersKept
  BY <1>1 DEF OpenersKept
<1>5. UNCHANGED <<resetting, pending>>
  BY DEF IsAccepted, Accept
<1>6. \A q \in Endpoints : \A k \in OnWire(q)' : k \in OnWire(q) \/ k = a
  BY <1>1, Both
<1>7. WireOrder' /\ ResetsSound'
  <2>1. \A k \in OnWire(Peer(e)) : k.kind = "Reset" => k.streams = resetting[e]
    BY DEF Protocol, ResetsSound, ResetsSoundAt
  <2>2. \A q \in Endpoints : \A k \in OnWire(q)' : k.kind = "Reset" => k \in OnWire(q)
    BY <1>2, <1>6
  <2> QED
    BY <2>1, <2>2, <1>1, <1>5, ResetsSoundKept DEF Protocol
<1>8. \A q \in Endpoints : \A t : AsksLess(q, t)
  <2>1. \A q \in Endpoints : \A k \in OnWire(q)' : k.kind = "Reset" => k \in OnWire(q)
    BY <1>2, <1>6
  <2> QED
    BY <2>1, <1>5, AsksKept DEF AsksLess
<1>9. \A q \in Endpoints : \A t : q # e \/ t # s => SameAt(q, t)
  BY <1>1, <1>4, SamePlace
<1>10. m \in Opens(s) /\ StreamSound(s) /\ HandleAt(Owner(s), s) = m.from /\ Holds(Owner(s), s)
  <2>1. m \in Opens(s) /\ StreamSound(s)
    BY <1>3 DEF Opens, Protocol, StreamsSound
  <2> QED
    BY <2>1 DEF StreamSound, OpensSound
<1>11. Opens(s)' = {}
  <2> SUFFICES ASSUME NEW k \in ToSet(w[e]), k.kind = "Open", s \in k.streams PROVE FALSE
    BY <1>1, <1>3 DEF Opens
  <2>0. i \in 1 .. Len(wire[e]) /\ m = wire[e][i] /\ w = [wire EXCEPT ![e] = RemoveAt(@, i)]
    BY DEF Takes
  <2>1. PICK j \in 1 .. Len(wire[e]) : j # i /\ k = wire[e][j]
    <3>1. k \in Elsewhere(e, i)
      BY OthersTaken
    <3> QED
      BY <3>1 DEF Elsewhere
  <2>2. Len(wire[e]) \in Nat
    BY DEF TypeInv, WireTypes
  <2>3. Ordered(wire[e])
    BY DEF Protocol, WireOrder
  <2>4. Before(m, k) \/ Before(k, m)
    <3>1. CASE i < j
      BY <3>1, <2>0, <2>1, <2>2, <2>3 DEF Ordered
    <3>2. CASE j < i
      BY <3>2, <2>0, <2>1, <2>2, <2>3 DEF Ordered
    <3> QED
      BY <3>1, <3>2, <2>0, <2>1, <2>2
  <2> QED
    BY <2>4 DEF Before
<1>12. StreamSound(s)'
  <2>1. OpenerAt(Guest(s), s)' = m.from
    BY <1>1, <1>3 DEF OpenerAt, HandleAt
  <2>2. Accepted(m.from)' /\ n # m.from
    BY <1>1 DEF Accepted
  <2>3. \A k \in Acks(s)' : k \in Acks(s) \/ k.from = m.from
    BY <1>2, <1>3, <1>6 DEF Acks
  <2>4. SameAt(Owner(s), s) /\ AsksLess(Owner(s), s) /\ AsksLess(Guest(s), s)
    BY <1>3, <1>8, <1>9
  <2>5. /\ ~ Holds(Guest(s), s) /\ Holds(Guest(s), s)' /\ HandleAt(Guest(s), s)' = n /\ StateAt(Guest(s), s)' = "Open"
    BY <1>1, <1>3
  <2> QED
    BY <2>1, <2>2, <2>3, <2>4, <2>5, <1>10, <1>11, GuestAccepts
<1>13. ASSUME NEW t \in Streams, t # s PROVE StreamSound(t)'
  <2>1. SameAt(Owner(t), t) /\ SameAt(Guest(t), t)
    BY <1>9, <1>13, OwnerAndGuest
  <2>2. Opens(t)' \subseteq Opens(t) /\ Acks(t)' \subseteq Acks(t)
    BY <1>2, <1>6, <1>13, OwnerAndGuest DEF Opens, Acks
  <2>3. ASSUME Holds(Owner(t), t) PROVE Accepted(HandleAt(Owner(t), t))' = Accepted(HandleAt(Owner(t), t))
    <3>0. PICK h : h = HandleAt(Owner(t), t)
      OBVIOUS
    <3>1. h \in Handles /\ HandleAt(Owner(t), t)' = h
      BY <3>0, <2>1, <2>3, HeldHandle, OwnerAndGuest DEF SameAt
    <3>2. handles[h].id = t /\ handles[m.from].id = s
      BY <3>0, <2>3, <1>3, <1>10, OwnerAndGuest DEF Coherent, ChannelsSound
    <3>3. h # m.from
      BY <3>2, <1>13
    <3>4. Accepted(h)' = Accepted(h)
      BY <3>1, <3>3, <1>1, OnlyOpenerAccepted
    <3> QED
      BY <3>0, <3>1, <3>4 DEF Accepted
  <2>4. NoNews(t)
    BY <2>2, <2>3 DEF NoNews
  <2> QED
    BY <2>1, <2>4, <1>8, StreamKept, OwnerAndGuest DEF Protocol, StreamsSound
<1>14. DataSound'
  BY <1>1, <1>2, <1>4, <1>6, DataKept DEF Protocol
<1> QED
  BY <1>7, <1>12, <1>13, <1>14 DEF Protocol, StreamsSound

\* An endpoint creates a channel on a stream it owns, or before the roles are
\* fixed, when the other one has done nothing yet.
LEMMA EarlyRoles ==
  ASSUME TypeInv, SessionSound, NEW e \in Endpoints, assoc[e] # "Connected", NEW s \in Streams, s % 2 = OwnParity(e)
  PROVE  e = Owner(s) \/ Quiet
<1>1. client["a"] = TRUE /\ (described["b"] => client["b"] = FALSE)
  BY Both DEF SessionSound, TypeInv, SessionTypes
<1>2. ASSUME ~ Quiet PROVE described[e]
  <2>1. assoc[Peer(e)] = "Connected" /\ Peer(e) \in Endpoints /\ Peer(Peer(e)) = e
    BY <1>2, Both DEF Quiet
  <2> QED
    BY <2>1 DEF SessionSound
<1>3. s \in Nat
  BY DEF Streams
<1> QED
  BY <1>1, <1>2, <1>3 DEF OwnParity, Owner

LEMMA ChannelCreated ==
  ASSUME TypeInv, Coherent, Settled, Protocol, NEW e \in Endpoints, NEW ordered \in Orderings, CreateDataChannel(e, ordered)
  PROVE  Protocol'
<1>0. PICK n : n = Len(handles) + 1
  OBVIOUS
<1>1. PICK s \in FreeIds(e) :
        /\ s \in Streams /\ ~ Holds(e, s) /\ Handles' = Handles \cup {n} /\ n \notin Handles /\ handles'[n].opener = n
        /\ \A h \in Handles : handles'[h] = handles[h]
        /\ stage'[n] = (IF assoc[e] = "Connected" THEN "Connecting" ELSE "Closed")
        /\ Holds(e, s)' /\ HandleAt(e, s)' = n /\ StateAt(e, s)' = stage'[n]
        /\ \A q \in Endpoints : \A t : q # e \/ t # s =>
             /\ Holds(q, t)' = Holds(q, t)
             /\ Holds(q, t) => HandleAt(q, t)' = HandleAt(q, t) /\ StateAt(q, t)' = StateAt(q, t)
        /\ IF assoc[e] = "Connected" THEN Transmit(e, Sent(e, Control("Open", s, n))) ELSE UNCHANGED wire
  BY <1>0, CreatedChannel
<1> DEFINE c == Control("Open", s, n)
<1>2. c.kind = "Open" /\ c.streams = {s} /\ c.from = n /\ c \in Message
  <2>1. n \in Nat
    BY <1>0 DEF TypeInv, HandleTypes
  <2> QED
    BY <2>1, <1>1, MessagesMade DEF Control
<1>3. UNCHANGED <<resetting, answered, pending>>
  BY DEF CreateDataChannel
<1>4. s % 2 = OwnParity(e)
  BY DEF FreeIds
<1>5. assoc[e] = "Connected" => Transmit(e, Sent(e, c))
  BY <1>1
<1> HIDE DEF c
<1>6. StreamSound(s)
  BY <1>1 DEF Protocol, StreamsSound
<1>7. OpenersKept
  BY <1>1 DEF OpenersKept
<1>8. \A q \in Endpoints : \A t : q # e \/ t # s => SameAt(q, t)
  BY <1>1, <1>7, SamePlace
<1>9. /\ WireOrder' /\ ResetsSound'
      /\ \A q \in Endpoints : \A m \in OnWire(q)' : m \in OnWire(q) \/ (q = Peer(e) /\ m = c /\ assoc[e] = "Connected")
  <2>1. CASE assoc[e] = "Connected"
    <3>1. e = Owner(s) /\ Peer(e) = Guest(s)
      BY <2>1, <1>1, <1>4, Roles, OwnerAndGuest DEF Settled
    <3>2. \A m \in OnWire(Peer(e)) : m.kind = "Open" => s \notin m.streams
      BY <3>1, <1>1, <1>6 DEF StreamSound, OpensSound, Opens
    <3>3. /\ WireOrder' /\ ResetsSound'
          /\ OnWire(e)' \subseteq OnWire(e) /\ \A m \in OnWire(Peer(e))' : m \in OnWire(Peer(e)) \/ m = c
      BY <3>2, <2>1, <1>1, <1>2, <1>3, <1>5, MessageOrdered DEF Protocol
    <3> QED
      BY <3>3, <2>1, Both
  <2>2. CASE assoc[e] # "Connected"
    <3>1. \A q : OnWire(q)' = OnWire(q)
      BY <2>2, <1>1 DEF OnWire
    <3> QED
      BY <3>1, <2>2, <1>1, <1>3 DEF Protocol, WireOrder, Ordered, ResetsSound, ResetsSoundAt
  <2> QED
    BY <2>1, <2>2
<1>10. \A q \in Endpoints : \A t : AsksLess(q, t)
  BY <1>2, <1>3, <1>9, AsksKept DEF AsksLess
<1>11. \A h \in Handles : Accepted(h)' = Accepted(h)
  BY <1>1, OnlyOpenerAccepted
<1>12. ~ Accepted(n)'
  <2> SUFFICES ASSUME NEW g \in Handles', g # n, handles'[g].opener = n PROVE FALSE
    BY DEF Accepted
  <2>1. g \in Handles /\ handles[g].opener = n
    BY <1>1
  <2> QED
    BY <2>1, <1>1 DEF TypeInv, HandleTypes
<1>13. ASSUME e = Owner(s) PROVE StreamSound(s)'
  <2>1. SameAt(Guest(s), s) /\ AsksLess(Owner(s), s) /\ AsksLess(Guest(s), s)
    BY <1>1, <1>8, <1>10, <1>13, OwnerAndGuest
  <2>2. OpenerAt(e, s)' = n
    BY <1>1 DEF OpenerAt, HandleAt
  <2>3. Acks(s)' \subseteq Acks(s)
    BY <1>1, <1>2, <1>9, OwnerAndGuest DEF Acks
  <2>4. \/ StateAt(e, s)' = "Connecting" /\ \A k \in Opens(s)' : k \in Opens(s) \/ k.from = n
        \/ StateAt(e, s)' = "Closed" /\ Opens(s)' \subseteq Opens(s)
    BY <1>1, <1>2, <1>9, OwnerAndGuest DEF Opens
  <2> QED
    BY <2>1, <2>2, <2>3, <2>4, <1>1, <1>6, <1>12, <1>13, OwnerCreates
<1>14. ASSUME e # Owner(s) PROVE StreamSound(s)'
  <2>1. e = Guest(s) /\ Owner(s) \in Endpoints /\ assoc[e] # "Connected" /\ Quiet
    BY <1>1, <1>4, <1>14, Roles, EarlyRoles, OwnerAndGuest DEF Settled
  <2>2. \A q \in Endpoints : OnWire(q) = {} /\ pending[q] = {}
    BY <2>1 DEF Settled, QuietSound, OnWire, ToSet
  <2>3. \A q \in Endpoints : ~ Asks(q, s)
    BY <2>2, Both DEF Asks, Requested
  <2>4. Opens(s)' = {} /\ Acks(s)' = {}
    BY <2>1, <2>2, <1>9, OwnerAndGuest DEF Opens, Acks
  <2>5. ~ Asks(Owner(s), s)' /\ ~ Asks(Guest(s), s)'
    BY <2>1, <2>3, <1>10 DEF AsksLess
  <2>6. SameAt(Owner(s), s)
    BY <2>1, <1>8, <1>14
  <2>7. Holds(Owner(s), s) => HandleAt(Owner(s), s) \in Handles /\ StateAt(Owner(s), s) = "Closed"
    BY <2>1, <1>1, HeldHandle DEF Coherent, ChannelsSound, Settled, QuietSound
  <2>8. NoNews(s)
    BY <2>4, <2>6, <2>7, <1>11 DEF NoNews, SameAt
  <2>9. Holds(Guest(s), s)' /\ StateAt(Guest(s), s)' = "Closed"
    BY <2>1, <1>1
  <2> QED
    BY <2>4, <2>5, <2>6, <2>7, <2>8, <2>9, <1>1, <1>6, GuestCreates
<1>15. ASSUME NEW t \in Streams, t # s PROVE StreamSound(t)'
  <2>1. SameAt(Owner(t), t) /\ SameAt(Guest(t), t)
    BY <1>8, <1>15, OwnerAndGuest
  <2>2. Opens(t)' \subseteq Opens(t) /\ Acks(t)' \subseteq Acks(t)
    BY <1>2, <1>9, <1>15, OwnerAndGuest DEF Opens, Acks
  <2>3. Holds(Owner(t), t) => HandleAt(Owner(t), t) \in Handles /\ HandleAt(Owner(t), t)' = HandleAt(Owner(t), t)
    BY <2>1, HeldHandle, OwnerAndGuest DEF SameAt
  <2>4. NoNews(t)
    BY <2>2, <2>3, <1>11 DEF NoNews
  <2> QED
    BY <2>1, <2>4, <1>10, StreamKept, OwnerAndGuest DEF Protocol, StreamsSound
<1>16. DataSound'
  BY <1>1, <1>2, <1>7, <1>9, DataKept DEF Protocol
<1> QED
  BY <1>9, <1>13, <1>14, <1>15, <1>16 DEF Protocol, StreamsSound

\* Data is sent on a channel.
LEMMA DataIsSent ==
  ASSUME TypeInv, Coherent, Protocol, NEW e \in Endpoints, NEW a \in ToSet(actions[e]), a \in ActionRecord,
         NEW ordered \in BOOLEAN,
         Transmit(e, Sent(e, Data(a.id, a.handle, ordered, stage[a.handle] = "Open"))),
         UNCHANGED <<resetting, answered, channels, pending, handles, stage>>
  PROVE  Protocol'
<1>0. PICK n : n = Data(a.id, a.handle, ordered, stage[a.handle] = "Open")
  OBVIOUS
<1>1. a.id \in Streams /\ a.handle \in Nat /\ a.handle \in Handles /\ handles[a.handle].at = e /\ handles[a.handle].id = a.id
  BY DEF ActionRecord, TypeInv, ActionTypes, Coherent, ActionsSound
<1>2. /\ n.kind = "Data" /\ n.streams = {a.id} /\ n.from = a.handle /\ (n.open <=> stage[a.handle] = "Open")
      /\ n \in Message
  BY <1>0, <1>1, MessagesMade DEF Data
<1>3. Transmit(e, Sent(e, n))
  BY <1>0
<1>4. /\ WireOrder' /\ ResetsSound'
      /\ OnWire(e)' \subseteq OnWire(e) /\ \A m \in OnWire(Peer(e))' : m \in OnWire(Peer(e)) \/ m = n
  BY <1>1, <1>2, <1>3, MessageOrdered DEF Protocol
<1>5. \A q \in Endpoints : \A m \in OnWire(q)' : m \in OnWire(q) \/ (q = Peer(e) /\ m = n)
  BY <1>4, Both
<1>6. Handles' = Handles /\ OpenersKept
  BY DEF Handles, OpenersKept
<1>7. \A q, t : Holds(q, t)' = Holds(q, t) /\ HandleAt(q, t)' = HandleAt(q, t) /\ StateAt(q, t)' = StateAt(q, t)
  BY ChannelsKept
<1>8. \A q \in Endpoints : \A t : AsksLess(q, t)
  <2>1. \A q \in Endpoints : \A m \in OnWire(q)' : m.kind = "Reset" => m \in OnWire(q)
    BY <1>2, <1>5
  <2> QED
    BY <2>1, AsksKept DEF AsksLess
<1>9. StreamsSound'
  BY <1>2, <1>5, <1>6, <1>7, <1>8, StreamUntouched DEF StreamsSound, Protocol
<1>10. ASSUME n.open PROVE Holds(Peer(e), a.id) /\ OpenerAt(Peer(e), a.id) = handles[a.handle].opener
  <2>1. Holds(e, a.id) /\ HandleAt(e, a.id) = a.handle /\ StateAt(e, a.id) = "Open"
    BY <1>1, <1>2, <1>10 DEF Coherent, StageSound, ChannelsSound
  <2>2. OpenerAt(e, a.id) = handles[a.handle].opener
    BY <2>1 DEF OpenerAt, HandleAt
  <2>3. StreamSound(a.id)
    BY <1>1 DEF Protocol, StreamsSound
  <2>4. CASE e = Owner(a.id)
    <3>1. Peer(e) = Guest(a.id)
      BY <2>4, <1>1, OwnerAndGuest
    <3> QED
      BY <3>1, <2>1, <2>2, <2>3, <2>4 DEF StreamSound, OwnerSound, OwnerOpen
  <2>5. CASE e = Guest(a.id)
    <3>1. Peer(e) = Owner(a.id)
      BY <2>5, <1>1, OwnerAndGuest
    <3> QED
      BY <3>1, <2>1, <2>2, <2>3, <2>5 DEF StreamSound, OwnerSound, GuestOpen
  <2> QED
    BY <2>4, <2>5, <1>1, OwnerAndGuest
<1>11. DataSound'
  <2> SUFFICES ASSUME NEW q \in Endpoints, NEW t \in Streams, NEW m \in OnWire(q)', m.kind = "Data", m.open, t \in m.streams
               PROVE  Holds(q, t) /\ OpenerAt(q, t) = handles[m.from].opener
    BY <1>7 DEF DataSound, OpenerAt, HandleAt
  <2>1. CASE m \in OnWire(q)
    BY <2>1 DEF Protocol, DataSound
  <2>2. CASE q = Peer(e) /\ m = n
    BY <2>2, <1>2, <1>10
  <2> QED
    BY <2>1, <2>2, <1>5
<1> QED
  BY <1>4, <1>9, <1>11 DEF Protocol

\* A reset arrives: it is the first on the wire, and nothing after it is a
\* reset or about its streams.
LEMMA ResetArrives ==
  ASSUME TypeInv, Protocol, NEW e \in Endpoints, NEW i, NEW m, NEW w,
         Takes(e, i, m, w), FromWire(w), m \in OnWire(e), m \in Message,
         m.kind = "Reset", ReceiveReset(e, m, w), answered' = [answered EXCEPT ![Peer(e)] = TRUE]
  PROVE  Protocol'
<1>0. Peer(e) \in Endpoints /\ Peer(e) # e /\ Peer(Peer(e)) = e /\ m.streams \subseteq Streams
  BY Both DEF Message
<1>1. /\ Handles' = Handles /\ UNCHANGED handles
      /\ \A q \in Endpoints : \A t :
           /\ Holds(q, t)' = (Holds(q, t) /\ ~ (q = e /\ t \in m.streams))
           /\ Holds(q, t)' => HandleAt(q, t)' = HandleAt(q, t) /\ StateAt(q, t)' = StateAt(q, t)
      /\ OnWire(e)' = ToSet(w[e]) /\ OnWire(e)' \subseteq OnWire(e)
      /\ \A q \in Endpoints : \A k \in OnWire(q)' : k \in OnWire(q) \/ k.kind = "Reset"
      /\ \A t : (Asks(e, t)' => Asks(e, t)) /\ (Twice(e, t)' => Twice(e, t))
  BY ChannelsReset
<1>2. /\ OpenersKept
      /\ \A q \in Endpoints : \A t : q # e \/ t \notin m.streams => Holds(q, t)' = Holds(q, t)
  BY <1>1 DEF OpenersKept, Holds
<1>3. \A k \in OnWire(e)' : k.kind # "Reset" /\ m.streams \cap k.streams = {}
  <2> SUFFICES ASSUME NEW k \in ToSet(w[e]) PROVE k.kind # "Reset" /\ m.streams \cap k.streams = {}
    BY <1>1
  <2>1. i = 1 /\ m = wire[e][1]
    BY DEF Takes, Deliverable
  <2>2. Ordered(wire[e]) /\ Len(wire[e]) \in Nat
    BY DEF Protocol, WireOrder, TypeInv, WireTypes
  <2>3. k \in Elsewhere(e, i)
    BY OthersTaken
  <2>4. PICK j \in 1 .. Len(wire[e]) : j # 1 /\ k = wire[e][j]
    BY <2>1, <2>3 DEF Elsewhere
  <2>5. 1 \in 1 .. j - 1
    BY <2>2, <2>4
  <2>6. Before(m, k)
    BY <2>1, <2>2, <2>4, <2>5 DEF Ordered
  <2> QED
    BY <2>6 DEF Before
<1>4. pending'[Peer(e)] = pending[Peer(e)] /\ SendResets(e, pending[e])
      /\ wire' = [w EXCEPT ![Peer(e)] = @ \o ResetRequest(e, pending[e])]
  <2>1. SendResets(e, pending[e]) /\ wire' = [w EXCEPT ![Peer(e)] = @ \o ResetRequest(e, pending[e])]
    BY DEF ReceiveReset
  <2>2. pending' = [pending EXCEPT ![e] = StillPending(e, pending[e])]
    BY <2>1 DEF SendResets
  <2> QED
    BY <2>1, <2>2, <1>0 DEF TypeInv, ChannelTypes
<1>5. /\ \A t : ~ Requested(Peer(e), t)' /\ ~ Twice(Peer(e), t)' /\ (Asks(Peer(e), t)' => t \in pending[Peer(e)])
      /\ \A t \in m.streams : Requested(Peer(e), t)
  BY <1>0, <1>3, <1>4 DEF Requested, Twice, Asks
<1>6. \A t : AsksLess(e, t) /\ AsksLess(Peer(e), t)
  BY <1>1, <1>5 DEF AsksLess, Asks
<1>7. WireOrder' /\ ResetsSound'
  <2>1. pending[e] \in SUBSET Streams /\ answered'[e] = answered[e] /\ answered'[Peer(e)] = TRUE
    BY <1>0 DEF TypeInv, ChannelTypes, SessionTypes
  <2>2. WireOrder' /\ ResetsSoundAt(e)' /\ resetting'[Peer(e)] = resetting[Peer(e)]
    BY <2>1, <1>4, ResetOrdered DEF Protocol
  <2>3. resetting[Peer(e)] # {}
    BY <1>0 DEF Protocol, ResetsSound, ResetsSoundAt
  <2>4. ResetsSoundAt(Peer(e))'
    BY <2>1, <2>2, <2>3, <1>0, <1>3 DEF ResetsSoundAt
  <2>5. \A q \in Endpoints : q = e \/ q = Peer(e)
    BY Both
  <2> QED
    BY <2>2, <2>4, <2>5 DEF ResetsSound
<1>8. DataSound'
  <2>1. ASSUME NEW q \in Endpoints, NEW t \in Streams, NEW k \in OnWire(q)', k.kind = "Data", t \in k.streams
        PROVE  k \in OnWire(q) /\ (Holds(q, t) => Holds(q, t)' /\ HandleAt(q, t)' = HandleAt(q, t))
    BY <2>1, <1>1, <1>3
  <2> QED
    BY <2>1, <1>2, DataKept DEF Protocol
<1>9. ASSUME NEW t \in Streams, t \notin m.streams PROVE StreamSound(t)'
  <2>1. \A q \in Endpoints : /\ Holds(q, t)' = Holds(q, t) /\ AsksLess(q, t)
                             /\ Holds(q, t) => HandleAt(q, t)' = HandleAt(q, t) /\ StateAt(q, t)' = StateAt(q, t)
    BY <1>1, <1>2, <1>6, <1>9, Both
  <2>2. StreamSound(t)
    BY DEF Protocol, StreamsSound
  <2> QED
    BY <2>1, <2>2, <1>1, <1>2, StreamUntouched
<1>10. ASSUME NEW s \in m.streams PROVE StreamSound(s)'
  <2>0. s \in Streams /\ StreamSound(s)
    BY <1>0 DEF Protocol, StreamsSound
  <2>1. /\ ~ Holds(e, s)' /\ SameAt(Peer(e), s) /\ AsksLess(e, s)
        /\ Asks(Peer(e), s) /\ (Asks(Peer(e), s)' => Twice(Peer(e), s)) /\ ~ Twice(Peer(e), s)'
    <3>1. SameAt(Peer(e), s)
      BY <1>0, <1>1, <1>2, SamePlace
    <3> QED
      BY <3>1, <1>1, <1>5, <1>6 DEF Asks, Twice
  <2>2. CASE e = Owner(s)
    <3>1. Peer(e) = Guest(s)
      BY <2>0, <2>2, OwnerAndGuest
    <3>2. Acks(s)' = {}
      BY <2>2, <1>3 DEF Acks
    <3>3. Opens(s)' \subseteq Opens(s)
      BY <3>1, <1>0, <1>1 DEF Opens
    <3> QED
      BY <3>1, <3>2, <3>3, <2>0, <2>1, <2>2, OwnerIsReset
  <2>3. CASE e = Guest(s)
    <3>1. Peer(e) = Owner(s)
      BY <2>0, <2>3, OwnerAndGuest
    <3>2. Opens(s)' = {}
      BY <2>3, <1>3 DEF Opens
    <3>3. NoNews(s)
      <4>1. \A q \in Endpoints : \A k \in OnWire(q)' : k \in OnWire(q) \/ k.kind \in {"Data", "Reset"}
        BY <1>1
      <4> QED
        BY <4>1, <3>1, <2>0, <2>1, <1>1, <1>2, NothingNew
    <3> QED
      BY <3>1, <3>2, <3>3, <2>0, <2>1, <2>3, GuestIsReset
  <2> QED
    BY <2>0, <2>2, <2>3, OwnerAndGuest
<1> QED
  BY <1>7, <1>8, <1>9, <1>10 DEF Protocol, StreamsSound

\* The reset of e was carried out, and what waited is requested.
LEMMA WaitingRequested ==
  ASSUME TypeInv, Protocol, NEW e \in Endpoints, ResetAnswered(e)
  PROVE  Protocol'
<1> DEFINE t == IF pending[e] = {} THEN << >> ELSE <<Reset(pending[e])>>
<1>0. Peer(e) \in Endpoints /\ Peer(e) # e /\ Peer(Peer(e)) = e
  BY Both
<1>1. AtMostOne(t) /\ \A n \in ToSet(t) : n.kind = "Reset" /\ n.streams = pending[e] /\ pending[e] # {}
  <2>1. Reset(pending[e]) \in Message /\ Reset(pending[e]).kind = "Reset" /\ Reset(pending[e]).streams = pending[e]
    BY MessagesMade DEF Reset, TypeInv, ChannelTypes
  <2> QED
    BY <2>1 DEF AtMostOne, ToSet
<1>2. wire' = [wire EXCEPT ![Peer(e)] = @ \o t] /\ FromWire(wire) /\ WireTypes
  BY WireItself DEF ResetAnswered, Transmit, TypeInv
<1> HIDE DEF t
<1>3. /\ answered'[e] = FALSE /\ answered'[Peer(e)] = answered[Peer(e)] /\ answered[e]
      /\ pending'[e] = {} /\ pending'[Peer(e)] = pending[Peer(e)]
      /\ resetting'[e] = pending[e] /\ resetting'[Peer(e)] = resetting[Peer(e)]
      /\ UNCHANGED <<channels, handles>>
  BY <1>0 DEF ResetAnswered, TypeInv, ChannelTypes, SessionTypes, handleVars
<1>4. /\ OnWire(e)' \subseteq OnWire(e) /\ OnWire(Peer(e))' \subseteq OnWire(Peer(e)) \cup ToSet(t)
      /\ WireOrder /\ (\A m \in OnWire(Peer(e)), n \in ToSet(t) : Before(m, n)) => WireOrder'
  BY <1>1, <1>2, Transmitted
<1>5. \A m \in OnWire(Peer(e)) : m.kind # "Reset"
  BY <1>3 DEF Protocol, ResetsSound, ResetsSoundAt
<1>6. WireOrder'
  <2>1. \A m \in OnWire(Peer(e)), n \in ToSet(t) : Before(m, n)
    BY <1>1, <1>5 DEF Before
  <2> QED
    BY <2>1, <1>4 DEF Protocol
<1>7. ResetsSound'
  <2>1. ResetsSoundAt(e)'
    BY <1>1, <1>3, <1>4, <1>5 DEF ResetsSoundAt
  <2> QED
    BY <2>1, <1>3, <1>4, OwnResetsSound DEF Protocol
<1>8. \A q \in Endpoints : \A m \in OnWire(q)' : m \in OnWire(q) \/ m.kind = "Reset"
  BY <1>1, <1>4, Both
<1>9. \A q \in Endpoints : \A s : AsksLess(q, s)
  <2>1. \A s : Requested(e, s)' => s \in pending[e]
    BY <1>1, <1>4, <1>5 DEF Requested
  <2>2. \A s : Requested(Peer(e), s)' => Requested(Peer(e), s)
    BY <1>0, <1>4 DEF Requested
  <2>3. \A s : AsksLess(e, s) /\ AsksLess(Peer(e), s)
    BY <2>1, <2>2, <1>3 DEF AsksLess, Asks, Twice
  <2> QED
    BY <2>3, Both
<1>10. Handles' = Handles /\ OpenersKept
  BY <1>3 DEF Handles, OpenersKept
<1>11. \A q, s : Holds(q, s)' = Holds(q, s) /\ HandleAt(q, s)' = HandleAt(q, s) /\ StateAt(q, s)' = StateAt(q, s)
  BY <1>3, ChannelsKept
<1>12. StreamsSound'
  BY <1>8, <1>9, <1>10, <1>11, StreamUntouched DEF StreamsSound, Protocol
<1>13. DataSound'
  BY <1>8, <1>10, <1>11, DataKept DEF Protocol
<1> QED
  BY <1>6, <1>7, <1>12, <1>13 DEF Protocol

LEMMA NextProtocol == TypeInv /\ Coherent /\ Settled /\ Protocol /\ [Next]_vars => Protocol'
<1> SUFFICES ASSUME TypeInv, Coherent, Settled, Protocol, [Next]_vars PROVE Protocol'
  OBVIOUS
<1>1. ASSUME UNCHANGED <<wire, resetting, answered, channels, pending, handles>> PROVE Protocol'
  <2>1. Handles' = Handles /\ OpenersKept
    BY <1>1 DEF Handles, OpenersKept
  <2> QED
    BY <2>1, <1>1, NothingHappens
<1>2. CASE UNCHANGED vars
  BY <1>1, <1>2 DEF vars, association, endpointVars, handleVars
<1>3. ASSUME NEW e \in Endpoints, Session(e) PROVE Protocol'
  BY <1>1, <1>3 DEF Session, SetRemoteDescription, HandleTransportConnected, AssocChange, association, handleVars
<1>4. ASSUME NEW e \in Endpoints, ProcessAction(e) PROVE Protocol'
  <2> DEFINE a == Head(actions[e])
  <2>1. a \in ToSet(actions[e]) /\ a \in ActionRecord /\ a.id \in Streams /\ UNCHANGED <<handles, inbox, answered>>
    BY <1>4, FirstAction DEF ProcessAction, ActionRecord
  <2>2. CASE Closable(e, a.id) /\ CloseLocally(e, a.id, wire)
    <3>1. FromWire(wire)
      BY WireItself DEF TypeInv
    <3> HIDE DEF a
    <3> QED
      BY <3>1, <2>1, <2>2, ChannelCloses
  <2>3. CASE a.kind = "SendMessage" /\ Holds(e, a.id)
    <3> DEFINE ord == LET c == channels[e][a.id] IN c.state = "Open" => handles[c.handle].ordered
    <3>1. channels[e][a.id].handle \in Handles
      BY <2>3, HeldHandle DEF HandleAt
    <3>2. ord \in BOOLEAN
      BY <3>1, RecordOf DEF HandleRecord
    <3>3. /\ Transmit(e, Sent(e, Data(a.id, a.handle, ord, stage[a.handle] = "Open")))
          /\ UNCHANGED <<resetting, answered, channels, pending, handles, stage>>
      BY <2>3, <1>4 DEF ProcessAction
    <3> HIDE DEF ord, a
    <3> QED
      BY <3>2, <3>3, <2>1, DataIsSent
  <2>4. CASE UNCHANGED <<wire, resetting, channels, pending, stage>>
    BY <2>1, <2>4, <1>1
  <2> QED
    BY <2>2, <2>3, <2>4, <1>4 DEF ProcessAction
<1>5. ASSUME NEW e \in Endpoints, Receive(e) PROVE Protocol'
  <2>1. PICK i, m, w :
           /\ Takes(e, i, m, w) /\ FromWire(w) /\ m \in OnWire(e) /\ m \in Message
           /\ \/ m.kind = "Reset" /\ ReceiveReset(e, m, w) /\ answered' = [answered EXCEPT ![Peer(e)] = TRUE]
              \/ /\ m.kind # "Reset" /\ UNCHANGED answered
                 /\ \E s \in Streams : m.streams = {s} /\ m.from \in Handles /\ Handled(e, m, s, w)
    BY <1>5, ReceiveCases
  <2>2. CASE m.kind = "Reset" /\ ReceiveReset(e, m, w) /\ answered' = [answered EXCEPT ![Peer(e)] = TRUE]
    BY <2>1, <2>2, ResetArrives
  <2>3. ASSUME NEW s \in Streams, m.streams = {s}, m.from \in Handles, UNCHANGED answered, Handled(e, m, s, w) PROVE Protocol'
    <3>1. ~ (m.kind = "Open" /\ IsRefused(e, s, w))
      <4>1. s % 2 = OwnParity(e) <=> e = Owner(s)
        BY <1>5, Roles DEF Receive, Settled
      <4> QED
        BY <4>1, <2>1, <2>3, OwnerAndGuest DEF IsRefused, Settled, Headed
    <3>2. CASE ClosesThere(e, s, w)
      BY <3>2, <2>1, <2>3, ChannelCloses DEF ClosesThere
    <3>3. CASE m.kind = "Open" /\ IsAccepted(e, m, s, w)
      BY <3>3, <2>1, <2>3, OpenIsAccepted DEF Settled
    <3>4. CASE m.kind = "Ack" /\ IsAnswered(e, s, w)
      BY <3>4, <2>1, <2>3, ChannelOpens DEF Settled
    <3>5. CASE IsIgnored(w) \/ IsDelivered(e, m, s, w)
      BY <3>5, <2>1, <2>3, MessageTaken DEF IsIgnored, IsDelivered
    <3> QED
      BY <3>1, <3>2, <3>3, <3>4, <3>5, <2>3 DEF Handled
  <2> QED
    BY <2>1, <2>2, <2>3
<1>6. ASSUME NEW e \in Endpoints, ResetAnswered(e) PROVE Protocol'
  BY <1>6, WaitingRequested
<1>7. ASSUME NEW e \in Endpoints, NEW ordered \in Orderings, CreateDataChannel(e, ordered) PROVE Protocol'
  BY <1>7, ChannelCreated
<1>8. ASSUME NEW h \in Handles, SendMessage(h) \/ Close(h) \/ Drop(h) PROVE Protocol'
  <2>1. UNCHANGED <<wire, resetting, answered, channels, pending, stage, inbox>>
    BY <1>8 DEF SendMessage, Close, Drop, association
  <2>2. CASE SendMessage(h)
    BY <2>1, <2>2, <1>1 DEF SendMessage
  <2>3. ASSUME NEW k \in {"closed", "dropped"}, handles' = [handles EXCEPT ![h].held = k] PROVE Protocol'
    <3>1. Handles' = Handles /\ OpenersKept
      BY <2>1, <2>3, HeldChanged DEF OpenersKept
    <3> QED
      BY <3>1, <2>1, NothingHappens
  <2> QED
    BY <2>2, <2>3, <1>8 DEF Close, Drop
<1> QED
  BY <1>2, <1>3, <1>4, <1>5, <1>6, <1>7, <1>8 DEF Next, Poll, Application

LEMMA AlwaysProtocol == Spec => []Protocol
BY InitProtocol, NextProtocol, Typed, AlwaysCoherent, AlwaysSettled, PTL DEF Spec
-----------------------------------------------------------------------------
\* An id that is open on both sides carries one channel (internal_channels of
\* the two peers): an open or an acknowledgement that comes late never opens
\* the channel that took the id after a stream reset.
THEOREM OneChannelOpen == Spec => []OpenTogether
<1>1. TypeInv /\ Protocol => OpenTogether
  <2> SUFFICES ASSUME TypeInv, Protocol, NEW s \in DOMAIN channels["a"] \cap DOMAIN channels["b"],
                      channels["a"][s].state = "Open", channels["b"][s].state = "Open"
               PROVE  handles[channels["a"][s].handle].opener = handles[channels["b"][s].handle].opener
    BY DEF OpenTogether
  <2>1. Holds("a", s) /\ Holds("b", s)
    BY DEF Holds
  <2>2. s \in Streams /\ StreamSound(s)
    BY <2>1, HeldHandle DEF Protocol, StreamsSound
  <2>3. \A q \in Endpoints : Holds(q, s) /\ StateAt(q, s) = "Open" /\ OpenerAt(q, s) = handles[channels[q][s].handle].opener
    BY <2>1 DEF StateAt, OpenerAt
  <2>4. OpenerAt(Guest(s), s) = OpenerAt(Owner(s), s)
    BY <2>2, <2>3, OwnerAndGuest DEF StreamSound, GuestOpen, OwnerSound
  <2>5. OpenerAt("a", s) = OpenerAt("b", s)
    BY <2>2, <2>4, OwnerAndGuest
  <2> QED
    BY <2>3, <2>5
<1> QED
  BY <1>1, Typed, AlwaysProtocol, PTL

\* A channel its own side created is open only when the peer accepted that very
\* one (handle_datachannel_message, DATA_CHANNEL_ACK): what opens it is never
\* the acknowledgement of an earlier channel on its id.
THEOREM OpenWasAccepted == Spec => []AckedIsAccepted
<1>1. TypeInv /\ Protocol => AckedIsAccepted
  <2> SUFFICES ASSUME TypeInv, Protocol, NEW e \in Endpoints, NEW s \in DOMAIN channels[e],
                      handles[channels[e][s].handle].opener = channels[e][s].handle, channels[e][s].state = "Open"
               PROVE  \E g \in Handles : g # channels[e][s].handle /\ handles[g].opener = channels[e][s].handle
    BY DEF AckedIsAccepted
  <2>1. Holds(e, s) /\ StateAt(e, s) = "Open" /\ OpenerAt(e, s) = HandleAt(e, s)
    BY DEF Holds, StateAt, OpenerAt, HandleAt
  <2>2. s \in Streams /\ StreamSound(s)
    BY <2>1, HeldHandle DEF Protocol, StreamsSound
  <2>3. Accepted(HandleAt(e, s))
    BY <2>1, <2>2, OwnerAndGuest DEF StreamSound, OwnerSound
  <2> QED
    BY <2>3 DEF Accepted, HandleAt
<1> QED
  BY <1>1, Typed, AlwaysProtocol, PTL

\* A step changes what was received only by delivering a message.
LEMMA InboxChanges ==
  ASSUME TypeInv, [Next]_vars
  PROVE  \/ Handles' = Handles /\ OpenersKept /\ UNCHANGED inbox
         \/ \E n : /\ Handles' = Handles \cup {n} /\ n \notin Handles /\ inbox'[n] = << >> /\ OpenersKept
                   /\ \A h \in Handles : inbox'[h] = inbox[h]
         \/ /\ UNCHANGED handles
            /\ \E e \in Endpoints : \E m, w : \E s \in Streams :
                 m \in OnWire(e) /\ m \in Message /\ m.kind = "Data" /\ m.streams = {s} /\ m.from \in Handles
                   /\ IsDelivered(e, m, s, w)
<1>1. CASE UNCHANGED <<handles, inbox>>
  BY <1>1 DEF Handles, OpenersKept
<1>2. CASE UNCHANGED vars
  BY <1>1, <1>2 DEF vars, handleVars
<1>3. ASSUME NEW e \in Endpoints, Session(e) \/ ProcessAction(e) \/ ResetAnswered(e) PROVE UNCHANGED <<handles, inbox>>
  BY <1>3 DEF Session, SetRemoteDescription, HandleTransportConnected, AssocChange, ProcessAction, ResetAnswered, handleVars
<1>4. ASSUME NEW e \in Endpoints, Receive(e)
      PROVE  \/ UNCHANGED <<handles, inbox>>
             \/ \E n : /\ Handles' = Handles \cup {n} /\ n \notin Handles /\ inbox'[n] = << >> /\ OpenersKept
                       /\ \A h \in Handles : inbox'[h] = inbox[h]
             \/ /\ UNCHANGED handles
                /\ \E m, w : \E s \in Streams :
                     m \in OnWire(e) /\ m \in Message /\ m.kind = "Data" /\ m.streams = {s} /\ m.from \in Handles
                       /\ IsDelivered(e, m, s, w)
  <2>1. PICK i, m, w :
           /\ Takes(e, i, m, w) /\ FromWire(w) /\ m \in OnWire(e) /\ m \in Message
           /\ \/ m.kind = "Reset" /\ ReceiveReset(e, m, w)
              \/ /\ m.kind # "Reset"
                 /\ \E s \in Streams : m.streams = {s} /\ m.from \in Handles /\ Handled(e, m, s, w)
    BY <1>4, ReceiveCases
  <2>2. CASE m.kind = "Reset" /\ ReceiveReset(e, m, w)
    BY <2>2 DEF ReceiveReset
  <2>3. CASE \E s \in Streams : m.streams = {s} /\ m.from \in Handles /\ Handled(e, m, s, w)
    <3>0. PICK s \in Streams : m.streams = {s} /\ m.from \in Handles /\ Handled(e, m, s, w)
      BY <2>3
    <3>1. CASE m.kind = "Open" /\ IsAccepted(e, m, s, w)
      <4>0. PICK n : n = Len(handles) + 1
        OBVIOUS
      <4>1. /\ Handles' = Handles \cup {n} /\ n \notin Handles /\ inbox'[n] = << >>
            /\ \A h \in Handles : handles'[h] = handles[h] /\ inbox'[h] = inbox[h]
        BY <4>0, <3>0, <3>1, <2>1, OpenAccepted DEF IsAccepted
      <4> QED
        BY <4>1 DEF OpenersKept
    <3>2. CASE m.kind = "Data" /\ IsDelivered(e, m, s, w)
      <4>1. UNCHANGED handles
        BY <3>2 DEF IsDelivered
      <4> QED
        BY <4>1, <3>0, <3>2, <2>1
    <3> QED
      BY <3>0, <3>1, <3>2 DEF Handled, IsRefused, ClosesThere, IsIgnored, IsAnswered
  <2> QED
    BY <2>1, <2>2, <2>3
<1>5. ASSUME NEW e \in Endpoints, NEW ordered \in Orderings, CreateDataChannel(e, ordered)
      PROVE  \E n : /\ Handles' = Handles \cup {n} /\ n \notin Handles /\ inbox'[n] = << >> /\ OpenersKept
                    /\ \A h \in Handles : inbox'[h] = inbox[h]
  <2>0. PICK n : n = Len(handles) + 1
    OBVIOUS
  <2>1. /\ Handles' = Handles \cup {n} /\ n \notin Handles /\ inbox'[n] = << >>
        /\ \A h \in Handles : handles'[h] = handles[h] /\ inbox'[h] = inbox[h]
    BY <2>0, <1>5, CreatedChannel
  <2> QED
    BY <2>1 DEF OpenersKept
<1>6. ASSUME NEW h \in Handles, SendMessage(h) \/ Close(h) \/ Drop(h) PROVE Handles' = Handles /\ OpenersKept /\ UNCHANGED inbox
  <2>1. CASE SendMessage(h)
    BY <2>1 DEF SendMessage, Handles, OpenersKept
  <2>2. CASE Close(h)
    BY <2>2, HeldChanged DEF Close, OpenersKept
  <2>3. CASE Drop(h)
    BY <2>3, HeldChanged DEF Drop, OpenersKept
  <2> QED
    BY <2>1, <2>2, <2>3, <1>6
<1> QED
  BY <1>1, <1>2, <1>3, <1>4, <1>5, <1>6 DEF Next, Poll, Application

\* What an application sends while its channel is open (send_text_message) is
\* received by a handle of that channel or by none: data of a closed channel
\* never reaches the one that took its id after a stream reset.
THEOREM DataFindsItsChannel == Spec => []RightChannel
<1>1. Init => RightChannel
  BY DEF Init, RightChannel, Handles
<1>2. TypeInv /\ Protocol /\ RightChannel /\ [Next]_vars => RightChannel'
  <2> SUFFICES ASSUME TypeInv, Protocol, RightChannel, [Next]_vars PROVE RightChannel'
    OBVIOUS
  <2>0. \A h \in Handles : \A i \in 1 .. Len(inbox[h]) : inbox[h][i].from \in Handles
    BY DEF TypeInv, HandleTypes
  <2>1. CASE Handles' = Handles /\ OpenersKept /\ UNCHANGED inbox
    BY <2>0, <2>1 DEF RightChannel, OpenersKept
  <2>2. ASSUME NEW n, Handles' = Handles \cup {n}, n \notin Handles, inbox'[n] = << >>, OpenersKept,
               \A h \in Handles : inbox'[h] = inbox[h]
        PROVE  RightChannel'
    BY <2>0, <2>2 DEF RightChannel, OpenersKept
  <2>3. ASSUME UNCHANGED handles, NEW e \in Endpoints, NEW m, NEW w, NEW s \in Streams, m \in OnWire(e), m \in Message,
               m.kind = "Data", m.streams = {s}, m.from \in Handles, IsDelivered(e, m, s, w)
        PROVE  RightChannel'
    <3>0. PICK h : h = HandleAt(e, s)
      OBVIOUS
    <3>1. Closable(e, s) /\ UNCHANGED <<handles, stage>> /\ Delivers(h, m.from, m.open)
      BY <3>0, <2>3 DEF IsDelivered, Delivers
    <3>2. h \in Handles /\ m.open \in BOOLEAN /\ m.from \in Handles
      BY <3>0, <3>1, <2>3, HeldHandle DEF Closable, Message
    <3>3. /\ Handles' = Handles
          /\ \A g \in Handles : \A i \in 1 .. Len(inbox'[g]) :
               \/ i \in 1 .. Len(inbox[g]) /\ inbox'[g][i] = inbox[g][i]
               \/ g = h /\ inbox'[g][i] = [from |-> m.from, open |-> m.open]
      BY <3>1, <3>2, DataArrives
    <3>4. m.open => handles[h].opener = handles[m.from].opener
      BY <3>0, <2>3 DEF Protocol, DataSound, OpenerAt, HandleAt
    <3> QED
      BY <3>1, <3>3, <3>4 DEF RightChannel
  <2> QED
    BY <2>1, <2>2, <2>3, InboxChanges
<1> QED
  BY <1>1, <1>2, Typed, AlwaysProtocol, PTL DEF Spec
-----------------------------------------------------------------------------
(***************************************************************************)
(* The handles: each belongs to a channel one side opened and the other    *)
(* accepted at most once, hence their number.                              *)
(***************************************************************************)
Opened == {h \in Handles : handles[h].opener = h}

OpenersSound ==
  /\ \A g \in Handles : handles[g].opener \in Opened
  /\ \A f, g \in Handles :
       handles[f].opener = handles[g].opener /\ handles[f].opener # f /\ handles[g].opener # g => f = g
  /\ Cardinality(Opened) <= MaxOpened

LEMMA OpenedFinite == TypeInv => IsFiniteSet(Opened) /\ IsFiniteSet(Handles) /\ Cardinality(Handles) = Len(handles)
                                   /\ Cardinality(Opened) \in Nat
<1> SUFFICES ASSUME TypeInv PROVE IsFiniteSet(Opened) /\ IsFiniteSet(Handles) /\ Cardinality(Handles) = Len(handles)
                                    /\ Cardinality(Opened) \in Nat
  OBVIOUS
<1>1. Len(handles) \in Nat
  BY DEF TypeInv, HandleTypes
<1>2. IsFiniteSet(Handles) /\ Cardinality(Handles) = Len(handles)
  <2>1. /\ IsFiniteSet(1 .. Len(handles))
        /\ Cardinality(1 .. Len(handles)) = IF 1 > Len(handles) THEN 0 ELSE Len(handles) - 1 + 1
    BY <1>1, FS_Interval
  <2> QED
    BY <2>1, <1>1 DEF Handles
<1>3. Opened \in SUBSET Handles
  BY DEF Opened
<1>4. IsFiniteSet(Opened)
  BY <1>2, <1>3, FS_Subset
<1> QED
  BY <1>2, <1>4, FS_CardinalityType

LEMMA InitOpeners == Init => OpenersSound
<1> SUFFICES ASSUME Init PROVE OpenersSound
  OBVIOUS
<1>1. Handles = {} /\ Opened = {}
  BY DEF Init, Handles, Opened
<1> QED
  BY <1>1, FS_EmptySet, ChannelAssumption DEF OpenersSound

LEMMA HandlesChange ==
  ASSUME TypeInv, SessionSound, Headed, Protocol, [Next]_vars
  PROVE  \/ Handles' = Handles /\ OpenersKept
         \/ \E n : /\ Handles' = Handles \cup {n} /\ n \notin Handles /\ OpenersKept
                   /\ \/ handles'[n].opener = n /\ Cardinality(Opened) < MaxOpened
                      \/ handles'[n].opener \in Opened /\ ~ Accepted(handles'[n].opener)
<1>1. CASE UNCHANGED handles
  BY <1>1 DEF Handles, OpenersKept
<1>2. CASE UNCHANGED vars
  BY <1>1, <1>2 DEF vars, handleVars
<1>3. ASSUME NEW e \in Endpoints, Session(e) \/ ProcessAction(e) \/ ResetAnswered(e) PROVE UNCHANGED handles
  BY <1>3 DEF Session, SetRemoteDescription, HandleTransportConnected, AssocChange, ProcessAction, ResetAnswered, handleVars
<1>4. ASSUME NEW e \in Endpoints, Receive(e)
      PROVE  \/ UNCHANGED handles
             \/ \E n : /\ Handles' = Handles \cup {n} /\ n \notin Handles /\ OpenersKept
                       /\ handles'[n].opener \in Opened /\ ~ Accepted(handles'[n].opener)
  <2>1. PICK i, m, w :
           /\ Takes(e, i, m, w) /\ FromWire(w) /\ m \in OnWire(e) /\ m \in Message
           /\ \/ m.kind = "Reset" /\ ReceiveReset(e, m, w)
              \/ /\ m.kind # "Reset"
                 /\ \E s \in Streams : m.streams = {s} /\ m.from \in Handles /\ Handled(e, m, s, w)
    BY <1>4, ReceiveCases
  <2>2. CASE m.kind = "Reset" /\ ReceiveReset(e, m, w)
    BY <2>2 DEF ReceiveReset
  <2>3. CASE \E s \in Streams : m.streams = {s} /\ m.from \in Handles /\ Handled(e, m, s, w)
    <3>0. PICK s \in Streams : m.streams = {s} /\ m.from \in Handles /\ Handled(e, m, s, w)
      BY <2>3
    <3>1. CASE m.kind = "Open" /\ IsAccepted(e, m, s, w)
      <4>0. PICK n : n = Len(handles) + 1
        OBVIOUS
      <4>1. /\ Handles' = Handles \cup {n} /\ n \notin Handles /\ handles'[n].opener = m.from
            /\ \A h \in Handles : handles'[h] = handles[h]
        BY <4>0, <3>0, <3>1, <2>1, OpenAccepted DEF IsAccepted
      <4>2. m \in Opens(s) /\ StreamSound(s)
        BY <3>0, <3>1, <2>1 DEF Headed, Opens, Protocol, StreamsSound
      <4>3. ~ Accepted(m.from) /\ handles[m.from].opener = m.from
        BY <4>2 DEF StreamSound, OpensSound, OwnerSound, OpenerAt, HandleAt
      <4> QED
        BY <4>1, <4>3, <3>0 DEF OpenersKept, Opened
    <3> QED
      BY <3>0, <3>1 DEF Handled, IsRefused, ClosesThere, IsIgnored, IsAnswered, IsDelivered
  <2> QED
    BY <2>1, <2>2, <2>3
<1>5. ASSUME NEW e \in Endpoints, NEW ordered \in Orderings, CreateDataChannel(e, ordered)
      PROVE  \E n : /\ Handles' = Handles \cup {n} /\ n \notin Handles /\ OpenersKept
                    /\ handles'[n].opener = n /\ Cardinality(Opened) < MaxOpened
  <2>0. PICK n : n = Len(handles) + 1
    OBVIOUS
  <2>1. /\ Handles' = Handles \cup {n} /\ n \notin Handles /\ handles'[n].opener = n
        /\ \A h \in Handles : handles'[h] = handles[h]
    BY <2>0, <1>5, CreatedChannel
  <2>2. Cardinality(Opened) < MaxOpened
    BY <1>5 DEF CreateDataChannel, Opened
  <2> QED
    BY <2>1, <2>2 DEF OpenersKept
<1>6. ASSUME NEW h \in Handles, SendMessage(h) \/ Close(h) \/ Drop(h) PROVE Handles' = Handles /\ OpenersKept
  <2>1. CASE SendMessage(h)
    BY <2>1 DEF SendMessage, Handles, OpenersKept
  <2>2. CASE Close(h)
    BY <2>2, HeldChanged DEF Close, OpenersKept
  <2>3. CASE Drop(h)
    BY <2>3, HeldChanged DEF Drop, OpenersKept
  <2> QED
    BY <2>1, <2>2, <2>3, <1>6
<1> QED
  BY <1>1, <1>2, <1>3, <1>4, <1>5, <1>6 DEF Next, Poll, Application

LEMMA NextOpeners == TypeInv /\ SessionSound /\ Headed /\ Protocol /\ OpenersSound /\ [Next]_vars => OpenersSound'
<1> SUFFICES ASSUME TypeInv, SessionSound, Headed, Protocol, OpenersSound, [Next]_vars PROVE OpenersSound'
  OBVIOUS
<1>0. \A g \in Handles : handles[g].opener \in Handles
  BY DEF TypeInv, HandleTypes
<1>1. CASE Handles' = Handles /\ OpenersKept
  <2>1. Opened' = Opened
    BY <1>1 DEF Opened, OpenersKept
  <2> QED
    BY <2>1, <1>1 DEF OpenersSound, OpenersKept
<1>2. ASSUME NEW n, Handles' = Handles \cup {n}, n \notin Handles, OpenersKept, handles'[n].opener = n,
             Cardinality(Opened) < MaxOpened
      PROVE  OpenersSound'
  <2>1. Opened' = Opened \cup {n} /\ n \notin Opened
    BY <1>2 DEF Opened, OpenersKept
  <2>2. Cardinality(Opened') = Cardinality(Opened) + 1 /\ Cardinality(Opened) \in Nat
    BY <2>1, OpenedFinite, FS_AddElement
  <2>3. Cardinality(Opened)' <= MaxOpened
    BY <2>2, <1>2, ChannelAssumption
  <2>4. \A f, g \in Handles' :
          handles'[f].opener = handles'[g].opener /\ handles'[f].opener # f /\ handles'[g].opener # g => f = g
    BY <1>0, <1>2 DEF OpenersSound, OpenersKept
  <2>5. \A g \in Handles' : handles'[g].opener \in Opened'
    BY <2>1, <1>2 DEF OpenersSound, OpenersKept
  <2> QED
    BY <2>3, <2>4, <2>5 DEF OpenersSound
<1>3. ASSUME NEW n, Handles' = Handles \cup {n}, n \notin Handles, OpenersKept, handles'[n].opener \in Opened,
             ~ Accepted(handles'[n].opener)
      PROVE  OpenersSound'
  <2>1. Opened' = Opened /\ handles'[n].opener \in Handles
    BY <1>3 DEF Opened, OpenersKept
  <2>2. \A g \in Handles : handles[g].opener = handles'[n].opener => g = handles'[n].opener
    BY <1>3 DEF Accepted
  <2>3. \A f, g \in Handles' :
          handles'[f].opener = handles'[g].opener /\ handles'[f].opener # f /\ handles'[g].opener # g => f = g
    BY <1>3, <2>1, <2>2 DEF OpenersSound, OpenersKept
  <2>4. \A g \in Handles' : handles'[g].opener \in Opened'
    BY <2>1, <1>3 DEF OpenersSound, OpenersKept
  <2> QED
    BY <2>1, <2>3, <2>4 DEF OpenersSound
<1> QED
  BY <1>1, <1>2, <1>3, HandlesChange

LEMMA AlwaysOpeners == Spec => []OpenersSound
<1>1. TypeInv /\ Settled /\ Protocol /\ OpenersSound /\ [Next]_vars => OpenersSound'
  BY NextOpeners DEF Settled
<1> QED
  BY <1>1, InitOpeners, Typed, AlwaysSettled, AlwaysProtocol, PTL DEF Spec

LEMMA HandlesCounted == TypeInv /\ OpenersSound => Len(handles) <= 2 * MaxOpened
<1> SUFFICES ASSUME TypeInv, OpenersSound PROVE Len(handles) <= 2 * MaxOpened
  OBVIOUS
<1> DEFINE G == Handles \ Opened
           f == [g \in G |-> handles[g].opener]
<1>1. f \in Injection(G, Opened)
  <2>1. f \in [G -> Opened]
    BY DEF OpenersSound
  <2>2. \A g, h \in G : f[g] = f[h] => g = h
    BY DEF OpenersSound, Opened
  <2> QED
    BY <2>1, <2>2 DEF Injection, IsInjective
<1>2. IsFiniteSet(G) /\ Cardinality(G) <= Cardinality(Opened)
  <2> HIDE DEF G, f
  <2> QED
    BY <1>1, OpenedFinite, FS_Injection
<1>3. Opened \cup G = Handles /\ Opened \cap G = {}
  BY DEF Opened
<1> HIDE DEF G, f
<1>4. Cardinality(Opened \cup G) = Cardinality(Opened) + Cardinality(G) - Cardinality(Opened \cap G)
  BY <1>2, OpenedFinite, FS_Union
<1>5. Cardinality(Handles) = Cardinality(Opened) + Cardinality(G) - 0 /\ Cardinality(G) \in Nat
  BY <1>2, <1>3, <1>4, FS_EmptySet, FS_CardinalityType
<1>6. Cardinality(Opened) <= MaxOpened
  BY DEF OpenersSound
<1> QED
  BY <1>2, <1>5, <1>6, OpenedFinite, ChannelAssumption

\* Type correctness of both endpoints, their handles and the association: no
\* message, action or channel refers to a handle that was not given out, and
\* there are two handles a channel at most.
THEOREM TypeCorrect == Spec => []TypeOK
<1>1. TypeInv /\ OpenersSound => TypeOK
  <2> SUFFICES ASSUME TypeInv, OpenersSound PROVE TypeOK
    OBVIOUS
  <2>1. wire \in [Endpoints -> Seq(Messages)]
    <3>1. \A q \in Endpoints : \A m \in OnWire(q) : m \in Messages
      <4> SUFFICES ASSUME NEW q \in Endpoints, NEW m \in OnWire(q) PROVE m \in Messages
        OBVIOUS
      <4>1. m \in Message
        BY Elements DEF TypeInv, WireTypes, OnWire
      <4>2. m.from \in Handles \/ m.from = 0
        BY DEF TypeInv, WireTypes, FromHandle
      <4>3. Len(handles) \in Nat /\ Len(handles) <= 2 * MaxOpened
        BY HandlesCounted DEF TypeInv, HandleTypes
      <4>4. m.from \in 0 .. 2 * MaxOpened
        BY <4>2, <4>3, ChannelAssumption DEF Handles
      <4> QED
        BY <4>1, <4>4 DEF Message, Messages
    <3>2. ASSUME NEW q \in Endpoints PROVE wire[q] \in Seq(Messages)
      <4>1. wire[q] \in Seq(Message)
        BY DEF TypeInv, WireTypes
      <4>2. \A i \in 1 .. Len(wire[q]) : wire[q][i] \in Messages
        BY <4>1, <3>1, Elements DEF OnWire
      <4> QED
        BY <4>1, <4>2
    <3>3. DOMAIN wire = Endpoints /\ wire = [q \in Endpoints |-> wire[q]]
      BY DEF TypeInv, WireTypes
    <3> QED
      BY <3>2, <3>3
  <2>2. \A e \in Endpoints :
          /\ DOMAIN channels[e] \subseteq Streams
          /\ \A s \in DOMAIN channels[e] : channels[e][s].state \in States /\ channels[e][s].handle \in Handles
    BY ChannelMapShape DEF TypeInv, ChannelTypes, HandleAt, ChannelRecord
  <2>3. actions \in [Endpoints -> Seq([kind : {"SendMessage", "Close"}, id : Streams, handle : Handles])]
    <3> DEFINE A == [kind : {"SendMessage", "Close"}, id : Streams, handle : Handles]
    <3>1. ASSUME NEW q \in Endpoints PROVE actions[q] \in Seq(A)
      <4>1. actions[q] \in Seq(ActionRecord)
        BY DEF TypeInv, ActionTypes
      <4>2. \A i \in 1 .. Len(actions[q]) : actions[q][i] \in A
        <5> SUFFICES ASSUME NEW i \in 1 .. Len(actions[q]) PROVE actions[q][i] \in A
          OBVIOUS
        <5>1. actions[q][i] \in ToSet(actions[q]) /\ actions[q][i] \in ActionRecord
          BY <4>1, Elements
        <5>2. actions[q][i].handle \in Handles
          BY <5>1 DEF TypeInv, ActionTypes
        <5> QED
          BY <5>1, <5>2 DEF ActionRecord
      <4> HIDE DEF A
      <4> QED
        BY <4>1, <4>2, ElementsIn
    <3> HIDE DEF A
    <3>2. actions = [q \in Endpoints |-> actions[q]]
      BY DEF TypeInv, ActionTypes
    <3>3. actions \in [Endpoints -> Seq(A)]
      BY <3>1, <3>2
    <3> QED
      BY <3>3 DEF A
  <2>4. handles \in Seq([at : Endpoints, id : Streams, state : States, ordered : BOOLEAN,
                         held : {"held", "closed", "dropped"}, opener : Handles])
    <3> DEFINE H == [at : Endpoints, id : Streams, state : States, ordered : BOOLEAN,
                     held : {"held", "closed", "dropped"}, opener : Handles]
    <3>1. \A h \in 1 .. Len(handles) : handles[h] \in H
      BY RecordOf DEF HandleRecord, TypeInv, HandleTypes, Handles
    <3> HIDE DEF H
    <3>2. handles \in Seq(HandleRecord)
      BY DEF TypeInv, HandleTypes
    <3>3. handles \in Seq(H)
      BY <3>1, <3>2, ElementsIn
    <3> QED
      BY <3>3 DEF H
  <2>5. inbox \in Seq(Seq([from : Handles, open : BOOLEAN]))
    <3> DEFINE R == [from : Handles, open : BOOLEAN]
    <3>1. ASSUME NEW h \in 1 .. Len(inbox) PROVE inbox[h] \in Seq(R)
      <4>1. inbox[h] \in Seq(Received) /\ h \in Handles
        BY DEF TypeInv, HandleTypes, Handles
      <4>2. \A i \in 1 .. Len(inbox[h]) : inbox[h][i] \in R
        <5> SUFFICES ASSUME NEW i \in 1 .. Len(inbox[h]) PROVE inbox[h][i] \in R
          OBVIOUS
        <5>1. inbox[h][i] \in Received
          BY <4>1
        <5>2. inbox[h][i].from \in Handles
          BY <4>1 DEF TypeInv, HandleTypes
        <5> QED
          BY <5>1, <5>2 DEF Received
      <4> HIDE DEF R
      <4> QED
        BY <4>1, <4>2, ElementsIn
    <3> HIDE DEF R
    <3> DEFINE T == Seq(R)
    <3>2. \A h \in 1 .. Len(inbox) : inbox[h] \in T
      BY <3>1
    <3> HIDE DEF T
    <3>3. inbox \in Seq(Seq(Received))
      BY DEF TypeInv, HandleTypes
    <3>4. inbox \in Seq(T)
      BY <3>2, <3>3, ElementsIn
    <3> QED
      BY <3>4 DEF R, T
  <2>6. /\ resetting \in [Endpoints -> SUBSET Streams] /\ pending \in [Endpoints -> SUBSET Streams]
        /\ stage \in Seq(States) /\ Len(stage) = Len(handles) /\ Len(inbox) = Len(handles)
    BY DEF TypeInv, ChannelTypes, HandleTypes
  <2> QED
    BY <2>1, <2>2, <2>3, <2>4, <2>5, <2>6 DEF TypeOK, TypeInv, SessionTypes
<1> QED
  BY <1>1, Typed, AlwaysOpeners, PTL
-----------------------------------------------------------------------------
(***************************************************************************)
(* The events of the handles implement DataChannelLifecycle.               *)
(***************************************************************************)
LEMMA Ranks ==
  /\ Lifecycle!Rank["Connecting"] < Lifecycle!Rank["Open"]
  /\ \A st \in {"Connecting", "Open"} : Lifecycle!Rank[st] < Lifecycle!Rank["Closing"]
  /\ \A st \in States \ {"Closed"} : Lifecycle!Rank[st] < Lifecycle!Rank["Closed"]
BY DEF Lifecycle!Rank, Lifecycle!States, States

\* What a handle reports may only follow what the model allows its events.
LEMMA OneAdvances ==
  ASSUME TypeInv, NEW h \in Handles, NEW st \in States, stage' = [stage EXCEPT ![h] = st], UNCHANGED inbox,
         Lifecycle!Rank[stage[h]] < Lifecycle!Rank[st]
  PROVE  Lifecycle!LifecycleNext
<1>1. DOMAIN stage = Handles /\ stage = [g \in DOMAIN stage |-> stage[g]]
  BY DEF TypeInv, HandleTypes, Handles
<1>2. stage' = [g \in DOMAIN stage |-> IF g \in {h} THEN st ELSE stage[g]]
  BY <1>1
<1>3. Lifecycle!Advance({h}, st)
  BY <1>2 DEF Lifecycle!Advance
<1>4. {h} \in SUBSET DOMAIN stage /\ st \in Lifecycle!States
  BY <1>1 DEF States, Lifecycle!States
<1> QED
  BY <1>3, <1>4 DEF Lifecycle!LifecycleNext

LEMMA ClosingAdvances ==
  ASSUME TypeInv, Coherent, NEW e \in Endpoints, NEW s \in Streams, NEW w, Closable(e, s), CloseLocally(e, s, w), UNCHANGED inbox
  PROVE  Lifecycle!LifecycleNext
<1>1. PICK h : h = HandleAt(e, s)
  OBVIOUS
<1>2. h \in Handles /\ stage[h] \in {"Connecting", "Open"}
  BY <1>1, HeldHandle DEF Closable, Coherent, ChannelsSound, StateAt
<1>3. stage' = [stage EXCEPT ![h] = "Closing"] /\ "Closing" \in States
  BY <1>1 DEF CloseLocally, HandleAt, States
<1> QED
  BY <1>2, <1>3, Ranks, OneAdvances

LEMMA ResetAdvances ==
  ASSUME TypeInv, NEW e \in Endpoints, NEW m \in Message, NEW w, FromWire(w), ReceiveReset(e, m, w)
  PROVE  Lifecycle!LifecycleNext
<1> DEFINE H == {h \in Handles : stage[h] # "Closed" /\ \E t \in m.streams : Holds(e, t) /\ h = HandleAt(e, t)}
<1>1. /\ UNCHANGED inbox /\ stage' = [h \in Handles |-> IF h \in {channels[e][t].handle : t \in m.streams \cap DOMAIN channels[e]}
                                                        THEN "Closed" ELSE stage[h]]
  BY DEF ReceiveReset
<1>2. DOMAIN stage = Handles /\ \A h \in Handles : stage[h] \in States
  BY DEF TypeInv, HandleTypes, Handles
<1>3. \A h \in Handles : (IF h \in {channels[e][t].handle : t \in m.streams \cap DOMAIN channels[e]} THEN "Closed" ELSE stage[h])
                           = (IF h \in H THEN "Closed" ELSE stage[h])
  BY DEF Holds, HandleAt
<1>4. stage' = [h \in DOMAIN stage |-> IF h \in H THEN "Closed" ELSE stage[h]]
  BY <1>1, <1>2, <1>3
<1>5. \A h \in H : Lifecycle!Rank[stage[h]] < Lifecycle!Rank["Closed"]
  BY <1>2, Ranks
<1>6. H \in SUBSET DOMAIN stage /\ "Closed" \in Lifecycle!States
  BY <1>2 DEF Lifecycle!States
<1> HIDE DEF H
<1>7. Lifecycle!Advance(H, "Closed")
  BY <1>1, <1>4, <1>5 DEF Lifecycle!Advance
<1> QED
  BY <1>6, <1>7 DEF Lifecycle!LifecycleNext

LEMMA OneAppears ==
  ASSUME NEW st \in States, stage' = Append(stage, st), inbox' = Append(inbox, << >>) PROVE Lifecycle!LifecycleNext
BY DEF Lifecycle!LifecycleNext, Lifecycle!Appear, Lifecycle!States, States

LEMMA OneReceives ==
  ASSUME TypeInv, Coherent, NEW e \in Endpoints, NEW m \in Message, m.from \in Handles, NEW s, NEW w, IsDelivered(e, m, s, w)
  PROVE  Lifecycle!LifecycleNext
<1>1. PICK h : h = HandleAt(e, s)
  OBVIOUS
<1>2. s \in Streams /\ h \in Handles /\ stage[h] \in {"Connecting", "Open"}
  BY <1>1, HeldHandle DEF IsDelivered, Closable, Coherent, ChannelsSound, StateAt
<1>3. inbox' = [inbox EXCEPT ![h] = Append(@, [from |-> m.from, open |-> m.open])] /\ UNCHANGED stage
  BY <1>1 DEF IsDelivered
<1>4. Lifecycle!Receives(h, [from |-> m.from, open |-> m.open])
  BY <1>2, <1>3 DEF Lifecycle!Receives
<1>5. DOMAIN stage = Handles /\ m.open \in BOOLEAN
  BY DEF TypeInv, HandleTypes, Handles, Message
<1> QED
  BY <1>2, <1>4, <1>5 DEF Lifecycle!LifecycleNext

LEMMA ReceiveAdvances ==
  ASSUME TypeInv, Coherent, NEW e \in Endpoints, Receive(e)
  PROVE  Lifecycle!LifecycleNext \/ UNCHANGED <<stage, inbox>>
<1>1. PICK i, m, w :
         /\ Takes(e, i, m, w) /\ FromWire(w) /\ m \in OnWire(e) /\ m \in Message
         /\ \/ m.kind = "Reset" /\ ReceiveReset(e, m, w)
            \/ /\ m.kind # "Reset"
               /\ \E s \in Streams : m.streams = {s} /\ m.from \in Handles /\ Handled(e, m, s, w)
  BY ReceiveCases
<1>2. CASE m.kind = "Reset" /\ ReceiveReset(e, m, w)
  BY <1>1, <1>2, ResetAdvances
<1>3. ASSUME NEW s \in Streams, m.from \in Handles, Handled(e, m, s, w)
      PROVE  Lifecycle!LifecycleNext \/ UNCHANGED <<stage, inbox>>
  <2>1. CASE IsRefused(e, s, w) \/ IsIgnored(w)
    BY <2>1 DEF IsRefused, IsIgnored
  <2>2. CASE ClosesThere(e, s, w)
    BY <2>2, ClosingAdvances DEF ClosesThere
  <2>3. CASE IsAccepted(e, m, s, w)
    BY <2>3, OneAppears DEF IsAccepted, Accept, States
  <2>4. CASE IsAnswered(e, s, w)
    <3>1. PICK h : h = HandleAt(e, s)
      OBVIOUS
    <3>2. h \in Handles /\ stage[h] = "Connecting"
      BY <2>4, <3>1, HeldHandle DEF IsAnswered, Coherent, ChannelsSound
    <3>3. stage' = [stage EXCEPT ![h] = "Open"] /\ UNCHANGED inbox /\ "Open" \in States
      BY <2>4, <3>1 DEF IsAnswered, HandleAt, States
    <3> QED
      BY <3>2, <3>3, Ranks, OneAdvances
  <2>5. CASE IsDelivered(e, m, s, w)
    BY <2>5, <1>1, <1>3, OneReceives
  <2> QED
    BY <2>1, <2>2, <2>3, <2>4, <2>5, <1>3 DEF Handled
<1> QED
  BY <1>1, <1>2, <1>3

LEMMA NextLifecycle == TypeInv /\ Coherent /\ [Next]_vars => [Lifecycle!LifecycleNext]_<<stage, inbox>>
<1> SUFFICES ASSUME TypeInv, Coherent, [Next]_vars PROVE Lifecycle!LifecycleNext \/ UNCHANGED <<stage, inbox>>
  OBVIOUS
<1>1. CASE UNCHANGED vars
  BY <1>1 DEF vars, handleVars
<1>2. ASSUME NEW e \in Endpoints, Session(e) \/ ResetAnswered(e) PROVE UNCHANGED <<stage, inbox>>
  BY <1>2 DEF Session, SetRemoteDescription, HandleTransportConnected, AssocChange, ResetAnswered, handleVars
<1>3. ASSUME NEW e \in Endpoints, ProcessAction(e) PROVE Lifecycle!LifecycleNext \/ UNCHANGED <<stage, inbox>>
  <2>1. PICK a : a = Head(actions[e])
    OBVIOUS
  <2>2. UNCHANGED inbox /\ a.id \in Streams
    BY <1>3, <2>1, FirstAction DEF ProcessAction, ActionRecord
  <2>3. (Closable(e, a.id) /\ CloseLocally(e, a.id, wire)) \/ UNCHANGED stage
    BY <1>3, <2>1 DEF ProcessAction
  <2> QED
    BY <2>2, <2>3, ClosingAdvances
<1>4. ASSUME NEW e \in Endpoints, NEW ordered \in Orderings, CreateDataChannel(e, ordered) PROVE Lifecycle!LifecycleNext
  <2>1. PICK st : st = (IF assoc[e] = "Connected" THEN "Connecting" ELSE "Closed")
    OBVIOUS
  <2>2. stage' = Append(stage, st) /\ inbox' = Append(inbox, << >>) /\ st \in States
    BY <1>4, <2>1 DEF CreateDataChannel, States
  <2> QED
    BY <2>2, OneAppears
<1>5. ASSUME NEW h \in Handles, SendMessage(h) \/ Close(h) \/ Drop(h) PROVE UNCHANGED <<stage, inbox>>
  BY <1>5 DEF SendMessage, Close, Drop
<1> QED
  BY <1>1, <1>2, <1>3, <1>4, <1>5, ReceiveAdvances DEF Next, Poll, Application

\* The events of every handle implement DataChannelLifecycle (DataChannelEvent
\* of application.rs): the states reported only move forward, a handle whose
\* channel is reset by the peer is told Closed together with the others of that
\* reset, and no message is delivered to one that was told its channel closes.
THEOREM ImplementsLifecycle == Spec => LifecyclePromise
<1>1. Init => Lifecycle!LifecycleInit
  BY DEF Init, Lifecycle!LifecycleInit
<1> QED
  BY <1>1, NextLifecycle, Typed, AlwaysCoherent, PTL DEF Spec, LifecyclePromise, Lifecycle!LifecycleSpec
=============================================================================
