------------------------- MODULE PeerConnection_proofs -------------------------
(***************************************************************************)
(* Theorems about PeerConnection and the CertificateCache it is composed   *)
(* with, for any sides, any number of initializing threads and any bounds. *)
(***************************************************************************)
EXTENDS PeerConnection, FiniteSetTheorems, NaturalsInduction, WellFoundedInduction, TLAPS

-----------------------------------------------------------------------------
(***************************************************************************)
(* The cache alone.  The argument is that the generation that is under way *)
(* is always the last one started, so that installing it can only replace  *)
(* an older certificate, and that a result is published after the          *)
(* certificate it speaks of has been installed.                            *)
(***************************************************************************)
USE DEF threads, contexts, tasks

\* The slot names the one generation under way, which is the last one.
Working ==
  /\ OneAtATime
  /\ current_regenerate # None => current_regenerate = started
  /\ \A g \in Generations : worker[g] # "none" => g <= started

\* The cache holds the last certificate that has been installed.
Cached ==
  \A g \in Generations : worker[g] \in {"installed", "done"} =>
    /\ current_context.of >= g
    /\ current_context.of = g => (current_context.ok <=> outcome[g])

\* A result is that of a generation that has come to its end.
Published ==
  \A g \in Generations : result[g] # "none" =>
    worker[g] = "done" /\ (result[g] = "ok" <=> outcome[g])

\* Who waits has asked, and who was answered has the result of its generation.
Asking ==
  \A t \in Tasks :
    /\ step[t] \in {"asked", "polling", "waiting"} => asked[t] \in Generations
    /\ answer[t] # "none" /\ step[t] \in {"done", "sleeping"} =>
         asked[t] \in Generations /\ result[asked[t]] = answer[t]

\* A timer is spawned by its initializer and has asked nothing before.
Spawned ==
  \A i \in Initializers : step[i] \in {"start", "locked"} =>
    step[Timer(i)] = "none" /\ answer[Timer(i)] = "none"

Inv == CacheTypeOK /\ Working /\ Cached /\ Published /\ Asking /\ Spawned

-----------------------------------------------------------------------------
LEMMA GenerationFacts ==
  /\ None \notin Generations
  /\ Generations \subseteq Nat
  /\ \A n \in Generations \cup {0} : n < MaxGenerations => n + 1 \in Generations
  BY CacheAssumption DEF Generations, None

LEMMA TimerFacts ==
  /\ \A i \in Initializers : Timer(i) \in Timers
  /\ \A i, j \in Initializers : Timer(i) = Timer(j) => i = j
  /\ \A t \in Timers : t \notin Initializers
  /\ Tasks = Initializers \cup Timers
  BY CacheAssumption DEF Timers, Timer, Tasks

LEMMA InitInv == CacheInit => Inv
<1> SUFFICES ASSUME CacheInit PROVE Inv
  OBVIOUS
<1>1. CacheTypeOK
  BY DEF CacheInit, CacheTypeOK
<1>2. Working /\ Cached /\ Published
  BY GenerationFacts DEF CacheInit, Working, OneAtATime, Cached, Published
<1>3. Asking /\ Spawned
  BY TimerFacts DEF CacheInit, Asking, Spawned
<1> QED
  BY <1>1, <1>2, <1>3 DEF Inv

-----------------------------------------------------------------------------
(* Asking for a certificate.                                               *)

\* What regenerate_certificate does to the generations: nothing, or a new one
\* that is the last.
LEMMA RegenerateKeeps ==
  ASSUME Inv, NEW t \in Tasks, RegenerateCertificate(t),
         UNCHANGED <<current_context, outcome, contexts>>
  PROVE  /\ started' \in Generations \cup {0}
         /\ current_regenerate' \in Generations
         /\ worker' \in [Generations -> {"none", "generating", "generated", "installed", "done"}]
         /\ asked' = [asked EXCEPT ![t] = current_regenerate']
         /\ Working' /\ Cached' /\ Published'
<1>1. CASE current_regenerate # None
  BY <1>1, GenerationFacts DEF Inv, CacheTypeOK, RegenerateCertificate, Working, OneAtATime, Cached, Published
<1>2. CASE current_regenerate = None
  <2> DEFINE new == started + 1
  <2>1. /\ new \in Generations /\ worker[new] = "none"
        /\ worker' = [worker EXCEPT ![new] = "generating"]
        /\ started' = new /\ current_regenerate' = new
        /\ asked' = [asked EXCEPT ![t] = new]
    BY <1>2, GenerationFacts DEF Inv, CacheTypeOK, RegenerateCertificate, Working
  <2>2. Working'
    BY <1>2, <2>1, GenerationFacts DEF Inv, CacheTypeOK, Working, OneAtATime
  <2>3. Cached'
    BY <2>1 DEF Inv, CacheTypeOK, Cached
  <2>4. Published'
    BY <2>1 DEF Inv, CacheTypeOK, Published
  <2> QED
    BY <2>1, <2>2, <2>3, <2>4 DEF Inv, CacheTypeOK
<1> QED
  BY <1>1, <1>2

LEMMA LockInv == ASSUME Inv, NEW i \in Initializers, Lock(i) PROVE Inv'
<1>1. CacheTypeOK'
  BY TimerFacts DEF Inv, CacheTypeOK, Lock
<1>2. Working' /\ Cached' /\ Published'
  BY DEF Inv, Lock, Working, OneAtATime, Cached, Published
<1>3. Asking'
  BY TimerFacts DEF Inv, CacheTypeOK, Lock, Asking
<1>4. Spawned'
  BY TimerFacts DEF Inv, CacheTypeOK, Lock, Spawned
<1> QED
  BY <1>1, <1>2, <1>3, <1>4 DEF Inv

LEMMA InitializeInv == ASSUME Inv, NEW i \in Initializers, Initialize(i) PROVE Inv'
<1>1. i \in Tasks /\ Timer(i) \in Tasks /\ Timer(i) # i
  BY TimerFacts
<1>2. /\ started' \in Generations \cup {0} /\ current_regenerate' \in Generations
      /\ worker' \in [Generations -> {"none", "generating", "generated", "installed", "done"}]
      /\ asked' = [asked EXCEPT ![i] = current_regenerate']
      /\ Working' /\ Cached' /\ Published'
  BY <1>1, RegenerateKeeps DEF Initialize
<1>3. CacheTypeOK'
  BY <1>1, <1>2 DEF Inv, CacheTypeOK, Initialize
<1>4. Asking'
  BY <1>1, <1>2 DEF Inv, CacheTypeOK, Initialize, Asking, Spawned
<1>5. Spawned'
  BY <1>1, TimerFacts DEF Inv, CacheTypeOK, Initialize, Spawned
<1> QED
  BY <1>2, <1>3, <1>4, <1>5 DEF Inv

LEMMA UnlockInv == ASSUME Inv, NEW i \in Initializers, Unlock(i) PROVE Inv'
<1>1. CacheTypeOK'
  BY TimerFacts DEF Inv, CacheTypeOK, Unlock
<1>2. Working' /\ Cached' /\ Published'
  BY DEF Inv, Unlock, Working, OneAtATime, Cached, Published
<1>3. Asking' /\ Spawned'
  BY TimerFacts DEF Inv, CacheTypeOK, Unlock, Asking, Spawned
<1> QED
  BY <1>1, <1>2, <1>3 DEF Inv

LEMMA TimerFiresInv == ASSUME Inv, NEW t \in Timers, TimerFires(t) PROVE Inv'
<1>1. t \in Tasks
  BY TimerFacts
<1>2. /\ started' \in Generations \cup {0} /\ current_regenerate' \in Generations
      /\ worker' \in [Generations -> {"none", "generating", "generated", "installed", "done"}]
      /\ asked' = [asked EXCEPT ![t] = current_regenerate']
      /\ Working' /\ Cached' /\ Published'
  BY <1>1, RegenerateKeeps DEF TimerFires
<1>3. CacheTypeOK'
  BY <1>1, <1>2 DEF Inv, CacheTypeOK, TimerFires
<1>4. Asking'
  BY <1>1, <1>2 DEF Inv, CacheTypeOK, TimerFires, Asking
<1>5. Spawned'
  BY <1>1, TimerFacts DEF Inv, CacheTypeOK, TimerFires, Spawned
<1> QED
  BY <1>2, <1>3, <1>4, <1>5 DEF Inv

\* A poll that finds the result hands it out as it is.
LEMMA PollFutureInv == ASSUME Inv, NEW t \in Tasks, PollFuture(t) PROVE Inv'
<1>1. asked[t] \in Generations
  BY DEF Inv, PollFuture, Asking
<1>2. CacheTypeOK'
  BY <1>1 DEF Inv, CacheTypeOK, PollFuture
<1>3. Working' /\ Cached' /\ Published'
  BY DEF Inv, PollFuture, Working, OneAtATime, Cached, Published
<1>4. Asking'
  BY <1>1 DEF Inv, CacheTypeOK, PollFuture, Asking
<1>5. Spawned'
  BY TimerFacts DEF Inv, CacheTypeOK, PollFuture, Spawned
<1> QED
  BY <1>2, <1>3, <1>4, <1>5 DEF Inv

-----------------------------------------------------------------------------
(* The thread of a generation.                                             *)

LEMMA GenerateInv == ASSUME Inv, NEW g \in Generations, Generate(g) PROVE Inv'
<1>1. CacheTypeOK'
  BY DEF Inv, CacheTypeOK, Generate
<1>2. Working'
  BY DEF Inv, CacheTypeOK, Generate, Working, OneAtATime
<1>3. \A h \in Generations \ {g} : worker'[h] = worker[h] /\ outcome'[h] = outcome[h]
  BY DEF Inv, CacheTypeOK, Generate
<1>4. worker[g] = "generating" /\ worker'[g] = "generated"
  BY DEF Inv, CacheTypeOK, Generate
<1>5. Cached' /\ Published'
  BY <1>3, <1>4 DEF Inv, Generate, Cached, Published
<1>6. Asking' /\ Spawned'
  BY DEF Inv, Generate, Asking, Spawned
<1> QED
  BY <1>1, <1>2, <1>5, <1>6 DEF Inv

\* What is installed is the last generation, so nothing newer is lost.
LEMMA InstallInv == ASSUME Inv, NEW g \in Generations, Install(g) PROVE Inv'
<1>1. CacheTypeOK'
  BY DEF Inv, CacheTypeOK, Install
<1>2. g = started /\ current_regenerate = g
  BY GenerationFacts DEF Inv, Install, Working, OneAtATime
<1>3. Working'
  BY <1>2, GenerationFacts DEF Inv, CacheTypeOK, Install, Working, OneAtATime
<1>4. \A h \in Generations : worker[h] # "none" => h <= g
  BY <1>2 DEF Inv, Working
<1>5. Cached'
  BY <1>4, GenerationFacts DEF Inv, CacheTypeOK, Install, Cached
<1>6. Published'
  BY DEF Inv, CacheTypeOK, Install, Published
<1>7. Asking' /\ Spawned'
  BY DEF Inv, Install, Asking, Spawned
<1> QED
  BY <1>1, <1>3, <1>5, <1>6, <1>7 DEF Inv

LEMMA PublishInv == ASSUME Inv, NEW g \in Generations, Publish(g) PROVE Inv'
<1>1. result[g] = "none" /\ worker[g] = "installed"
  BY DEF Inv, Publish, Published
<1>2. CacheTypeOK'
  BY DEF Inv, CacheTypeOK, Publish
<1>3. Working'
  BY GenerationFacts DEF Inv, CacheTypeOK, Publish, Working, OneAtATime
<1>4. Cached'
  BY <1>1 DEF Inv, CacheTypeOK, Publish, Cached
<1>5. Published'
  BY <1>1 DEF Inv, CacheTypeOK, Publish, Published
<1>6. \A t \in Tasks : step'[t] = step[t] \/ (step[t] = "waiting" /\ step'[t] = "polling")
  BY DEF Inv, CacheTypeOK, Publish
<1>7. \A h \in Generations : h # g => result'[h] = result[h]
  BY DEF Inv, CacheTypeOK, Publish
<1>8. Asking'
  BY <1>1, <1>6, <1>7 DEF Inv, CacheTypeOK, Publish, Asking
<1>9. Spawned'
  BY <1>6, TimerFacts DEF Inv, Publish, Spawned
<1> QED
  BY <1>2, <1>3, <1>4, <1>5, <1>8, <1>9 DEF Inv

-----------------------------------------------------------------------------
LEMMA StutterInv == Inv /\ UNCHANGED cacheVars => Inv'
  BY DEF Inv, cacheVars, CacheTypeOK, Working, OneAtATime, Cached, Published, Asking, Spawned

LEMMA NextInv == Inv /\ [CacheNext]_cacheVars => Inv'
<1> SUFFICES ASSUME Inv, [CacheNext]_cacheVars PROVE Inv'
  OBVIOUS
<1>1. ASSUME NEW i \in Initializers, CallerStep(i) PROVE Inv'
  BY <1>1, LockInv, InitializeInv, UnlockInv DEF CallerStep
<1>2. ASSUME NEW t \in Timers, TimerFires(t) PROVE Inv'
  BY <1>2, TimerFiresInv
<1>3. ASSUME NEW t \in Tasks, PollFuture(t) PROVE Inv'
  BY <1>3, PollFutureInv
<1>4. ASSUME NEW g \in Generations, WorkerStep(g) PROVE Inv'
  BY <1>4, GenerateInv, InstallInv, PublishInv DEF WorkerStep
<1>5. CASE UNCHANGED cacheVars
  BY <1>5, StutterInv
<1> QED
  BY <1>1, <1>2, <1>3, <1>4, <1>5 DEF CacheNext

LEMMA Invariance == CacheSpec => []Inv
  BY InitInv, NextInv, PTL DEF CacheSpec

\* The cache keeps its types (crypt.rs:102-113).
THEOREM CacheTypeCorrect == CacheSpec => []CacheTypeOK
<1>1. Inv => CacheTypeOK
  BY DEF Inv
<1> QED
  BY <1>1, Invariance, PTL

\* At most one certificate is generated at a time, and whoever was told of one
\* finds that one, or a later one, in the cache (crypt.rs:164-221).
THEOREM CertificateIsSound == CacheSpec => []CertificateSound
<1>1. Inv => OneAtATime
  BY DEF Inv, Working
<1>2. Inv => AnsweredIsInstalled
  BY DEF Inv, Cached, Published, Asking, AnsweredIsInstalled
<1> QED
  BY <1>1, <1>2, Invariance, PTL DEF CertificateSound

HIDE DEF threads, contexts, tasks
-----------------------------------------------------------------------------
(***************************************************************************)
(* The composition.  The transports of a peer take certificates and never  *)
(* touch the cache, so what is proved of the cache alone holds beside any  *)
(* peer.  Then where the lines are: on transports that exist, and the      *)
(* application channel on that of its line.                                *)
(***************************************************************************)
\* Every operation of the peer leaves the cache as it is.
LEMMA PeerLeavesCache == PeerNext => UNCHANGED cacheVars
<1> SUFFICES ASSUME PeerNext PROVE UNCHANGED cacheVars
  OBVIOUS
<1>1. ASSUME CreateMediaSender \/ CreateDataChannel \/ CreateLocalDescription \/ Reset \/ NegotiationNeeded
      PROVE  UNCHANGED cacheVars
  BY <1>1 DEF CreateMediaSender, CreateDataChannel, CreateLocalDescription, Reset, NegotiationNeeded
<1>2. ASSUME NEW offer \in BOOLEAN, SetRemoteDescription(offer) PROVE UNCHANGED cacheVars
  BY <1>2 DEF SetRemoteDescription
<1>3. ASSUME NEW id \in 1 .. MaxTransports, TransportConnects(id) \/ HandleTransportConnected(id)
      PROVE  UNCHANGED cacheVars
  BY <1>3 DEF TransportConnects, HandleTransportConnected
<1> QED
  BY <1>1, <1>2, <1>3 DEF PeerNext

\* A peer connection uses the certificate cache as CacheSpec says
\* (rtc.rs:850-866, transport/mod.rs:228, crypt.rs:152-162).
THEOREM PeerUsesCache == Spec => CacheSpec
<1>1. Init => CacheInit
  BY DEF Init
<1>2. [Next]_allVars => [CacheNext]_cacheVars
  BY PeerLeavesCache DEF Next, allVars
<1> QED
  BY <1>1, <1>2, PTL DEF Spec, CacheSpec

\* Beside a peer too, one certificate is generated at a time and whoever was
\* told of one finds that one, or a later one, in the cache (crypt.rs:164-221).
THEOREM CertificateStaysSound == Spec => []CertificateSound
  BY PeerUsesCache, CertificateIsSound, PTL
-----------------------------------------------------------------------------
(***************************************************************************)
(* Where the lines are.  Beside the placement itself the invariant says    *)
(* that indexes are unique and at most the number of lines that have one:  *)
(* a description speaks of the first so many lines, and without that it    *)
(* could find a line of another type at a new index.                       *)
(***************************************************************************)
MediaType == {"audio", "application"}
MediaLine == [media_type : MediaType, index : Nat, transport_id : Nat, sends : BOOLEAN]
Channel   == [transport : Nat, configured : BOOLEAN, state : {"none", "Disconnected", "Connecting"}]
Section   == [media_type : MediaType, credentials : Credentials]

Numbering(lines) == {i \in DOMAIN lines : lines[i].index # NoIndex}

Numbered(lines) ==
  /\ \A i, j \in Numbering(lines) : lines[i].index = lines[j].index => i = j
  /\ \A i \in Numbering(lines) : lines[i].index \in 1 .. Cardinality(Numbering(lines))

Stocked(transports, count) ==
  /\ count \in Nat /\ DOMAIN transports \subseteq 1 .. count
  /\ transports = [id \in DOMAIN transports |-> transports[id]]

Housed(lines, transports, channel) ==
  /\ \A i \in DOMAIN lines : lines[i].transport_id \in DOMAIN transports
  /\ \A i \in DOMAIN lines : lines[i].media_type = "application" =>
       channel # NoChannel /\ channel.transport = lines[i].transport_id
  /\ channel # NoChannel => \E i \in DOMAIN lines : lines[i].media_type = "application"

SignallingStates == {"None", "HaveLocalOffer", "HaveRemoteOffer", "Negotiated", "NegotiationRequired"}

PeerInv ==
  /\ signalling_state \in SignallingStates
  /\ media_lines \in Seq(MediaLine) /\ Numbered(media_lines)
  /\ Stocked(transport, made) /\ application_channel \in Channel
  /\ crashed = "no" => Housed(media_lines, transport, application_channel)

Before == {x \in Nat \X Nat : x[1] < x[2]}

LEMMA LeastMember ==
  ASSUME NEW T \in SUBSET Nat, T # {}
  PROVE  \E n \in T : \A m \in T : n <= m
<1>1. IsWellFoundedOn(Before, Nat)
  BY NatLessThanWellFounded DEF OpToRel, Before
<1>2. PICK n \in T : \A m \in T : ~ (<<m, n>> \in Before)
  BY <1>1, WFMin, Zenon
<1>3. ASSUME NEW m \in T PROVE n <= m
  <2>1. m \in Nat /\ n \in Nat
    OBVIOUS
  <2>2. <<m, n>> \in Nat \X Nat /\ <<m, n>>[1] = m /\ <<m, n>>[2] = n
    BY <2>1
  <2>3. ~ (m < n)
    BY <1>2, <2>2 DEF Before
  <2> QED BY <2>1, <2>3
<1> QED BY <1>2, <1>3

LEMMA MinIn ==
  ASSUME NEW T \in SUBSET Nat, T # {}
  PROVE  Min(T) \in T
<1>1. PICK n \in T : \A m \in T : n <= m
  BY LeastMember
<1> QED BY <1>1 DEF Min

\* What is known of a line, and of the sequences it is in.
LEMMA LineFields ==
  ASSUME NEW lines \in Seq(MediaLine)
  PROVE  /\ Len(lines) \in Nat /\ DOMAIN lines = 1 .. Len(lines)
         /\ \A i \in DOMAIN lines :
              /\ lines[i] \in MediaLine /\ lines[i].index \in Nat
              /\ lines[i].media_type \in MediaType /\ lines[i].transport_id \in Nat
         /\ IsFiniteSet(Numbering(lines)) /\ Cardinality(Numbering(lines)) \in Nat
         /\ Numbering(lines) \subseteq DOMAIN lines
<1>1. /\ Len(lines) \in Nat /\ DOMAIN lines = 1 .. Len(lines)
      /\ \A i \in DOMAIN lines : lines[i] \in MediaLine
  OBVIOUS
<1>2. \A i \in DOMAIN lines :
        /\ lines[i].index \in Nat
        /\ lines[i].media_type \in MediaType /\ lines[i].transport_id \in Nat
  BY <1>1 DEF MediaLine
<1>3. Numbering(lines) \in SUBSET (1 .. Len(lines)) /\ IsFiniteSet(1 .. Len(lines))
  BY <1>1, FS_Interval DEF Numbering
<1>4. IsFiniteSet(Numbering(lines))
  BY <1>3, FS_Subset
<1>5. Cardinality(Numbering(lines)) \in Nat
  BY <1>4, FS_CardinalityType
<1> QED BY <1>1, <1>2, <1>3, <1>4, <1>5

\* A line more, without an index or with one that is free.
LEMMA NumberedOn ==
  ASSUME NEW lines \in Seq(MediaLine), Numbered(lines), NEW ends, NEW i, NEW n \in Nat,
         i \notin Numbering(lines), n # NoIndex, n <= Cardinality(Numbering(lines)) + 1,
         Numbering(ends) = Numbering(lines) \cup {i}, ends[i].index = n,
         \A j \in Numbering(lines) : lines[j].index # n /\ ends[j].index = lines[j].index
  PROVE  Numbered(ends) /\ Cardinality(Numbering(ends)) = Cardinality(Numbering(lines)) + 1
<1> DEFINE c == Cardinality(Numbering(lines))
<1>1. IsFiniteSet(Numbering(lines)) /\ c \in Nat
  BY LineFields
<1>2. Cardinality(Numbering(ends)) = c + 1
  BY <1>1, FS_AddElement
<1>3. \A j \in Numbering(lines) : lines[j].index \in 1 .. c
  BY DEF Numbered
<1> HIDE DEF c
<1>4. \A j \in Numbering(ends) : ends[j].index \in 1 .. c + 1
  BY <1>1, <1>3 DEF c, NoIndex
<1>5. ASSUME NEW j \in Numbering(ends), NEW k \in Numbering(ends), ends[j].index = ends[k].index
      PROVE  j = k
  BY <1>5 DEF Numbered
<1> QED BY <1>2, <1>4, <1>5 DEF c, Numbered

LEMMA NumberedSame ==
  ASSUME NEW lines, Numbered(lines), NEW ends, Numbering(ends) = Numbering(lines),
         \A j \in Numbering(lines) : ends[j].index = lines[j].index
  PROVE  Numbered(ends)
BY DEF Numbered

LEMMA AppendedLine ==
  ASSUME NEW lines \in Seq(MediaLine), NEW line \in MediaLine
  PROVE  LET ends == Append(lines, line)
         IN  /\ ends \in Seq(MediaLine) /\ Len(lines) + 1 \notin DOMAIN lines
             /\ DOMAIN ends = DOMAIN lines \cup {Len(lines) + 1} /\ ends[Len(lines) + 1] = line
             /\ \A i \in DOMAIN lines : ends[i] = lines[i]
OBVIOUS

\* A new line without an index leaves those of the others as they are.
LEMMA WaitingNumbered ==
  ASSUME NEW lines \in Seq(MediaLine), Numbered(lines), NEW line \in MediaLine, line.index = NoIndex
  PROVE  Numbered(Append(lines, line))
<1> DEFINE ends == Append(lines, line)
<1>1. /\ DOMAIN ends = DOMAIN lines \cup {Len(lines) + 1} /\ ends[Len(lines) + 1] = line
      /\ \A i \in DOMAIN lines : ends[i] = lines[i]
  BY AppendedLine
<1> HIDE DEF ends
<1>2. Numbering(ends) = Numbering(lines) /\ \A j \in Numbering(lines) : ends[j].index = lines[j].index
  BY <1>1 DEF Numbering
<1>3. Numbered(ends)
  BY <1>2, NumberedSame
<1> QED BY <1>3 DEF ends
-----------------------------------------------------------------------------
(* The indexes an offer gives to the lines that have none.                 *)

LEMMA AllNumbered ==
  ASSUME NEW lines \in Seq(MediaLine), Numbered(lines), NEW ends \in Seq(MediaLine),
         DOMAIN ends = DOMAIN lines,
         \A i \in DOMAIN lines :
           ends[i].index = IF lines[i].index # NoIndex THEN lines[i].index
                           ELSE Cardinality(Numbering(lines))
                                + Cardinality({j \in 1 .. i : lines[j].index = NoIndex})
  PROVE  Numbered(ends)
<1> DEFINE c == Cardinality(Numbering(lines))
           waiting == DOMAIN lines \ Numbering(lines)
           upto(i) == {j \in 1 .. i : lines[j].index = NoIndex}
<1>1. /\ Len(lines) \in Nat /\ DOMAIN lines = 1 .. Len(lines)
      /\ IsFiniteSet(Numbering(lines)) /\ c \in Nat /\ Numbering(lines) \subseteq DOMAIN lines
  BY LineFields
<1>2. IsFiniteSet(DOMAIN lines) /\ Cardinality(DOMAIN lines) = Len(lines)
  <2> DEFINE n == Len(lines)
  <2>1. n \in Nat /\ 1 \in Int /\ n \in Int /\ DOMAIN lines = 1 .. n
    BY <1>1
  <2> HIDE DEF n
  <2>2. IsFiniteSet(1 .. n) /\ Cardinality(1 .. n) = IF 1 > n THEN 0 ELSE n - 1 + 1
    BY <2>1, FS_Interval
  <2>3. Cardinality(1 .. n) = n
    BY <2>1, <2>2
  <2> QED BY <2>1, <2>2, <2>3 DEF n
<1>3. IsFiniteSet(waiting) /\ Cardinality(waiting) = Len(lines) - c
  <2>1. DOMAIN lines \cap Numbering(lines) = Numbering(lines)
    BY <1>1
  <2>2. /\ IsFiniteSet(DOMAIN lines \ Numbering(lines))
        /\ Cardinality(DOMAIN lines \ Numbering(lines)) =
             Cardinality(DOMAIN lines) - Cardinality(DOMAIN lines \cap Numbering(lines))
    BY <1>2, FS_Difference
  <2> QED BY <1>2, <2>1, <2>2
<1>4. ASSUME NEW i \in waiting
      PROVE  /\ upto(i) \subseteq waiting /\ IsFiniteSet(upto(i)) /\ i \in upto(i)
             /\ Cardinality(upto(i)) \in 1 .. Len(lines) - c
  <2>1. upto(i) \in SUBSET waiting /\ i \in upto(i)
    BY <1>1 DEF Numbering
  <2> HIDE DEF upto, waiting
  <2>2. IsFiniteSet(upto(i)) /\ Cardinality(upto(i)) <= Len(lines) - c
    BY <1>3, <2>1, FS_Subset
  <2>3. Cardinality(upto(i)) \in Nat /\ Cardinality(upto(i)) # 0
    BY <2>1, <2>2, FS_CardinalityType, FS_EmptySet
  <2>4. Cardinality(upto(i)) \in 1 .. Len(lines) - c
    BY <1>1, <2>2, <2>3
  <2> QED BY <2>1, <2>2, <2>4
<1>5. ASSUME NEW i \in waiting, NEW j \in waiting, i < j
      PROVE  Cardinality(upto(i)) < Cardinality(upto(j))
  <2>1. upto(i) \in SUBSET upto(j) /\ j \notin upto(i)
    BY <1>1, <1>5
  <2>2. /\ j \in upto(j) /\ IsFiniteSet(upto(j)) /\ IsFiniteSet(upto(i))
        /\ Cardinality(upto(i)) \in Nat /\ Cardinality(upto(j)) \in Nat
    <3>1. /\ j \in upto(j) /\ IsFiniteSet(upto(j)) /\ IsFiniteSet(upto(i))
      BY <1>4
    <3> HIDE DEF upto
    <3> QED BY <3>1, FS_CardinalityType
  <2> HIDE DEF upto, waiting
  <2>3. Cardinality(upto(i)) <= Cardinality(upto(j)) /\ Cardinality(upto(i)) # Cardinality(upto(j))
    BY <2>1, <2>2, FS_Subset
  <2> QED BY <2>2, <2>3
<1>6. \A i \in Numbering(lines) : ends[i].index = lines[i].index /\ lines[i].index \in 1 .. c
  BY <1>1 DEF Numbered, Numbering
<1>7. \A i \in waiting : ends[i].index = c + Cardinality(upto(i))
  BY DEF Numbering
<1>8. DOMAIN ends = waiting \cup Numbering(lines)
  BY <1>1
<1> HIDE DEF c, waiting, upto
<1>9. \A i \in DOMAIN ends : ends[i].index \in 1 .. Len(lines)
  <2>1. c <= Len(lines)
    BY <1>1, <1>2, FS_Subset DEF c
  <2>2. ASSUME NEW i \in waiting PROVE ends[i].index \in 1 .. Len(lines)
    BY <1>1, <1>4, <1>7, <2>1
  <2>3. ASSUME NEW i \in Numbering(lines) PROVE ends[i].index \in 1 .. Len(lines)
    BY <1>1, <1>6, <2>1
  <2> QED BY <1>8, <2>2, <2>3
<1>10. Numbering(ends) = DOMAIN lines
  <2>1. \A i \in DOMAIN ends : ends[i].index # NoIndex
    BY <1>1, <1>9 DEF NoIndex
  <2> QED BY <2>1 DEF Numbering
<1>11. ASSUME NEW i \in DOMAIN ends, NEW j \in DOMAIN ends, ends[i].index = ends[j].index
       PROVE  i = j
  <2>1. CASE i \in waiting /\ j \in waiting
    <3>1. Cardinality(upto(i)) = Cardinality(upto(j))
      BY <1>1, <1>4, <1>7, <1>11, <2>1
    <3>2. ~ (i < j) /\ ~ (j < i)
      BY <1>1, <1>4, <1>5, <2>1, <3>1
    <3> QED BY <1>1, <3>2
  <2>2. CASE i \in waiting /\ j \in Numbering(lines)
    BY <1>1, <1>4, <1>6, <1>7, <1>11, <2>2
  <2>3. CASE j \in waiting /\ i \in Numbering(lines)
    BY <1>1, <1>4, <1>6, <1>7, <1>11, <2>3
  <2>4. CASE i \in Numbering(lines) /\ j \in Numbering(lines)
    BY <1>6, <1>11, <2>4 DEF Numbered
  <2> QED BY <1>8, <2>1, <2>2, <2>3, <2>4
<1> QED BY <1>2, <1>9, <1>10, <1>11 DEF Numbered
-----------------------------------------------------------------------------
(***************************************************************************)
(* A description, section by section.  A line of the application with an   *)
(* index stands in the one section of that type, so a section of that type *)
(* for which there is no line comes before there is an application channel.*)
(***************************************************************************)
Sections(d) ==
  /\ d \in Seq(Section)
  /\ \A j, k \in DOMAIN d : d[j].media_type = "application" /\ d[k].media_type = "application" => j = k

Follows(s, d, n) ==
  /\ s = [lines |-> s.lines, transports |-> s.transports, made |-> s.made,
          channel |-> s.channel, failed |-> s.failed]
  /\ s.failed \in BOOLEAN
  /\ s.lines \in Seq(MediaLine) /\ Numbered(s.lines)
  /\ Stocked(s.transports, s.made) /\ s.channel \in Channel
  /\ Housed(s.lines, s.transports, s.channel)
  /\ \A i \in Numbering(s.lines) :
       s.lines[i].index \in DOMAIN d /\ d[s.lines[i].index].media_type = s.lines[i].media_type
  /\ s.failed \/ n <= Cardinality(Numbering(s.lines))

\* The line that a section finds has its index, or none, and its type.
LEMMA LineFound ==
  ASSUME NEW s, NEW d, NEW n \in DOMAIN d, Sections(d), Follows(s, d, n - 1)
  PROVE  LET i == LineFor(s.lines, n, d[n])
         IN  /\ i # 0 => /\ i \in DOMAIN s.lines /\ s.lines[i].media_type = d[n].media_type
                         /\ \/ s.lines[i].index = n
                            \/ /\ s.lines[i].index = NoIndex
                               /\ \A j \in DOMAIN s.lines : s.lines[j].index # n
             /\ i = 0 => /\ \A j \in DOMAIN s.lines : s.lines[j].index # n
                         /\ d[n].media_type = "application" =>
                              \A j \in DOMAIN s.lines : s.lines[j].media_type # "application"
<1> DEFINE lines == s.lines
           at == {i \in DOMAIN lines : lines[i].index = n}
           waiting == {i \in DOMAIN lines : lines[i].index = NoIndex /\ lines[i].media_type = d[n].media_type}
           i == LineFor(lines, n, d[n])
<1>1. lines \in Seq(MediaLine) /\ DOMAIN lines = 1 .. Len(lines) /\ Len(lines) \in Nat
      /\ n \in Nat /\ n # NoIndex
  BY LineFields DEF Follows, Sections, NoIndex
<1>2. at \in SUBSET Nat /\ waiting \in SUBSET Nat
  BY <1>1
<1>3. i = IF at # {} THEN Min(at) ELSE IF waiting # {} THEN Min(waiting) ELSE 0
  BY DEF LineFor
<1>4. /\ at # {} => Min(at) \in at
      /\ waiting # {} => Min(waiting) \in waiting
  BY <1>2, MinIn
<1>5. \A j \in at : lines[j].media_type = d[n].media_type
  BY <1>1 DEF Follows, Numbering
<1>6. ASSUME NEW j \in DOMAIN lines, lines[j].media_type = "application",
             d[n].media_type = "application"
      PROVE  j \in at \/ j \in waiting
  <2>1. CASE lines[j].index = NoIndex
    BY <1>6, <2>1
  <2>2. CASE lines[j].index # NoIndex
    BY <1>6, <2>2 DEF Follows, Sections, Numbering
  <2> QED BY <2>1, <2>2
<1>7. \A j \in DOMAIN lines : j \in at <=> lines[j].index = n
  OBVIOUS
<1>8. \A j \in waiting : lines[j].media_type = d[n].media_type /\ lines[j].index = NoIndex /\ j \in DOMAIN lines
  OBVIOUS
<1>9. 0 \notin DOMAIN lines /\ at \subseteq DOMAIN lines
  BY <1>1
<1> HIDE DEF at, waiting, i, lines
<1>10. i # 0 => \/ i \in at
                \/ i \in waiting /\ at = {}
  BY <1>3, <1>4
<1>11. i = 0 => at = {} /\ waiting = {}
  BY <1>3, <1>4, <1>8, <1>9
<1>12. i # 0 => /\ i \in DOMAIN lines /\ lines[i].media_type = d[n].media_type
                /\ \/ lines[i].index = n
                   \/ /\ lines[i].index = NoIndex
                      /\ \A j \in DOMAIN lines : lines[j].index # n
  BY <1>5, <1>7, <1>8, <1>9, <1>10
<1>13. i = 0 => /\ \A j \in DOMAIN lines : lines[j].index # n
                /\ d[n].media_type = "application" =>
                     \A j \in DOMAIN lines : lines[j].media_type # "application"
  BY <1>6, <1>7, <1>11
<1> QED BY <1>12, <1>13 DEF i, lines

\* The transport a new line gets is one of those there are, or the next one.
LEMMA SharedThere ==
  ASSUME NEW transports, NEW count, Stocked(transports, count), NEW media,
         SharedTransport(transports, media) # 0
  PROVE  SharedTransport(transports, media) \in DOMAIN transports
<1> DEFINE same == {k \in DOMAIN transports : transports[k].credentials = media.credentials}
           open == {k \in DOMAIN transports : transports[k].credentials = Unknown}
<1>1. same \in SUBSET Nat /\ open \in SUBSET Nat
  BY DEF Stocked
<1>2. /\ same # {} => Min(same) \in same
      /\ open # {} => Min(open) \in open
  BY <1>1, MinIn
<1>3. SharedTransport(transports, media) =
        IF same # {} THEN Min(same) ELSE IF open # {} THEN Min(open) ELSE 0
  BY DEF SharedTransport
<1>4. same \subseteq DOMAIN transports /\ open \subseteq DOMAIN transports
  OBVIOUS
<1> HIDE DEF same, open
<1> QED BY <1>2, <1>3, <1>4

LEMMA LearntStocked ==
  ASSUME NEW transports, NEW count, Stocked(transports, count), NEW id, NEW media
  PROVE  Stocked(Learn(transports, id, media), count)
         /\ DOMAIN Learn(transports, id, media) = DOMAIN transports
BY DEF Learn, Stocked

LEMMA WithStocked ==
  ASSUME NEW transports, NEW count, Stocked(transports, count), NEW t
  PROVE  /\ Stocked(With(transports, count + 1, t), count + 1)
         /\ DOMAIN With(transports, count + 1, t) = DOMAIN transports \cup {count + 1}
         /\ count + 1 \notin DOMAIN transports
BY DEF With, Stocked

LEMMA ConfiguredChannel ==
  ASSUME NEW channel \in Channel, NEW id \in Nat, NEW media,
         channel # NoChannel => (media.media_type = "application" => channel.transport = id)
  PROVE  LET next == Configured(channel, id, media)
         IN  /\ next \in Channel
             /\ media.media_type # "application" => next = channel
             /\ media.media_type = "application" => next # NoChannel /\ next.transport = id
<1> DEFINE next == Configured(channel, id, media)
           Is == /\ next \in Channel
                 /\ media.media_type # "application" => next = channel
                 /\ media.media_type = "application" => next # NoChannel /\ next.transport = id
<1>1. ASSUME media.media_type # "application" PROVE Is
  <2>1. next = channel
    BY <1>1 DEF Configured
  <2> HIDE DEF next
  <2> QED BY <1>1, <2>1
<1>2. ASSUME media.media_type = "application", channel = NoChannel PROVE Is
  <2>1. next = [transport |-> id, configured |-> TRUE, state |-> "Disconnected"]
    BY <1>2 DEF Configured, ChannelOn
  <2> HIDE DEF next
  <2> QED BY <1>2, <2>1 DEF NoChannel, Channel
<1>3. ASSUME media.media_type = "application", channel # NoChannel PROVE Is
  <2>1. next = [channel EXCEPT !.configured = TRUE]
    BY <1>3 DEF Configured
  <2> HIDE DEF next
  <2> QED BY <1>3, <2>1 DEF NoChannel, Channel
<1>4. Is
  BY <1>1, <1>2, <1>3
<1> QED BY <1>4

\* A section that gives its index to a line that is there.
LEMMA SectionUpdates ==
  ASSUME NEW s, NEW d, NEW n \in DOMAIN d, Sections(d), Follows(s, d, n - 1), ~s.failed,
         LineFor(s.lines, n, d[n]) # 0
  PROVE  Follows(ApplyMedia(s, n, d[n]), d, n)
<1> DEFINE i == LineFor(s.lines, n, d[n])
           id == s.lines[i].transport_id
           media == d[n]
           lines == [s.lines EXCEPT ![i].index = n]
           transports == Learn(s.transports, id, media)
           channel == Configured(s.channel, id, media)
           end == ApplyMedia(s, n, media)
<1>1. /\ i \in DOMAIN s.lines /\ s.lines[i].media_type = media.media_type
      /\ \/ s.lines[i].index = n
         \/ s.lines[i].index = NoIndex /\ \A j \in DOMAIN s.lines : s.lines[j].index # n
  BY LineFound
<1>2. /\ s.lines \in Seq(MediaLine) /\ Numbered(s.lines) /\ Stocked(s.transports, s.made)
      /\ s.channel \in Channel /\ Housed(s.lines, s.transports, s.channel)
      /\ \A j \in Numbering(s.lines) :
           s.lines[j].index \in DOMAIN d /\ d[s.lines[j].index].media_type = s.lines[j].media_type
      /\ n - 1 <= Cardinality(Numbering(s.lines)) /\ n \in Nat /\ n # NoIndex
  BY DEF Follows, Sections, NoIndex
<1>3. id \in DOMAIN s.transports /\ id \in Nat
  BY <1>1, <1>2, LineFields DEF Housed
<1>4. end = [lines |-> lines, transports |-> transports, made |-> s.made, channel |-> channel, failed |-> FALSE]
  BY <1>3 DEF ApplyMedia
<1>5. /\ lines \in Seq(MediaLine) /\ DOMAIN lines = DOMAIN s.lines
      /\ lines[i].index = n
      /\ \A j \in DOMAIN s.lines :
           /\ j # i => lines[j] = s.lines[j]
           /\ lines[j].media_type = s.lines[j].media_type
           /\ lines[j].transport_id = s.lines[j].transport_id
  <2>1. /\ Len(s.lines) \in Nat /\ DOMAIN s.lines = 1 .. Len(s.lines)
        /\ \A j \in DOMAIN s.lines : s.lines[j] \in MediaLine
    BY <1>2, LineFields
  <2>2. lines = [j \in DOMAIN s.lines |-> IF j = i THEN [s.lines[j] EXCEPT !.index = n] ELSE s.lines[j]]
    BY <1>1
  <2> HIDE DEF lines, i
  <2>3. \A j \in DOMAIN s.lines : lines[j] \in MediaLine
    BY <1>2, <2>1, <2>2 DEF MediaLine
  <2>4. lines \in Seq(MediaLine)
    BY <2>1, <2>2, <2>3
  <2> QED BY <1>1, <2>1, <2>2, <2>4 DEF MediaLine
<1>6. Stocked(transports, s.made) /\ DOMAIN transports = DOMAIN s.transports
  BY <1>2, LearntStocked
<1>7. /\ channel \in Channel
      /\ media.media_type # "application" => channel = s.channel
      /\ media.media_type = "application" => channel # NoChannel /\ channel.transport = id
  BY <1>1, <1>2, <1>3, ConfiguredChannel DEF Housed
<1>8. Numbered(lines) /\ n <= Cardinality(Numbering(lines))
  <2> HIDE DEF lines, i
  <2>1. CASE s.lines[i].index = n
    <3>1. Numbering(lines) = Numbering(s.lines) /\ i \in Numbering(s.lines)
          /\ \A j \in Numbering(s.lines) : lines[j].index = s.lines[j].index
      BY <1>1, <1>2, <1>5, <2>1 DEF Numbering
    <3>2. Numbered(lines)
      BY <1>2, <3>1, NumberedSame
    <3>3. n \in 1 .. Cardinality(Numbering(s.lines)) /\ Cardinality(Numbering(s.lines)) \in Nat
      BY <1>2, <2>1, <3>1, LineFields DEF Numbered
    <3> QED BY <3>1, <3>2, <3>3
  <2>2. CASE s.lines[i].index = NoIndex /\ \A j \in DOMAIN s.lines : s.lines[j].index # n
    <3>1. /\ Numbering(lines) = Numbering(s.lines) \cup {i} /\ i \notin Numbering(s.lines)
          /\ \A j \in Numbering(s.lines) : s.lines[j].index # n /\ lines[j].index = s.lines[j].index
      BY <1>1, <1>2, <1>5, <2>2 DEF Numbering
    <3>2. Cardinality(Numbering(s.lines)) \in Nat
      BY <1>2, LineFields
    <3>3. n <= Cardinality(Numbering(s.lines)) + 1
      BY <1>2, <3>2
    <3>4. Numbered(lines) /\ Cardinality(Numbering(lines)) = Cardinality(Numbering(s.lines)) + 1
      BY <1>2, <1>5, <3>1, <3>3, NumberedOn
    <3> QED BY <3>2, <3>3, <3>4
  <2> QED BY <1>1, <2>1, <2>2
<1> HIDE DEF lines, transports, channel, end
<1>9. Housed(lines, transports, channel)
  <2>1. \A j \in DOMAIN lines : lines[j].transport_id \in DOMAIN transports
    BY <1>2, <1>5, <1>6 DEF Housed
  <2>2. ASSUME NEW j \in DOMAIN lines, lines[j].media_type = "application"
        PROVE  channel # NoChannel /\ channel.transport = lines[j].transport_id
    <3>1. s.channel # NoChannel /\ s.channel.transport = lines[j].transport_id
      BY <1>2, <1>5, <2>2 DEF Housed
    <3>2. media.media_type = "application" => s.channel.transport = id
      BY <1>1, <1>2 DEF Housed
    <3> QED BY <1>7, <3>1, <3>2
  <2>3. channel # NoChannel => \E j \in DOMAIN lines : lines[j].media_type = "application"
    BY <1>1, <1>2, <1>5, <1>7 DEF Housed
  <2> QED BY <2>1, <2>2, <2>3 DEF Housed
<1>10. \A j \in Numbering(lines) :
         lines[j].index \in DOMAIN d /\ d[lines[j].index].media_type = lines[j].media_type
  BY <1>1, <1>2, <1>5 DEF Numbering
<1>11. Follows(end, d, n)
  <2>1. /\ end.lines = lines /\ end.transports = transports /\ end.made = s.made
        /\ end.channel = channel /\ end.failed = FALSE
    BY <1>4
  <2> QED BY <1>2, <1>4, <1>5, <1>6, <1>7, <1>8, <1>9, <1>10, <2>1 DEF Follows
<1> QED BY <1>11 DEF end

\* A section that makes a line.
LEMMA SectionAdds ==
  ASSUME NEW s, NEW d, NEW n \in DOMAIN d, Sections(d), Follows(s, d, n - 1), ~s.failed,
         LineFor(s.lines, n, d[n]) = 0
  PROVE  Follows(ApplyMedia(s, n, d[n]), d, n)
<1> DEFINE media == d[n]
           shared == SharedTransport(s.transports, media)
           id == IF shared # 0 THEN shared ELSE s.made + 1
           there == IF id \notin DOMAIN s.transports THEN With(s.transports, id, NewTransport) ELSE s.transports
           count == IF id \notin DOMAIN s.transports THEN s.made + 1 ELSE s.made
           line == NewLine(media.media_type, n, id, FALSE)
           lines == Append(s.lines, line)
           transports == Learn(there, id, media)
           channel == Configured(s.channel, id, media)
           end == ApplyMedia(s, n, media)
           x == Len(s.lines) + 1
<1>1. /\ \A j \in DOMAIN s.lines : s.lines[j].index # n
      /\ media.media_type = "application" =>
           \A j \in DOMAIN s.lines : s.lines[j].media_type # "application"
  BY LineFound
<1>2. /\ s.lines \in Seq(MediaLine) /\ Numbered(s.lines) /\ Stocked(s.transports, s.made)
      /\ s.channel \in Channel /\ Housed(s.lines, s.transports, s.channel)
      /\ \A j \in Numbering(s.lines) :
           s.lines[j].index \in DOMAIN d /\ d[s.lines[j].index].media_type = s.lines[j].media_type
      /\ n - 1 <= Cardinality(Numbering(s.lines)) /\ n \in Nat /\ n # NoIndex
      /\ media \in Section
  BY DEF Follows, Sections, NoIndex
<1>3. /\ Stocked(there, count) /\ DOMAIN there = DOMAIN s.transports \cup {id} /\ id \in Nat
  <2>1. CASE shared # 0
    <3>1. id = shared /\ id \in DOMAIN s.transports
      BY <1>2, <2>1, SharedThere
    <3>2. there = s.transports /\ count = s.made
      BY <3>1
    <3>3. id \in Nat
      BY <1>2, <3>1 DEF Stocked
    <3> HIDE DEF id, there, count
    <3> QED BY <1>2, <3>1, <3>2, <3>3
  <2>2. CASE shared = 0
    <3>1. id = s.made + 1 /\ id \notin DOMAIN s.transports /\ s.made \in Nat
      BY <1>2, <2>2 DEF Stocked
    <3>2. there = With(s.transports, s.made + 1, NewTransport) /\ count = s.made + 1
      BY <3>1
    <3>3. LET more == With(s.transports, s.made + 1, NewTransport)
          IN  Stocked(more, s.made + 1) /\ DOMAIN more = DOMAIN s.transports \cup {s.made + 1}
      BY <1>2, WithStocked
    <3> HIDE DEF id, there, count
    <3> QED BY <3>1, <3>2, <3>3
  <2> QED BY <2>1, <2>2
<1>4. \/ end = [s EXCEPT !.failed = TRUE]
      \/ end = [lines |-> lines, transports |-> transports, made |-> count,
                channel |-> channel, failed |-> FALSE]
  BY DEF ApplyMedia
<1>5. CASE end = [s EXCEPT !.failed = TRUE]
  <2>1. /\ end.lines = s.lines /\ end.transports = s.transports /\ end.made = s.made
        /\ end.channel = s.channel /\ end.failed = TRUE
        /\ end = [lines |-> s.lines, transports |-> s.transports, made |-> s.made,
                  channel |-> s.channel, failed |-> TRUE]
    BY <1>5 DEF Follows
  <2> HIDE DEF end
  <2>2. Follows(end, d, n)
    BY <1>2, <2>1 DEF Follows
  <2> QED BY <2>2 DEF end
<1> HIDE DEF id, there, count, shared
<1>6. line \in MediaLine /\ line.index = n /\ line.media_type = media.media_type /\ line.transport_id = id
  BY <1>2, <1>3 DEF NewLine, MediaLine, Section
<1> HIDE DEF line
<1>7. /\ lines \in Seq(MediaLine) /\ x \notin DOMAIN s.lines
      /\ DOMAIN lines = DOMAIN s.lines \cup {x} /\ lines[x] = line
      /\ \A j \in DOMAIN s.lines : lines[j] = s.lines[j]
  BY <1>2, <1>6, AppendedLine
<1>8. Stocked(transports, count) /\ DOMAIN transports = DOMAIN s.transports \cup {id}
  BY <1>3, LearntStocked
<1>9. s.channel # NoChannel => media.media_type # "application"
  BY <1>1, <1>2 DEF Housed
<1>10. /\ channel \in Channel
       /\ media.media_type # "application" => channel = s.channel
       /\ media.media_type = "application" => channel # NoChannel /\ channel.transport = id
  BY <1>2, <1>3, <1>9, ConfiguredChannel
<1> HIDE DEF lines, transports, channel, x
<1>11. Numbered(lines) /\ n <= Cardinality(Numbering(lines))
  <2>1. /\ Numbering(lines) = Numbering(s.lines) \cup {x} /\ x \notin Numbering(s.lines)
        /\ \A j \in Numbering(s.lines) : s.lines[j].index # n /\ lines[j].index = s.lines[j].index
        /\ lines[x].index = n
    BY <1>1, <1>2, <1>6, <1>7 DEF Numbering
  <2>2. Cardinality(Numbering(s.lines)) \in Nat
    BY <1>2, LineFields
  <2>3. n <= Cardinality(Numbering(s.lines)) + 1
    BY <1>2, <2>2
  <2>4. Numbered(lines) /\ Cardinality(Numbering(lines)) = Cardinality(Numbering(s.lines)) + 1
    BY <1>2, <2>1, <2>3, NumberedOn
  <2> QED BY <2>2, <2>3, <2>4
<1>12. Housed(lines, transports, channel)
  <2>1. \A j \in DOMAIN lines : lines[j].transport_id \in DOMAIN transports
    BY <1>2, <1>6, <1>7, <1>8 DEF Housed
  <2>2. ASSUME NEW j \in DOMAIN lines, lines[j].media_type = "application"
        PROVE  channel # NoChannel /\ channel.transport = lines[j].transport_id
    <3>1. CASE j = x
      BY <1>6, <1>7, <1>10, <2>2, <3>1
    <3>2. CASE j # x
      <4>1. j \in DOMAIN s.lines /\ lines[j] = s.lines[j]
        BY <1>7, <3>2
      <4>2. media.media_type # "application"
        BY <1>1, <2>2, <4>1
      <4> QED BY <1>2, <1>10, <2>2, <4>1, <4>2 DEF Housed
    <3> QED BY <3>1, <3>2
  <2>3. channel # NoChannel => \E j \in DOMAIN lines : lines[j].media_type = "application"
    <3>1. CASE media.media_type = "application"
      BY <1>6, <1>7, <3>1
    <3>2. CASE media.media_type # "application"
      BY <1>2, <1>7, <1>10, <3>2 DEF Housed
    <3> QED BY <3>1, <3>2
  <2> QED BY <2>1, <2>2, <2>3 DEF Housed
<1>13. \A j \in Numbering(lines) :
         lines[j].index \in DOMAIN d /\ d[lines[j].index].media_type = lines[j].media_type
  BY <1>2, <1>6, <1>7 DEF Numbering
<1>14. CASE end = [lines |-> lines, transports |-> transports, made |-> count,
                   channel |-> channel, failed |-> FALSE]
  <2>1. /\ end.lines = lines /\ end.transports = transports /\ end.made = count
        /\ end.channel = channel /\ end.failed = FALSE
    BY <1>14
  <2> HIDE DEF end
  <2>2. Follows(end, d, n)
    BY <1>7, <1>8, <1>10, <1>11, <1>12, <1>13, <1>14, <2>1 DEF Follows
  <2> QED BY <2>2 DEF end
<1> QED BY <1>4, <1>5, <1>14 DEF lines, transports, channel, count, there, id, shared, line

LEMMA SectionFollows ==
  ASSUME NEW s, NEW d, NEW n \in DOMAIN d, Sections(d), Follows(s, d, n - 1)
  PROVE  Follows(ApplyMedia(s, n, d[n]), d, n)
<1>1. CASE s.failed
  <2> DEFINE end == ApplyMedia(s, n, d[n])
  <2>1. end = [s EXCEPT !.failed = TRUE]
    BY <1>1 DEF ApplyMedia
  <2>2. /\ end.lines = s.lines /\ end.transports = s.transports /\ end.made = s.made
        /\ end.channel = s.channel /\ end.failed = TRUE
        /\ end = [lines |-> s.lines, transports |-> s.transports, made |-> s.made,
                  channel |-> s.channel, failed |-> TRUE]
    BY <2>1 DEF Follows
  <2> HIDE DEF end
  <2>3. Follows(end, d, n)
    BY <2>2 DEF Follows
  <2> QED BY <2>3 DEF end
<1>2. CASE ~s.failed
  BY <1>2, SectionUpdates, SectionAdds
<1> QED BY <1>1, <1>2

Start == [lines |-> media_lines, transports |-> transport, made |-> made,
          channel |-> application_channel, failed |-> FALSE]

Applying(f, d, n) ==
  f = [k \in 0 .. n |-> IF k = 0 THEN Start ELSE ApplyMedia(f[k - 1], k, d[k])]

LEMMA ApplyExists ==
  ASSUME NEW d, NEW n \in Nat
  PROVE  \E f : Applying(f, d, n)
<1> DEFINE T == {m \in Nat : ~ \E f : Applying(f, d, m)}
<1>1. T = {}
  <2> SUFFICES ASSUME T # {} PROVE FALSE
    OBVIOUS
  <2>1. PICK m \in T : \A j \in T : m <= j
    <3>1. T \in SUBSET Nat
      OBVIOUS
    <3> HIDE DEF T
    <3> QED BY <3>1, LeastMember
  <2>2. m # 0
    <3> DEFINE f == [k \in 0 .. 0 |-> Start]
    <3>1. f = [k \in 0 .. 0 |-> IF k = 0 THEN Start ELSE ApplyMedia(f[k - 1], k, d[k])]
      OBVIOUS
    <3> HIDE DEF f
    <3>2. Applying(f, d, 0)
      BY <3>1 DEF Applying
    <3> QED BY <3>2
  <2>3. m \in Nat /\ m - 1 \in Nat /\ m - 1 \notin T
    BY <2>1, <2>2
  <2>4. PICK f : Applying(f, d, m - 1)
    BY <2>3
  <2> DEFINE last == ApplyMedia(f[m - 1], m, d[m])
             g == [k \in 0 .. m |-> IF k = m THEN last ELSE f[k]]
  <2>5. ASSUME NEW k \in 0 .. m
        PROVE  g[k] = IF k = 0 THEN Start ELSE ApplyMedia(g[k - 1], k, d[k])
    <3>1. CASE k = 0
      <4>1. 0 \in 0 .. m - 1 /\ g[k] = f[0]
        BY <2>2, <2>3, <3>1
      <4> QED BY <2>4, <3>1, <4>1 DEF Applying
    <3>2. CASE k # 0
      <4>1. g[k - 1] = f[k - 1] /\ k - 1 \in 0 .. m - 1
        BY <2>3, <3>2
      <4>2. CASE k = m
        BY <3>2, <4>1, <4>2
      <4>3. CASE k # m
        <5>1. k \in 0 .. m - 1 /\ g[k] = f[k]
          BY <2>3, <4>3
        <5> QED BY <2>4, <3>2, <4>1, <5>1 DEF Applying
      <4> QED BY <4>2, <4>3
    <3> QED BY <3>1, <3>2
  <2>6. g = [k \in 0 .. m |-> g[k]]
    OBVIOUS
  <2> HIDE DEF g
  <2>7. g = [k \in 0 .. m |-> IF k = 0 THEN Start ELSE ApplyMedia(g[k - 1], k, d[k])]
    BY <2>5, <2>6
  <2>8. Applying(g, d, m)
    BY <2>7 DEF Applying
  <2> QED BY <2>3, <2>8
<1>2. n \notin T
  BY <1>1
<1> QED BY <1>2

\* What a whole description leaves behind, whether it failed or not.
LEMMA DescriptionFollows ==
  ASSUME NEW d, Sections(d), Follows(Start, d, 0)
  PROVE  Follows(Applied(d), d, Len(d))
<1> DEFINE n == Len(d)
           f == CHOOSE f : Applying(f, d, n)
<1>1. n \in Nat /\ DOMAIN d = 1 .. n
  BY DEF Sections
<1>2. \E g : Applying(g, d, n)
  BY <1>1, ApplyExists, Zenon
<1>3. Applying(f, d, n)
  BY <1>2, Zenon
<1>4. Applied(d) = f[n]
  BY DEF Applied, Applying, Start
<1> HIDE DEF f
<1>5. f[0] = Start /\ \A k \in 1 .. n : f[k] = ApplyMedia(f[k - 1], k, d[k])
  <2>1. 0 \in 0 .. n /\ \A k \in 1 .. n : k \in 0 .. n /\ k # 0
    BY <1>1
  <2> QED BY <1>3, <2>1 DEF Applying
<1> HIDE DEF n
<1> DEFINE T == {k \in Nat : k <= n /\ ~ Follows(f[k], d, k)}
<1>6. T = {}
  <2> SUFFICES ASSUME T # {} PROVE FALSE
    OBVIOUS
  <2>1. PICK k \in T : \A j \in T : k <= j
    <3>1. T \in SUBSET Nat
      OBVIOUS
    <3> HIDE DEF T
    <3> QED BY <3>1, LeastMember
  <2>2. k # 0
    BY <1>5, <2>1
  <2>3. k \in DOMAIN d /\ k \in 1 .. n /\ k - 1 \in Nat /\ k - 1 \notin T /\ k - 1 <= n
    BY <1>1, <2>1, <2>2
  <2>4. Follows(f[k - 1], d, k - 1)
    BY <2>3
  <2>5. Follows(ApplyMedia(f[k - 1], k, d[k]), d, k)
    BY <2>3, <2>4, SectionFollows
  <2> QED BY <1>5, <2>1, <2>3, <2>5
<1>7. n \notin T
  BY <1>6
<1> QED BY <1>1, <1>4, <1>7 DEF n

\* A description names the lines that have an index as they are.
LEMMA DescriptionStarts ==
  ASSUME PeerInv, Available, NEW offer, NEW d \in Descriptions(offer)
  PROVE  Sections(d) /\ Follows(Start, d, 0)
<1> DEFINE known == Cardinality(Numbering(media_lines))
           Media == [media_type : {"audio", "application"}, credentials : Credentials]
           lengths == known .. (IF offer /\ known < MaxLines THEN known + 1 ELSE known)
           apps == {k \in DOMAIN d : d[k].media_type = "application"}
<1>1. /\ media_lines \in Seq(MediaLine) /\ Numbered(media_lines) /\ Stocked(transport, made)
      /\ application_channel \in Channel /\ Housed(media_lines, transport, application_channel)
  BY DEF PeerInv, Available
<1>2. known \in Nat
  BY <1>1, LineFields
<1>3. /\ d \in UNION {[1 .. n -> Media] : n \in lengths}
      /\ \A n \in 1 .. known :
           d[n].media_type =
             media_lines[CHOOSE i \in Numbering(media_lines) : media_lines[i].index = n].media_type
      /\ Cardinality(apps) <= 1
  BY DEF Descriptions, Indexed, Numbering
<1> HIDE DEF Media, known
<1>4. PICK n \in lengths : d \in [1 .. n -> Media]
  BY <1>3
<1>5. n \in Nat /\ known <= n
  BY <1>2, <1>4
<1>6. d \in Seq(Section) /\ DOMAIN d = 1 .. n
  <2>1. d \in [1 .. n -> Section]
    BY <1>4 DEF Media, Section, MediaType
  <2> QED BY <1>5, <2>1
<1>7. ASSUME NEW j \in apps, NEW k \in apps PROVE j = k
  <2>1. IsFiniteSet(1 .. n) /\ apps \in SUBSET (1 .. n)
    BY <1>5, <1>6, FS_Interval
  <2> HIDE DEF apps
  <2>2. IsFiniteSet(apps) /\ Cardinality(apps) \in Nat
    BY <2>1, FS_Subset, FS_CardinalityType
  <2>3. IsFiniteSet(apps \ {j}) /\ Cardinality(apps \ {j}) = Cardinality(apps) - 1
    BY <1>7, <2>2, FS_RemoveElement
  <2>4. Cardinality(apps \ {j}) \in Nat
    BY <2>3, FS_CardinalityType
  <2>5. Cardinality(apps \ {j}) = 0
    BY <1>3, <2>2, <2>3, <2>4
  <2>6. apps \ {j} = {}
    BY <2>3, <2>5, FS_EmptySet
  <2> QED BY <1>7, <2>6
<1>8. Sections(d)
  BY <1>6, <1>7 DEF Sections
<1>9. ASSUME NEW i \in Numbering(media_lines)
      PROVE  /\ media_lines[i].index \in DOMAIN d
             /\ d[media_lines[i].index].media_type = media_lines[i].media_type
  <2>1. media_lines[i].index \in 1 .. known
    BY <1>1 DEF Numbered, known
  <2>2. (CHOOSE j \in Numbering(media_lines) : media_lines[j].index = media_lines[i].index) = i
    BY <1>1 DEF Numbered
  <2>3. d[media_lines[i].index].media_type = media_lines[i].media_type
    BY <1>3, <2>1, <2>2
  <2>4. media_lines[i].index \in DOMAIN d
    BY <1>2, <1>5, <1>6, <2>1
  <2> QED BY <2>3, <2>4
<1> DEFINE start == Start
<1>10. /\ start.lines = media_lines /\ start.transports = transport /\ start.made = made
       /\ start.channel = application_channel /\ start.failed = FALSE
       /\ start = [lines |-> media_lines, transports |-> transport, made |-> made,
                   channel |-> application_channel, failed |-> FALSE]
  BY DEF Start
<1> HIDE DEF start
<1>11. Follows(start, d, 0)
  BY <1>1, <1>2, <1>9, <1>10 DEF Follows, known
<1> QED BY <1>8, <1>11 DEF start

LEMMA DescribedStocked ==
  ASSUME NEW transports, NEW count, Stocked(transports, count)
  PROVE  Stocked(Described(transports), count) /\ DOMAIN Described(transports) = DOMAIN transports
BY DEF Described, Stocked

LEMMA SetRemoteDescriptionKeeps ==
  ASSUME PeerInv, NEW offer \in BOOLEAN, SetRemoteDescription(offer)
  PROVE  PeerInv'
<1>1. Available
  BY DEF SetRemoteDescription
<1>2. PICK d \in Descriptions(offer) :
        LET end == Applied(d)
        IN  /\ media_lines' = end.lines /\ made' = end.made
            /\ transport' = IF end.failed \/ offer THEN end.transports ELSE Described(end.transports)
            /\ application_channel' = end.channel
            /\ signalling_state' = IF end.failed THEN signalling_state
                                   ELSE IF offer THEN "HaveRemoteOffer" ELSE "Negotiated"
  BY DEF SetRemoteDescription
<1> DEFINE end == Applied(d)
<1>3. Follows(end, d, Len(d))
  BY <1>1, DescriptionStarts, DescriptionFollows
<1> HIDE DEF end
<1>4. /\ media_lines' = end.lines /\ made' = end.made /\ application_channel' = end.channel
      /\ transport' = end.transports \/ transport' = Described(end.transports)
      /\ signalling_state' \in {signalling_state, "HaveRemoteOffer", "Negotiated"}
  BY <1>2 DEF end
<1>5. /\ end.lines \in Seq(MediaLine) /\ Numbered(end.lines)
      /\ Stocked(end.transports, end.made) /\ end.channel \in Channel
      /\ Housed(end.lines, end.transports, end.channel)
  BY <1>3 DEF Follows
<1>6. Stocked(transport', made') /\ DOMAIN transport' = DOMAIN end.transports
  BY <1>4, <1>5, DescribedStocked
<1>7. Housed(media_lines', transport', application_channel')
  BY <1>4, <1>5, <1>6 DEF Housed
<1>8. signalling_state' \in SignallingStates
  BY <1>4 DEF PeerInv, SignallingStates
<1> QED BY <1>4, <1>5, <1>6, <1>7, <1>8 DEF PeerInv

\* A new line takes the first transport, which is there once it is made.
LEMMA FirstMade ==
  ASSUME Stocked(transport, made), MakeFirst
  PROVE  /\ Stocked(transport', made') /\ FirstTransport \in Nat
         /\ DOMAIN transport \subseteq DOMAIN transport'
         /\ crashed' = "no" => FirstTransport \in DOMAIN transport'
<1>1. CASE DOMAIN transport # {}
  <2>1. Min(DOMAIN transport) \in DOMAIN transport /\ DOMAIN transport \subseteq Nat
    <3>1. DOMAIN transport \in SUBSET Nat
      BY DEF Stocked
    <3> QED BY <1>1, <3>1, MinIn
  <2>2. FirstTransport = Min(DOMAIN transport)
    BY <1>1 DEF FirstTransport
  <2>3. UNCHANGED <<transport, made>>
    BY <1>1 DEF MakeFirst
  <2> QED BY <2>1, <2>2, <2>3
<1>2. CASE DOMAIN transport = {}
  <2>1. FirstTransport = made + 1 /\ made \in Nat
    BY <1>2 DEF FirstTransport, Stocked
  <2>2. CASE CanCreate
    <3>1. transport' = With(transport, made + 1, NewTransport) /\ made' = made + 1
      BY <1>2, <2>2 DEF MakeFirst
    <3>2. /\ Stocked(transport', made')
          /\ DOMAIN transport' = DOMAIN transport \cup {made + 1}
      BY <3>1, WithStocked
    <3> QED BY <2>1, <3>2
  <2>3. CASE ~CanCreate
    <3>1. crashed' # "no" /\ transport' = transport /\ made' = made
      BY <1>2, <2>3 DEF MakeFirst
    <3>2. FirstTransport \in Nat
      BY <2>1
    <3> QED BY <3>1, <3>2
  <2> QED BY <2>2, <2>3
<1> QED BY <1>1, <1>2

LEMMA CreateMediaSenderKeeps ==
  ASSUME PeerInv, CreateMediaSender
  PROVE  PeerInv'
<1>1. /\ media_lines \in Seq(MediaLine) /\ Numbered(media_lines) /\ Stocked(transport, made)
      /\ application_channel \in Channel /\ Housed(media_lines, transport, application_channel)
      /\ UNCHANGED <<signalling_state, application_channel>>
  BY DEF PeerInv, CreateMediaSender, Available
<1>2. CASE FreeLine("audio")
  <2> DEFINE Idle(i) == media_lines[i].media_type = "audio" /\ ~media_lines[i].sends
             i == CHOOSE i \in DOMAIN media_lines : Idle(i)
  <2>1. i \in DOMAIN media_lines
    BY <1>2 DEF FreeLine
  <2>2. media_lines' = [media_lines EXCEPT ![i].sends = TRUE] /\ UNCHANGED <<transport, made, crashed>>
    BY <1>2 DEF CreateMediaSender
  <2> HIDE DEF i
  <2>3. /\ media_lines' \in Seq(MediaLine) /\ DOMAIN media_lines' = DOMAIN media_lines
        /\ \A j \in DOMAIN media_lines :
             /\ media_lines'[j].media_type = media_lines[j].media_type
             /\ media_lines'[j].transport_id = media_lines[j].transport_id
             /\ media_lines'[j].index = media_lines[j].index
    <3>1. /\ Len(media_lines) \in Nat /\ DOMAIN media_lines = 1 .. Len(media_lines)
          /\ \A j \in DOMAIN media_lines : media_lines[j] \in MediaLine
      BY <1>1, LineFields
    <3>2. media_lines' = [j \in DOMAIN media_lines |->
                            IF j = i THEN [media_lines[j] EXCEPT !.sends = TRUE] ELSE media_lines[j]]
      BY <2>1, <2>2
    <3>3. \A j \in DOMAIN media_lines : media_lines'[j] \in MediaLine
      BY <3>1, <3>2 DEF MediaLine
    <3>4. media_lines' \in Seq(MediaLine)
      BY <3>1, <3>2, <3>3
    <3> QED BY <3>1, <3>2, <3>4 DEF MediaLine
  <2>4. Numbering(media_lines') = Numbering(media_lines)
    BY <2>3 DEF Numbering
  <2>5. Numbered(media_lines')
    BY <1>1, <2>3, <2>4, NumberedSame DEF Numbering
  <2>6. Housed(media_lines', transport', application_channel')
    BY <1>1, <2>2, <2>3 DEF Housed
  <2> QED BY <1>1, <2>2, <2>3, <2>5, <2>6 DEF PeerInv
<1>3. CASE ~FreeLine("audio")
  <2> DEFINE line == NewLine("audio", NoIndex, FirstTransport, TRUE)
             lines == Append(media_lines, line)
  <2>1. media_lines' = lines /\ MakeFirst
    BY <1>3 DEF CreateMediaSender
  <2>2. /\ Stocked(transport', made') /\ FirstTransport \in Nat
        /\ DOMAIN transport \subseteq DOMAIN transport'
        /\ crashed' = "no" => FirstTransport \in DOMAIN transport'
    BY <1>1, <2>1, FirstMade
  <2>3. line \in MediaLine /\ line.index = NoIndex /\ line.media_type = "audio"
        /\ line.transport_id = FirstTransport
    BY <2>2 DEF NewLine, MediaLine, MediaType, NoIndex
  <2> HIDE DEF line
  <2>4. Numbered(lines)
    BY <1>1, <2>3, WaitingNumbered
  <2>5. /\ lines \in Seq(MediaLine) /\ DOMAIN lines = DOMAIN media_lines \cup {Len(media_lines) + 1}
        /\ Len(media_lines) + 1 \notin DOMAIN media_lines
        /\ lines[Len(media_lines) + 1] = line /\ \A i \in DOMAIN media_lines : lines[i] = media_lines[i]
    BY <1>1, <2>3, AppendedLine
  <2> HIDE DEF lines
  <2>6. crashed' = "no" => Housed(lines, transport', application_channel)
    BY <1>1, <2>2, <2>3, <2>5 DEF Housed
  <2> QED BY <1>1, <2>1, <2>2, <2>4, <2>5, <2>6 DEF PeerInv
<1> QED BY <1>2, <1>3

LEMMA CreateDataChannelKeeps ==
  ASSUME PeerInv, CreateDataChannel
  PROVE  PeerInv'
<1> DEFINE line == NewLine("application", NoIndex, FirstTransport, FALSE)
           lines == Append(media_lines, line)
           channel == ChannelOn(FirstTransport)
<1>1. /\ media_lines \in Seq(MediaLine) /\ Numbered(media_lines) /\ Stocked(transport, made)
      /\ Housed(media_lines, transport, application_channel)
      /\ UNCHANGED signalling_state /\ MakeFirst
      /\ media_lines' = lines /\ application_channel' = channel
      /\ \A i \in DOMAIN media_lines : media_lines[i].media_type # "application"
  BY DEF PeerInv, CreateDataChannel, Available, Applications
<1>2. /\ Stocked(transport', made') /\ FirstTransport \in Nat
      /\ DOMAIN transport \subseteq DOMAIN transport'
      /\ crashed' = "no" => FirstTransport \in DOMAIN transport'
  BY <1>1, FirstMade
<1>3. line \in MediaLine /\ line.index = NoIndex /\ line.media_type = "application"
      /\ line.transport_id = FirstTransport
  BY <1>2 DEF NewLine, MediaLine, MediaType, NoIndex
<1>4. channel \in Channel /\ channel # NoChannel /\ channel.transport = FirstTransport
  BY <1>2 DEF ChannelOn, Channel, NoChannel
<1> HIDE DEF line, channel
<1>5. Numbered(lines)
  BY <1>1, <1>3, WaitingNumbered
<1>6. /\ lines \in Seq(MediaLine) /\ DOMAIN lines = DOMAIN media_lines \cup {Len(media_lines) + 1}
      /\ lines[Len(media_lines) + 1] = line /\ \A i \in DOMAIN media_lines : lines[i] = media_lines[i]
  BY <1>1, <1>3, AppendedLine
<1> HIDE DEF lines
<1>7. crashed' = "no" => Housed(lines, transport', channel)
  BY <1>1, <1>2, <1>3, <1>4, <1>6 DEF Housed
<1> QED BY <1>1, <1>2, <1>4, <1>5, <1>6, <1>7 DEF PeerInv

LEMMA CreateLocalDescriptionKeeps ==
  ASSUME PeerInv, CreateLocalDescription
  PROVE  PeerInv'
<1> DEFINE upto(i) == Cardinality({j \in 1 .. i : media_lines[j].index = NoIndex})
           lines == [i \in DOMAIN media_lines |->
                       IF media_lines[i].index # NoIndex THEN media_lines[i]
                       ELSE [media_lines[i] EXCEPT !.index = Cardinality(Numbering(media_lines)) + upto(i)]]
<1>1. /\ media_lines \in Seq(MediaLine) /\ Numbered(media_lines) /\ Stocked(transport, made)
      /\ application_channel \in Channel /\ Housed(media_lines, transport, application_channel)
      /\ signalling_state \in SignallingStates
  BY DEF PeerInv, CreateLocalDescription, Available
<1>2. /\ media_lines' = media_lines \/ media_lines' = lines
      /\ transport' = transport \/ transport' = Described(transport)
      /\ made' = made /\ application_channel' = application_channel
      /\ signalling_state' \in {"Negotiated", "HaveLocalOffer"}
  BY DEF CreateLocalDescription, Indexed, Numbering
<1>3. Stocked(transport', made') /\ DOMAIN transport' = DOMAIN transport
  BY <1>1, <1>2, DescribedStocked
<1>4. /\ Len(media_lines) \in Nat /\ DOMAIN media_lines = 1 .. Len(media_lines)
      /\ \A i \in DOMAIN media_lines : media_lines[i] \in MediaLine
      /\ Cardinality(Numbering(media_lines)) \in Nat
  BY <1>1, LineFields
<1>5. ASSUME NEW i \in DOMAIN media_lines PROVE upto(i) \in Nat
  <2>1. IsFiniteSet(1 .. i) /\ {j \in 1 .. i : media_lines[j].index = NoIndex} \in SUBSET (1 .. i)
    BY <1>4, FS_Interval
  <2> QED BY <2>1, FS_Subset, FS_CardinalityType
<1> HIDE DEF upto
<1>6. /\ lines \in Seq(MediaLine) /\ DOMAIN lines = DOMAIN media_lines
      /\ \A i \in DOMAIN media_lines :
           /\ lines[i].media_type = media_lines[i].media_type
           /\ lines[i].transport_id = media_lines[i].transport_id
           /\ lines[i].index = IF media_lines[i].index # NoIndex THEN media_lines[i].index
                               ELSE Cardinality(Numbering(media_lines)) + upto(i)
  <2>1. \A i \in DOMAIN media_lines :
          /\ lines[i] \in MediaLine
          /\ lines[i].media_type = media_lines[i].media_type
          /\ lines[i].transport_id = media_lines[i].transport_id
          /\ lines[i].index = IF media_lines[i].index # NoIndex THEN media_lines[i].index
                              ELSE Cardinality(Numbering(media_lines)) + upto(i)
    BY <1>4, <1>5 DEF MediaLine
  <2>2. lines = [i \in 1 .. Len(media_lines) |-> lines[i]]
    BY <1>4
  <2> HIDE DEF lines
  <2>3. lines \in Seq(MediaLine)
    BY <1>4, <2>1, <2>2
  <2> QED BY <1>4, <2>1, <2>2, <2>3
<1> HIDE DEF lines
<1>7. Numbered(lines)
  BY <1>1, <1>6, AllNumbered DEF upto
<1>8. Housed(lines, transport', application_channel) /\ Housed(media_lines, transport', application_channel)
  BY <1>1, <1>3, <1>6 DEF Housed
<1>9. signalling_state' \in SignallingStates
  BY <1>2 DEF SignallingStates
<1> QED BY <1>1, <1>2, <1>3, <1>6, <1>7, <1>8, <1>9 DEF PeerInv

LEMMA ResetKeeps ==
  ASSUME PeerInv, Reset
  PROVE  PeerInv'
<1>1. /\ media_lines' = <<>> /\ transport' = [id \in {} |-> 0] /\ made' = made
      /\ application_channel' = NoChannel /\ signalling_state' = "None"
  BY DEF Reset
<1>2. /\ <<>> \in Seq(MediaLine) /\ Numbered(<<>>) /\ NoChannel \in Channel
  BY DEF Numbered, Numbering, NoChannel, Channel
<1>3. Stocked(transport', made')
  BY <1>1 DEF Stocked, PeerInv
<1>4. Housed(<<>>, transport', NoChannel)
  BY DEF Housed
<1> QED BY <1>1, <1>2, <1>3, <1>4 DEF PeerInv, SignallingStates

\* What the poll does leaves lines and transports where they are.
LEMMA PollKeeps ==
  ASSUME PeerInv, Available,
         \/ NegotiationNeeded
         \/ \E id \in 1 .. MaxTransports : TransportConnects(id) \/ HandleTransportConnected(id)
  PROVE  PeerInv'
<1>1. /\ media_lines' = media_lines /\ made' = made
      /\ signalling_state' \in {signalling_state, "NegotiationRequired"}
  BY DEF NegotiationNeeded, TransportConnects, HandleTransportConnected
<1>2. Stocked(transport', made') /\ DOMAIN transport' = DOMAIN transport
  BY DEF PeerInv, Stocked, NegotiationNeeded, TransportConnects, HandleTransportConnected
<1>3. /\ application_channel' \in Channel
      /\ application_channel' = NoChannel <=> application_channel = NoChannel
      /\ application_channel'.transport = application_channel.transport
  <2>1. application_channel \in Channel
    BY DEF PeerInv
  <2>2. \/ application_channel' = application_channel
        \/ /\ application_channel.state = "Disconnected"
           /\ application_channel' = [application_channel EXCEPT !.state = "Connecting"]
    BY DEF NegotiationNeeded, TransportConnects, HandleTransportConnected, StartChannel
  <2> QED BY <2>1, <2>2 DEF Channel, NoChannel
<1>4. Housed(media_lines', transport', application_channel')
  BY <1>1, <1>2, <1>3 DEF PeerInv, Available, Housed
<1> QED BY <1>1, <1>2, <1>3, <1>4 DEF PeerInv, SignallingStates

LEMMA PeerInvInit == Init => PeerInv
<1> SUFFICES ASSUME Init PROVE PeerInv
  OBVIOUS
<1>1. /\ media_lines = <<>> /\ transport = [id \in {} |-> 0] /\ made = 0
      /\ application_channel = NoChannel /\ signalling_state = "None"
  BY DEF Init
<1>2. /\ <<>> \in Seq(MediaLine) /\ Numbered(<<>>) /\ NoChannel \in Channel
  BY DEF Numbered, Numbering, NoChannel, Channel
<1>3. Stocked(transport, made)
  BY <1>1 DEF Stocked
<1>4. Housed(<<>>, transport, NoChannel)
  BY DEF Housed
<1> QED BY <1>1, <1>2, <1>3, <1>4 DEF PeerInv, SignallingStates

LEMMA PeerInvNext == PeerInv /\ [Next]_allVars => PeerInv'
<1> SUFFICES ASSUME PeerInv, [Next]_allVars PROVE PeerInv'
  OBVIOUS
<1>1. CASE UNCHANGED peerVars
  BY <1>1 DEF PeerInv, peerVars
<1>2. CASE CreateMediaSender
  BY <1>2, CreateMediaSenderKeeps
<1>3. CASE CreateDataChannel
  BY <1>3, CreateDataChannelKeeps
<1>4. CASE CreateLocalDescription
  BY <1>4, CreateLocalDescriptionKeeps
<1>5. CASE Reset
  BY <1>5, ResetKeeps
<1>6. CASE \E offer \in BOOLEAN : SetRemoteDescription(offer)
  BY <1>6, SetRemoteDescriptionKeeps
<1>7. CASE \/ NegotiationNeeded
           \/ \E id \in 1 .. MaxTransports : TransportConnects(id) \/ HandleTransportConnected(id)
  <2>1. Available
    BY <1>7 DEF NegotiationNeeded, TransportConnects, HandleTransportConnected
  <2> QED BY <1>7, <2>1, PollKeeps
<1> QED BY <1>1, <1>2, <1>3, <1>4, <1>5, <1>6, <1>7 DEF Next, PeerNext, allVars

\* What the program unwraps is there: every line is on a transport the peer
\* has, and the application channel is there exactly if a line for it is, on
\* its transport (rtc.rs:376-398, 414-427, 502-543, 762-783).
THEOREM LinesAreHoused == Spec => []WellPlaced
<1>1. PeerInv /\ CacheTypeOK => WellPlaced
  <2> SUFFICES ASSUME PeerInv, CacheTypeOK PROVE WellPlaced
    OBVIOUS
  <2>1. TypeOK
    BY LineFields DEF TypeOK, PeerInv, SignallingStates, Stocked, MediaType
  <2>2. ASSUME crashed = "no"
        PROVE  /\ \A i \in DOMAIN media_lines : media_lines[i].transport_id \in DOMAIN transport
               /\ {media_lines[i].transport_id : i \in Applications} =
                    (IF application_channel = NoChannel THEN {} ELSE {application_channel.transport})
    BY <2>2 DEF PeerInv, Housed, Applications
  <2> QED BY <2>1, <2>2 DEF WellPlaced
<1>2. Spec => []CacheTypeOK
  BY PeerUsesCache, CacheTypeCorrect, PTL
<1>3. Spec => []PeerInv
  BY PeerInvInit, PeerInvNext, PTL DEF Spec
<1> QED BY <1>1, <1>2, <1>3, PTL
=============================================================================
