-------------------------- MODULE Transport_proofs --------------------------
(***************************************************************************)
(* Theorems about Transport, for every set of descriptions and datagrams   *)
(* and every bound: its types, its safety invariants, and that it is what  *)
(* TransportLife promises.  The argument is that between two polls the     *)
(* state is always the one update_state would compute, and that at most    *)
(* one event is queued, whose report is due before anything else happens.  *)
(***************************************************************************)
EXTENDS Transport, TLAPS

States == {"Disconnected", "Connecting", "Connected", "Failed"}

\* The groups of variables, visible in every proof below.
USE DEF report, remote, secure, agent, task, Changed

\* TypeOK in two parts, for the provers: the variables that are Booleans, and
\* all others.
FlagsOK == candidates_gathered \in BOOLEAN /\ srtp_in \in BOOLEAN /\ woken \in BOOLEAN

DataOK ==
  /\ state \in States /\ told \in States
  /\ pending_events \in Seq({Changed})
  /\ remote_state \in {"none", "open", "gathered"}
  /\ setup \in {"Unset", "Active", "Passive", "Holdconn"}
  /\ setup = "Unset" <=> remote_state = "none"
  /\ dtls \in {"None", "Uninitialized", "Handshake", "Connected"}
  /\ dtls_buffer \in Seq(Datagrams)
  /\ backend \in {"absent", "present", "gone"}
  /\ ice \in (IceStates \ {"Failed"}) \cup {"absent"}
  /\ pc \in Stages /\ panicked \in {"no", "setup", "dtls"}
  /\ local \in Seq({"candidate", "end"})
  /\ changes \in Seq(IceStates \cup {"end"})
  /\ incoming \in Seq(Datagrams \cup {"end"})
  /\ control \in Seq({"message"})
  /\ budget \in [candidates : Nat, changes : Nat, datagrams : Nat, messages : Nat]

\* A poll that is under way started with nothing to report.
PollClean ==
  pc # "idle" => pending_events = << >> /\ panicked = "no" /\ state # "Failed"

\* What is queued is one change of state that is not a failure.
ReportDue ==
  /\ pending_events # << >> =>
       pending_events = <<Changed>> /\ panicked = "no" /\ state # "Failed"
  /\ panicked = "no" /\ pending_events = << >> => told = state
  /\ told = "Failed" => state = "Failed"

\* The transport has all of its parts, and its state is up to date with them.
Whole ==
  /\ ice # "absent" /\ dtls # "None"
  /\ state = StateOf(ice, dtls)
  /\ backend = IF dtls = "Connected" THEN "present" ELSE "absent"
  /\ dtls = "Connected" => srtp_in = TRUE

Inv ==
  /\ PollClean /\ ReportDue
  /\ state # "Failed" => Whole
  /\ NothingOutlivesFailure

-----------------------------------------------------------------------------
LEMMA TypeParts == TypeOK <=> DataOK /\ FlagsOK
  BY Zenon DEF TypeOK, DataOK, FlagsOK, States

\* The initial state has its types and satisfies the invariant.
LEMMA InitCorrect == Init => TypeOK /\ Inv
<1> SUFFICES ASSUME Init PROVE TypeOK /\ Inv
  OBVIOUS
<1>1. DataOK
  BY TransportAssumption DEF Init, DataOK, States, IceStates, Stages
<1>2. FlagsOK
  BY Zenon DEF Init, FlagsOK
<1>3. Inv
  BY DEF Init, Inv, PollClean, ReportDue, Whole, StateOf, NothingOutlivesFailure
<1> QED
  BY <1>1, <1>2, <1>3, TypeParts

Budgets == [candidates : Nat, changes : Nat, datagrams : Nat, messages : Nat]

\* What is spent leaves a budget.
LEMMA SpendTypes ==
  ASSUME budget \in Budgets,
         NEW what \in {"candidates", "changes", "datagrams", "messages"}, Spend(what)
  PROVE  budget' \in Budgets
<1>1. budget[what] \in Nat /\ budget[what] > 0
  BY DEF Budgets, Spend
<1>2. budget[what] - 1 \in Nat
  BY <1>1
<1>3. budget' = [budget EXCEPT ![what] = budget[what] - 1]
  BY DEF Spend
<1> QED
  BY <1>2, <1>3 DEF Budgets

\* Every step of the transport, of its callers and of its channels keeps the types.
LEMMA DataStep == DataOK /\ Inv /\ Next => DataOK'
<1> SUFFICES ASSUME DataOK, Inv, Next PROVE DataOK'
  OBVIOUS
<1> USE DEF DataOK, States, Stages, IceStates
<1>1. ASSUME PollPending PROVE DataOK'
  BY <1>1 DEF PollPending, Polled
<1>2. ASSUME PollFailed PROVE DataOK'
  BY <1>2 DEF PollFailed, Polled
<1>3. ASSUME PollBegins PROVE DataOK'
  BY <1>3 DEF PollBegins, Polled
<1>4. ASSUME PollGathering PROVE DataOK'
  <2>1. pc' \in {"idle", "ice"} /\ panicked' = panicked
    BY <1>4, Zenon DEF PollGathering, Ready, Goto
  <2>2. local' = local \/ (local # << >> /\ local' = Tail(local))
    BY <1>4, Zenon DEF PollGathering
  <2>3. UNCHANGED <<report, remote, dtls, dtls_buffer, backend, ice, changes, incoming, control,
                    budget>>
    BY <1>4, Zenon DEF PollGathering
  <2>4. local' \in Seq({"candidate", "end"})
    <3>1. CASE local' = local
      BY <3>1
    <3>2. CASE local # << >> /\ local' = Tail(local)
      BY <3>2
    <3> QED
      BY <2>2, <3>1, <3>2, Zenon
  <2> QED
    BY <2>1, <2>3, <2>4
<1>5. ASSUME PollIceFails PROVE DataOK'
  BY <1>5 DEF PollIceFails, FailAndReturn, FailureTearDown, Ready
<1>6. ASSUME PollIceChanges PROVE DataOK'
  BY <1>6 DEF PollIceChanges, UpdateState, Ready, StateOf
<1>7. ASSUME PollIceQuiet PROVE DataOK'
  BY <1>7 DEF PollIceQuiet, Goto
<1>8. ASSUME PollMedia PROVE DataOK'
  BY <1>8 DEF PollMedia, Ready
<1>9. ASSUME PollDtlsDatagram PROVE DataOK'
  BY <1>9 DEF PollDtlsDatagram, AllDatagrams
<1>10. ASSUME PollStreamEnds PROVE DataOK'
  BY <1>10 DEF PollStreamEnds, FailAndReturn, FailureTearDown, Ready
<1>11. ASSUME PollNoData PROVE DataOK'
  BY <1>11 DEF PollNoData, Goto
<1>12. ASSUME PollUninitialized PROVE DataOK'
  BY <1>12 DEF PollUninitialized, Goto
<1>13. ASSUME BeginHandshake PROVE DataOK'
  BY <1>13 DEF BeginHandshake, Panic
<1>14. ASSUME HandshakeWouldBlock PROVE DataOK'
  BY <1>14 DEF HandshakeWouldBlock, Goto
<1>15. ASSUME HandshakeSkips PROVE DataOK'
  BY <1>15 DEF HandshakeSkips
<1>16. ASSUME HandshakeSucceeds PROVE DataOK'
  <2>1. ice # "absent"
    BY <1>16 DEF HandshakeSucceeds, Inv, PollClean, Whole
  <2> QED
    BY <1>16, <2>1 DEF HandshakeSucceeds, StateOf, Ready, Goto
<1>17. ASSUME HandshakeFails PROVE DataOK'
  BY <1>17 DEF HandshakeFails, FailureTearDown, Panic
<1>18. ASSUME ReadDtls PROVE DataOK'
  BY <1>18 DEF ReadDtls, Ready
<1>19. ASSUME ReadDtlsEnds PROVE DataOK'
  BY <1>19 DEF ReadDtlsEnds, FailAndReturn, FailureTearDown, Ready
<1>20. ASSUME ReadDtlsWouldBlock PROVE DataOK'
  BY <1>20 DEF ReadDtlsWouldBlock, Goto
<1>21. ASSUME PollControl PROVE DataOK'
  BY <1>21 DEF PollControl
<1>22. ASSUME PollControlFails PROVE DataOK'
  BY <1>22 DEF PollControlFails, FailureTearDown, Ready
<1>23. ASSUME PollEnds PROVE DataOK'
  BY <1>23 DEF PollEnds
<1>24. ASSUME NEW s \in Setups, NEW end \in BOOLEAN, ApplyRemoteDescription(s, end)
      PROVE DataOK'
  BY <1>24, TransportAssumption DEF ApplyRemoteDescription, LocalSetup
<1>25. ASSUME AddEndOfCandidates PROVE DataOK'
  BY <1>25 DEF AddEndOfCandidates
<1>26. ASSUME AgentGathers PROVE DataOK'
  <2>1. budget' \in Budgets
    BY <1>26, SpendTypes DEF AgentGathers, Budgets
  <2>2. local' \in Seq({"candidate", "end"})
    BY <1>26 DEF AgentGathers
  <2>3. UNCHANGED <<report, remote, dtls, dtls_buffer, backend, ice, pc, panicked, changes, incoming, control>>
    BY <1>26, Zenon DEF AgentGathers, AgentLeaves
  <2> QED
    BY <2>1, <2>2, <2>3 DEF Budgets
<1>27. ASSUME NEW s \in IceStates \cup {"end"}, AgentChanges(s) PROVE DataOK'
  <2>1. budget' \in Budgets
    BY <1>27, SpendTypes DEF AgentChanges, Budgets
  <2>2. changes' \in Seq(IceStates \cup {"end"})
    BY <1>27 DEF AgentChanges
  <2>3. UNCHANGED <<report, remote, dtls, dtls_buffer, backend, ice, pc, panicked, local, incoming, control>>
    BY <1>27, Zenon DEF AgentChanges, AgentLeaves
  <2> QED
    BY <2>1, <2>2, <2>3 DEF Budgets
<1>28. ASSUME NEW d \in Datagrams \cup {"end"}, AgentReceives(d) PROVE DataOK'
  <2>1. budget' \in Budgets
    BY <1>28, SpendTypes DEF AgentReceives, Budgets
  <2>2. incoming' \in Seq(Datagrams \cup {"end"})
    BY <1>28 DEF AgentReceives
  <2>3. UNCHANGED <<report, remote, dtls, dtls_buffer, backend, ice, pc, panicked, local, changes, control>>
    BY <1>28, Zenon DEF AgentReceives, AgentLeaves
  <2> QED
    BY <2>1, <2>2, <2>3 DEF Budgets
<1>29. ASSUME SessionSends PROVE DataOK'
  <2>1. budget' \in Budgets
    BY <1>29, SpendTypes DEF SessionSends, Budgets
  <2>2. control' \in Seq({"message"})
    BY <1>29 DEF SessionSends
  <2>3. UNCHANGED <<report, remote, dtls, dtls_buffer, backend, ice, pc, panicked, local, changes, incoming>>
    BY <1>29, Zenon DEF SessionSends, AgentLeaves
  <2> QED
    BY <2>1, <2>2, <2>3 DEF Budgets
<1> QED
  BY <1>1, <1>2, <1>3, <1>4, <1>5, <1>6, <1>7, <1>8, <1>9, <1>10, <1>11, <1>12, <1>13, <1>14, <1>15, <1>16, <1>17, <1>18, <1>19, <1>20, <1>21, <1>22, <1>23, <1>24, <1>25, <1>26, <1>27, <1>28, <1>29
     DEF Next, Poll, Calls, Environment

\* The Booleans stay Booleans.
LEMMA FlagsStep == FlagsOK /\ Next => FlagsOK'
<1> SUFFICES ASSUME FlagsOK, Next PROVE FlagsOK'
  OBVIOUS
<1> USE DEF FlagsOK
<1>1. ASSUME PollPending PROVE FlagsOK'
  BY <1>1, Zenon DEF PollPending, Polled
<1>2. ASSUME PollFailed PROVE FlagsOK'
  BY <1>2, Zenon DEF PollFailed, Polled
<1>3. ASSUME PollBegins PROVE FlagsOK'
  BY <1>3, Zenon DEF PollBegins, Polled
<1>4. ASSUME PollGathering PROVE FlagsOK'
  BY <1>4, Zenon DEF PollGathering, Ready, Goto
<1>5. ASSUME PollIceFails PROVE FlagsOK'
  BY <1>5, Zenon DEF PollIceFails, FailAndReturn, FailureTearDown, Ready
<1>6. ASSUME PollIceChanges PROVE FlagsOK'
  BY <1>6, Zenon DEF PollIceChanges, UpdateState, Ready, StateOf
<1>7. ASSUME PollIceQuiet PROVE FlagsOK'
  BY <1>7, Zenon DEF PollIceQuiet, Goto
<1>8. ASSUME PollMedia PROVE FlagsOK'
  BY <1>8, Zenon DEF PollMedia, Ready
<1>9. ASSUME PollDtlsDatagram PROVE FlagsOK'
  BY <1>9, Zenon DEF PollDtlsDatagram, AllDatagrams
<1>10. ASSUME PollStreamEnds PROVE FlagsOK'
  BY <1>10, Zenon DEF PollStreamEnds, FailAndReturn, FailureTearDown, Ready
<1>11. ASSUME PollNoData PROVE FlagsOK'
  BY <1>11, Zenon DEF PollNoData, Goto
<1>12. ASSUME PollUninitialized PROVE FlagsOK'
  BY <1>12, Zenon DEF PollUninitialized, Goto
<1>13. ASSUME BeginHandshake PROVE FlagsOK'
  BY <1>13, Zenon DEF BeginHandshake, Panic
<1>14. ASSUME HandshakeWouldBlock PROVE FlagsOK'
  BY <1>14, Zenon DEF HandshakeWouldBlock, Goto
<1>15. ASSUME HandshakeSkips PROVE FlagsOK'
  BY <1>15, Zenon DEF HandshakeSkips
<1>16. ASSUME HandshakeSucceeds PROVE FlagsOK'
  BY <1>16, Zenon DEF HandshakeSucceeds, StateOf, Ready, Goto
<1>17. ASSUME HandshakeFails PROVE FlagsOK'
  BY <1>17, Zenon DEF HandshakeFails, FailureTearDown, Panic
<1>18. ASSUME ReadDtls PROVE FlagsOK'
  BY <1>18, Zenon DEF ReadDtls, Ready
<1>19. ASSUME ReadDtlsEnds PROVE FlagsOK'
  BY <1>19, Zenon DEF ReadDtlsEnds, FailAndReturn, FailureTearDown, Ready
<1>20. ASSUME ReadDtlsWouldBlock PROVE FlagsOK'
  BY <1>20, Zenon DEF ReadDtlsWouldBlock, Goto
<1>21. ASSUME PollControl PROVE FlagsOK'
  BY <1>21, Zenon DEF PollControl
<1>22. ASSUME PollControlFails PROVE FlagsOK'
  BY <1>22, Zenon DEF PollControlFails, FailureTearDown, Ready
<1>23. ASSUME PollEnds PROVE FlagsOK'
  BY <1>23, Zenon DEF PollEnds
<1>24. ASSUME NEW s \in Setups, NEW end \in BOOLEAN, ApplyRemoteDescription(s, end)
      PROVE FlagsOK'
  BY <1>24, Zenon DEF ApplyRemoteDescription, Calling
<1>25. ASSUME AddEndOfCandidates PROVE FlagsOK'
  BY <1>25, Zenon DEF AddEndOfCandidates, Calling
<1>26. ASSUME AgentGathers PROVE FlagsOK'
  BY <1>26, Zenon DEF AgentGathers, AgentLeaves
<1>27. ASSUME NEW s \in IceStates \cup {"end"}, AgentChanges(s) PROVE FlagsOK'
  BY <1>27, Zenon DEF AgentChanges, AgentLeaves
<1>28. ASSUME NEW d \in Datagrams \cup {"end"}, AgentReceives(d) PROVE FlagsOK'
  BY <1>28, Zenon DEF AgentReceives, AgentLeaves
<1>29. ASSUME SessionSends PROVE FlagsOK'
  BY <1>29, Zenon DEF SessionSends, AgentLeaves
<1> QED
  BY <1>1, <1>2, <1>3, <1>4, <1>5, <1>6, <1>7, <1>8, <1>9, <1>10, <1>11, <1>12, <1>13, <1>14, <1>15, <1>16, <1>17, <1>18, <1>19, <1>20, <1>21, <1>22, <1>23, <1>24, <1>25, <1>26, <1>27, <1>28, <1>29
     DEF Next, Poll, Calls, Environment

\* Every step keeps the invariant.
LEMMA InvStep == DataOK /\ Inv /\ Next => Inv'
<1> SUFFICES ASSUME DataOK, Inv, Next PROVE Inv'
  OBVIOUS
<1> USE DEF Inv, PollClean, ReportDue, Whole, NothingOutlivesFailure, DataOK
<1>1. ASSUME PollPending PROVE Inv'
  <2>1. pending_events = <<Changed>> /\ pending_events' = << >>
    <3>1. pending_events = <<Changed>> /\ pending_events' = Tail(pending_events)
      BY <1>1 DEF PollPending
    <3>2. Len(pending_events) = 1
      BY <3>1
    <3>3. pending_events' \in Seq({Changed}) /\ Len(pending_events') = 0
      BY <3>1, <3>2
    <3> QED
      BY <3>1, <3>3
  <2> QED
    BY <1>1, <2>1 DEF PollPending, Polled, StateOf
<1>2. ASSUME PollFailed PROVE Inv'
  BY <1>2 DEF PollFailed, Polled
<1>3. ASSUME PollBegins PROVE Inv'
  BY <1>3 DEF PollBegins, Polled, Over
<1>4. ASSUME PollGathering PROVE Inv'
  BY <1>4 DEF PollGathering, Ready, Goto
<1>5. ASSUME PollIceFails PROVE Inv'
  BY <1>5 DEF PollIceFails, FailAndReturn, FailureTearDown, Ready
<1>6. ASSUME PollIceChanges PROVE Inv'
  <2>1. pending_events = << >> /\ told = state /\ panicked = "no" /\ state # "Failed"
    BY <1>6 DEF PollIceChanges
  <2>2. ice' \in {"Disconnected", "Connecting", "Connected"}
    BY <1>6 DEF PollIceChanges, IceStates
  <2>3. /\ state' = StateOf(ice', dtls)
        /\ pending_events' = IF state' # state THEN <<Changed>> ELSE << >>
    BY <1>6, <2>1 DEF PollIceChanges, UpdateState
  <2>4. state' # "Failed"
    BY <2>2, <2>3 DEF StateOf
  <2> QED
    BY <1>6, <2>1, <2>2, <2>3, <2>4 DEF PollIceChanges, Ready
<1>7. ASSUME PollIceQuiet PROVE Inv'
  BY <1>7 DEF PollIceQuiet, Goto
<1>8. ASSUME PollMedia PROVE Inv'
  BY <1>8 DEF PollMedia, Ready
<1>9. ASSUME PollDtlsDatagram PROVE Inv'
  BY <1>9 DEF PollDtlsDatagram, AllDatagrams
<1>10. ASSUME PollStreamEnds PROVE Inv'
  BY <1>10 DEF PollStreamEnds, FailAndReturn, FailureTearDown, Ready
<1>11. ASSUME PollNoData PROVE Inv'
  BY <1>11 DEF PollNoData, Goto
<1>12. ASSUME PollUninitialized PROVE Inv'
  BY <1>12 DEF PollUninitialized, Goto
<1>13. ASSUME BeginHandshake PROVE Inv'
  BY <1>13 DEF BeginHandshake, Panic, StateOf
<1>14. ASSUME HandshakeWouldBlock PROVE Inv'
  BY <1>14 DEF HandshakeWouldBlock, Goto
<1>15. ASSUME HandshakeSkips PROVE Inv'
  BY <1>15 DEF HandshakeSkips
<1>16. ASSUME HandshakeSucceeds PROVE Inv'
  BY <1>16 DEF HandshakeSucceeds, StateOf, Ready, Goto
<1>17. ASSUME HandshakeFails PROVE Inv'
  BY <1>17 DEF HandshakeFails, FailureTearDown, Panic
<1>18. ASSUME ReadDtls PROVE Inv'
  BY <1>18 DEF ReadDtls, Ready
<1>19. ASSUME ReadDtlsEnds PROVE Inv'
  BY <1>19 DEF ReadDtlsEnds, FailAndReturn, FailureTearDown, Ready
<1>20. ASSUME ReadDtlsWouldBlock PROVE Inv'
  BY <1>20 DEF ReadDtlsWouldBlock, Goto
<1>21. ASSUME PollControl PROVE Inv'
  BY <1>21 DEF PollControl
<1>22. ASSUME PollControlFails PROVE Inv'
  BY <1>22 DEF PollControlFails, FailureTearDown, Ready
<1>23. ASSUME PollEnds PROVE Inv'
  BY <1>23 DEF PollEnds
<1>24. ASSUME NEW s \in Setups, NEW end \in BOOLEAN, ApplyRemoteDescription(s, end)
      PROVE Inv'
  BY <1>24 DEF ApplyRemoteDescription, Calling
<1>25. ASSUME AddEndOfCandidates PROVE Inv'
  BY <1>25 DEF AddEndOfCandidates, Calling
<1>26. ASSUME AgentGathers PROVE Inv'
  BY <1>26 DEF AgentGathers, AgentLeaves
<1>27. ASSUME NEW s \in IceStates \cup {"end"}, AgentChanges(s) PROVE Inv'
  BY <1>27 DEF AgentChanges, AgentLeaves
<1>28. ASSUME NEW d \in Datagrams \cup {"end"}, AgentReceives(d) PROVE Inv'
  BY <1>28 DEF AgentReceives, AgentLeaves
<1>29. ASSUME SessionSends PROVE Inv'
  BY <1>29 DEF SessionSends, AgentLeaves
<1> QED
  BY <1>1, <1>2, <1>3, <1>4, <1>5, <1>6, <1>7, <1>8, <1>9, <1>10, <1>11, <1>12, <1>13, <1>14, <1>15, <1>16, <1>17, <1>18, <1>19, <1>20, <1>21, <1>22, <1>23, <1>24, <1>25, <1>26, <1>27, <1>28, <1>29
     DEF Next, Poll, Calls, Environment

-----------------------------------------------------------------------------
\* The types and the invariant, in every reachable state.
LEMMA Invariance == Spec => [](DataOK /\ FlagsOK /\ Inv)
<1>1. Init => DataOK /\ FlagsOK /\ Inv
  BY InitCorrect, TypeParts
<1>2. DataOK /\ FlagsOK /\ Inv /\ [Next]_vars => (DataOK /\ FlagsOK /\ Inv)'
  <2>1. CASE Next
    BY <2>1, DataStep, FlagsStep, InvStep
  <2>2. CASE UNCHANGED vars
    BY <2>2 DEF vars, DataOK, FlagsOK, Inv, PollClean, ReportDue, Whole, NothingOutlivesFailure
  <2> QED
    BY <2>1, <2>2
<1> QED
  BY <1>1, <1>2, PTL DEF Spec

\* Every variable has its type, and setup is decided with the first
\* description, never to Actpass.
THEOREM TypeCorrect == Spec => []TypeOK
  BY Invariance, TypeParts, PTL

\* Between two polls the peer connection knows the state unless an event is
\* queued: no branch of poll_next loses a change.
THEOREM EveryChangeIsTold == Spec => []StateIsTold
<1>1. Inv => StateIsTold
  BY DEF Inv, ReportDue, StateIsTold, Calling
<1> QED
  BY <1>1, Invariance, PTL

\* A transport that is Connected has ICE, DTLS and both halves of srtp.
THEOREM StateFitsParts == Spec => []ConnectedIsSecure
<1>1. DataOK /\ Inv => ConnectedIsSecure
  BY DEF DataOK, Inv, Whole, ConnectedIsSecure, StateOf
<1> QED
  BY <1>1, Invariance, PTL

\* A transport that failed has none of its parts left: each of the four ways
\* poll_next fails takes all of them down before it returns, and no later call
\* brings one back.
THEOREM FailureLeavesNothing == Spec => []NothingOutlivesFailure
<1>1. Inv => NothingOutlivesFailure
  BY DEF Inv
<1> QED
  BY <1>1, Invariance, PTL

\* No `expect` of poll_next or add_remote_candidate meets a missing part.
THEOREM NoExpectationFails == Spec => []ExpectationsMet
<1>1. DataOK /\ Inv => ExpectationsMet
  BY DEF DataOK, Inv, PollClean, Whole, ExpectationsMet, Calling
<1> QED
  BY <1>1, Invariance, PTL

-----------------------------------------------------------------------------
LEMMA LifeInit == Init => Life!Init
  BY DEF Init, Life!Init

\* Each step of the transport is a step of its promise, or none.
LEMMA LifeStep == DataOK /\ Inv /\ Next => [Life!Next]_<<told, backend>>
<1> SUFFICES ASSUME DataOK, Inv, Next PROVE [Life!Next]_<<told, backend>>
  OBVIOUS
<1> DEFINE Stutter == UNCHANGED <<told, backend>>
<1>1. ASSUME PollPending PROVE Life!Reported
  <2>1. state \in States \ {"Failed"} /\ told # "Failed" /\ told' = state /\ backend' = backend
    BY <1>1 DEF PollPending, DataOK, Inv, ReportDue
  <2>2. state = "Connected" => backend = "present"
    BY <2>1 DEF DataOK, Inv, Whole, StateOf
  <2> QED
    BY <2>1, <2>2 DEF Life!Reported, Life!States, States
<1>2. ASSUME FailAndReturn, pc # "idle" PROVE Life!TornDown
  BY <1>2 DEF FailAndReturn, FailureTearDown, Inv, PollClean, ReportDue, Whole, Life!TornDown
<1>3. ASSUME PollControlFails PROVE Life!TornDown
  BY <1>3 DEF PollControlFails, FailureTearDown, Inv, PollClean, ReportDue, Whole, Life!TornDown
<1>4. ASSUME HandshakeFails PROVE Life!TornDown
  BY <1>4 DEF HandshakeFails, FailureTearDown, Inv, PollClean, ReportDue, Whole, Life!TornDown
<1>5. ASSUME HandshakeSucceeds PROVE Life!Secured
  <2>1. state = StateOf(ice, "Handshake") /\ backend = "absent" /\ backend' = "present"
    BY <1>5 DEF HandshakeSucceeds, Inv, PollClean, Whole
  <2>2. state' = StateOf(ice, "Connected") /\ told' \in {told, state'}
    BY <1>5 DEF HandshakeSucceeds
  <2>3. state' # state => state' = "Connected"
    BY <2>1, <2>2 DEF StateOf
  <2>4. told' = told \/ (state' # state /\ told' = state')
    BY <1>5 DEF HandshakeSucceeds
  <2> QED
    BY <2>1, <2>3, <2>4 DEF Life!Secured
<1>6. ASSUME PollIceFails \/ PollStreamEnds \/ ReadDtlsEnds PROVE FailAndReturn /\ pc # "idle"
  BY <1>6 DEF PollIceFails, PollStreamEnds, ReadDtlsEnds
<1>7. ASSUME \/ PollFailed \/ PollBegins \/ PollGathering \/ PollIceChanges \/ PollIceQuiet
             \/ PollMedia \/ PollDtlsDatagram \/ PollNoData \/ PollUninitialized
             \/ BeginHandshake \/ HandshakeWouldBlock \/ HandshakeSkips \/ ReadDtls
             \/ ReadDtlsWouldBlock \/ PollControl \/ PollEnds
      PROVE  Stutter
  BY <1>7, Zenon
     DEF PollFailed, PollBegins, PollGathering, PollIceChanges, PollIceQuiet, PollMedia,
         PollDtlsDatagram, PollNoData, PollUninitialized, BeginHandshake, HandshakeWouldBlock,
         HandshakeSkips, ReadDtls, ReadDtlsWouldBlock, PollControl, PollEnds
<1>8. ASSUME Calls \/ Environment PROVE Stutter
  BY <1>8, Zenon
     DEF Calls, ApplyRemoteDescription, AddEndOfCandidates, Environment, AgentGathers,
         AgentChanges, AgentReceives, SessionSends, AgentLeaves
<1> QED
  BY <1>1, <1>2, <1>3, <1>4, <1>5, <1>6, <1>7, <1>8 DEF Next, Poll, Life!Next

\* The transport keeps the promise the senders of RTP and the peer connection
\* rely on: secured at most once, Connected only with a backend, and a
\* failure reported with the backend gone.
THEOREM KeepsPromise == Spec => LifePromised
<1>1. DataOK /\ Inv /\ [Next]_vars => [Life!Next]_<<told, backend>>
  BY LifeStep DEF vars
<1> QED
  BY <1>1, LifeInit, Invariance, PTL DEF Spec, LifePromised, Life!Spec
=============================================================================
