----------------------------- MODULE Transport ------------------------------
(***************************************************************************)
(* RTCTransport (transport/mod.rs): ICE, DTLS and srtp of one transport.   *)
(*                                                                         *)
(* poll_next runs on the task of the peer connection, which also makes the *)
(* calls of the application; the ICE agent and the SCTP session fill the   *)
(* channels it reads from threads of their own.  One poll is therefore a   *)
(* walk of pc over the channels in the order of the code, and the actions  *)
(* of the agent and of the session happen between any two of its steps.    *)
(*                                                                         *)
(* Ready and Gathering of ICE are treated by the code as Connected and     *)
(* Connecting are, and stand for them here.  A datagram is what DTLS or    *)
(* srtp make of it: "flight" the part of the handshake that completes it,  *)
(* "app" a DTLS record with data, "alert" and "close" the two that end a   *)
(* session, "media" RTP or RTCP.                                           *)
(***************************************************************************)
EXTENDS Integers, Sequences

CONSTANTS
  Setups,        \* setup attributes of a remote description
  Datagrams,     \* kinds of datagrams that arrive
  MaxCandidates, \* bound: what the agent gathers, the end included
  MaxChanges,    \* bound: changes of the ICE state
  MaxDatagrams,  \* bound: datagrams that arrive
  MaxMessages    \* bound: messages of the SCTP session

ASSUME TransportAssumption ==
  /\ Setups \subseteq {"active", "passive", "actpass", "holdconn"}
  /\ Datagrams \subseteq {"flight", "app", "alert", "close", "media"}
  /\ MaxCandidates \in Nat /\ MaxChanges \in Nat
  /\ MaxDatagrams \in Nat /\ MaxMessages \in Nat

VARIABLES
  state,           \* RTCTransportState
  pending_events,
  told,            \* state() when TransportStateChanged was last returned
  remote_state,    \* "none", or whether more remote candidates may come
  setup,
  candidates_gathered,
  dtls,            \* DTLSState, "None" when torn down
  dtls_buffer,     \* datagrams DTLS has not read yet
  srtp_in,
  backend,         \* the shared SenderBackend, "gone" when torn down
  ice,             \* state of the component, "absent" when torn down
  pc,              \* where poll_next is
  panicked,        \* the assertion or panic that ended the task
  woken,           \* the task has a reason to poll
  local,           \* channels of the agent: what it gathered,
  changes,         \*   the changes of the ICE state,
  incoming,        \*   and the datagrams
  control,         \* the channel of the SCTP session
  budget           \* what the agent and the session may still do

report == <<state, pending_events, told>>
remote == <<remote_state, setup>>
secure == <<dtls, dtls_buffer, srtp_in, backend>>
agent  == <<local, changes, incoming>>
task   == <<pc, panicked, woken>>
vars == <<report, remote, candidates_gathered, secure, ice, task, agent, control, budget>>

IceStates == {"Disconnected", "Connecting", "Connected", "Failed"}
Changed == "TransportStateChanged"

Init ==
  /\ state = "Disconnected" /\ pending_events = << >> /\ told = "Disconnected"
  /\ remote_state = "none" /\ setup = "Unset" /\ candidates_gathered = FALSE
  /\ dtls = "Uninitialized" /\ dtls_buffer = << >>
  /\ srtp_in = FALSE /\ backend = "absent" /\ ice = "Disconnected"
  /\ pc = "idle" /\ panicked = "no" /\ woken = TRUE
  /\ local = << >> /\ changes = << >> /\ incoming = << >> /\ control = << >>
  /\ budget = [candidates |-> MaxCandidates, changes |-> MaxChanges,
               datagrams |-> MaxDatagrams, messages |-> MaxMessages]
-----------------------------------------------------------------------------
(***************************************************************************)
(* State and tear down.                                                    *)
(***************************************************************************)
\* Faulty: connected as soon as ICE is.
StateOfIce(i, d) == i

StateOf(i, d) == IF i = "Connected" /\ d # "Connected" THEN "Connecting" ELSE i

\* Faulty: the state changes and nothing reports it.
UpdateStateSilently(i, d) ==
  /\ state' = StateOf(i, d)
  /\ UNCHANGED pending_events

\* update_state with the component and the DTLS state at this point.
UpdateState(i, d) ==
  /\ state' = StateOf(i, d)
  /\ pending_events' = IF state' # state THEN Append(pending_events, Changed)
                                         ELSE pending_events

\* Faulty: the senders keep the srtp session.
FailureTearDownKeepingBackend ==
  /\ state' = "Failed" /\ dtls' = "None" /\ dtls_buffer' = << >>
  /\ ice' = "absent" /\ local' = << >> /\ changes' = << >> /\ incoming' = << >>
  /\ UNCHANGED <<srtp_in, backend>>

\* Faulty: what DTLS has not read yet stays.
FailureTearDownKeepingBuffer ==
  /\ state' = "Failed" /\ dtls' = "None" /\ backend' = "gone"
  /\ ice' = "absent" /\ local' = << >> /\ changes' = << >> /\ incoming' = << >>
  /\ UNCHANGED <<srtp_in, dtls_buffer>>

\* Dropping the ice stream drops its channels.
FailureTearDown ==
  /\ state' = "Failed" /\ dtls' = "None" /\ dtls_buffer' = << >> /\ backend' = "gone"
  /\ ice' = "absent" /\ local' = << >> /\ changes' = << >> /\ incoming' = << >>
  /\ UNCHANGED srtp_in

\* Poll::Ready(Some(..)): the peer connection polls again at once.
Ready == pc' = "idle" /\ woken' = TRUE /\ UNCHANGED panicked

Panic(what) == panicked' = what /\ pc' = "idle" /\ UNCHANGED woken

Goto(stage) == pc' = stage /\ UNCHANGED <<panicked, woken>>

\* failure_tear_down followed by return Poll::Ready(TransportStateChanged).
FailAndReturn ==
  /\ FailureTearDown /\ Ready
  /\ told' = "Failed"
  /\ UNCHANGED <<pending_events, remote, candidates_gathered, control, budget>>
-----------------------------------------------------------------------------
(***************************************************************************)
(* Calls of the peer connection, between two polls.                        *)
(***************************************************************************)
Calling == pc = "idle" /\ panicked = "no"

\* Faulty: actpass is answered with actpass.
MirroredSetup(s) ==
  CASE s = "passive" -> "Active" [] s = "active" -> "Passive"
    [] s = "actpass" -> "Actpass" [] s = "holdconn" -> "Holdconn"

\* ACT_PASS_DEFAULT_SETUP_TYPE is Passive.
LocalSetup(s) ==
  CASE s = "passive" -> "Active" [] s = "active" -> "Passive"
    [] s = "actpass" -> "Passive" [] s = "holdconn" -> "Holdconn"

\* Only the first description does anything; setup is written nowhere
\* else, so its other arms are never taken.  A candidate with a name or an
\* unknown component ends the call before end-of-candidates is looked at.
ApplyRemoteDescription(s, end_of_candidates) ==
  /\ Calling /\ remote_state = "none"
  /\ setup' = LocalSetup(s)
  /\ remote_state' = IF end_of_candidates THEN "gathered" ELSE "open"
  /\ UNCHANGED <<report, candidates_gathered, secure, ice, task, agent, control, budget>>

\* add_remote_candidate(None); a candidate goes to the agent and leaves
\* the transport as it is.
AddEndOfCandidates ==
  /\ Calling /\ state # "Failed" /\ remote_state = "open"
  /\ remote_state' = "gathered"
  /\ UNCHANGED <<report, setup, candidates_gathered, secure, ice, task, agent, control, budget>>
-----------------------------------------------------------------------------
(***************************************************************************)
(* poll_next.                                                              *)
(***************************************************************************)
\* Faulty: a transport that failed is polled on.
NeverOver == FALSE

Over == state = "Failed"

Polled == pc = "idle" /\ panicked = "no" /\ woken

PollPending ==
  /\ Polled /\ pending_events # << >>
  /\ Head(pending_events) = Changed
  /\ pending_events' = Tail(pending_events) /\ told' = state
  /\ UNCHANGED <<state, remote, candidates_gathered, secure, ice, task, agent, control, budget>>

PollFailed ==
  /\ Polled /\ pending_events = << >> /\ Over
  /\ woken' = FALSE
  /\ UNCHANGED <<report, remote, candidates_gathered, secure, ice, pc, panicked, agent, control, budget>>

PollBegins ==
  /\ Polled /\ pending_events = << >> /\ ~Over
  /\ woken' = FALSE /\ pc' = "gather"
  /\ UNCHANGED <<report, remote, candidates_gathered, secure, ice, panicked, agent, control, budget>>

PollGathering ==
  /\ pc = "gather"
  /\ IF ~candidates_gathered /\ local # << >>
       THEN /\ local' = Tail(local)
            /\ candidates_gathered' = (Head(local) = "end")
            /\ Ready
       ELSE Goto("ice") /\ UNCHANGED <<local, candidates_gathered>>
  /\ UNCHANGED <<report, remote, secure, ice, changes, incoming, control, budget>>

PollIceFails ==
  /\ pc = "ice" /\ changes # << >> /\ Head(changes) \in {"Failed", "end"}
  /\ FailAndReturn

PollIceChanges ==
  /\ pc = "ice" /\ changes # << >> /\ Head(changes) \notin {"Failed", "end"}
  /\ ice' = Head(changes) /\ changes' = Tail(changes)
  /\ UpdateState(ice', dtls)
  /\ Ready
  /\ UNCHANGED <<told, remote, candidates_gathered, secure, local, incoming, control, budget>>

PollIceQuiet ==
  /\ pc = "ice" /\ changes = << >>
  /\ Goto("data")
  /\ UNCHANGED <<report, remote, candidates_gathered, secure, ice, agent, control, budget>>

\* process_incoming_data returns an event: the peer connection polls again.
PollMedia ==
  /\ pc = "data" /\ incoming # << >> /\ Head(incoming) = "media"
  /\ incoming' = Tail(incoming)
  /\ IF srtp_in THEN Ready ELSE UNCHANGED task
  /\ UNCHANGED <<report, remote, candidates_gathered, secure, ice, local, changes, control, budget>>

\* Faulty: one datagram per poll.
OneDatagram == Goto("dtls")

AllDatagrams == UNCHANGED task

PollDtlsDatagram ==
  /\ pc = "data" /\ incoming # << >> /\ Head(incoming) \notin {"media", "end"}
  /\ incoming' = Tail(incoming)
  /\ dtls_buffer' = Append(dtls_buffer, Head(incoming))
  /\ AllDatagrams
  /\ UNCHANGED <<report, remote, candidates_gathered, dtls, srtp_in, backend, ice, local, changes,
                 control, budget>>

PollStreamEnds ==
  /\ pc = "data" /\ incoming # << >> /\ Head(incoming) = "end"
  /\ FailAndReturn

PollNoData ==
  /\ pc = "data" /\ incoming = << >>
  /\ Goto("dtls")
  /\ UNCHANGED <<report, remote, candidates_gathered, secure, ice, agent, control, budget>>
-----------------------------------------------------------------------------
(***************************************************************************)
(* The DTLS part of poll_next.  A call into OpenSSL reads the buffer one   *)
(* datagram at a time; nobody else touches what it uses in between.        *)
(***************************************************************************)
PollUninitialized ==
  /\ pc = "dtls" /\ dtls = "Uninitialized" /\ ice # "Connected"
  /\ Goto("control")
  /\ UNCHANGED <<report, remote, candidates_gathered, secure, ice, agent, control, budget>>

BeginHandshake ==
  /\ pc = "dtls" /\ dtls = "Uninitialized" /\ ice = "Connected"
  /\ IF setup \in {"Active", "Passive"}
       THEN dtls' = "Handshake" /\ UNCHANGED task
       ELSE Panic("setup") /\ UNCHANGED dtls
  /\ UNCHANGED <<report, remote, candidates_gathered, dtls_buffer, srtp_in, backend, ice, agent,
                 control, budget>>

HandshakeWouldBlock ==
  /\ pc = "dtls" /\ dtls = "Handshake" /\ dtls_buffer = << >>
  /\ Goto("control")
  /\ UNCHANGED <<report, remote, candidates_gathered, secure, ice, agent, control, budget>>

\* A record that comes before the handshake is over cannot be decrypted.
HandshakeSkips ==
  /\ pc = "dtls" /\ dtls = "Handshake" /\ dtls_buffer # << >> /\ Head(dtls_buffer) = "app"
  /\ dtls_buffer' = Tail(dtls_buffer)
  /\ UNCHANGED <<report, remote, candidates_gathered, dtls, srtp_in, backend, ice, task, agent,
                 control, budget>>

\* update_state queues its event and pop_front takes it back at once; if
\* the state stays what it was the poll goes on.
HandshakeSucceeds ==
  /\ pc = "dtls" /\ dtls = "Handshake" /\ dtls_buffer # << >> /\ Head(dtls_buffer) = "flight"
  /\ dtls_buffer' = Tail(dtls_buffer)
  /\ srtp_in' = TRUE /\ backend' = "present" /\ dtls' = "Connected"
  /\ state' = StateOf(ice, "Connected")
  /\ IF state' # state THEN Ready /\ told' = state' ELSE Goto("control") /\ UNCHANGED told
  /\ UNCHANGED <<pending_events, remote, candidates_gathered, ice, agent, control, budget>>

\* An alert, or srtp refuses the keys: the tear down leaves no DTLS state
\* behind, and the assertion after process_dtls_handshake_result fails.
HandshakeFails ==
  /\ pc = "dtls" /\ dtls = "Handshake" /\ dtls_buffer # << >> /\ Head(dtls_buffer) # "app"
  /\ FailureTearDown
  /\ Panic("dtls")
  /\ UNCHANGED <<pending_events, told, remote, candidates_gathered, control, budget>>

ReadDtls ==
  /\ pc = "dtls" /\ dtls = "Connected" /\ dtls_buffer # << >>
  /\ Head(dtls_buffer) \in {"app", "flight"}
  /\ dtls_buffer' = Tail(dtls_buffer)
  /\ IF Head(dtls_buffer) = "app" THEN Ready ELSE UNCHANGED task
  /\ UNCHANGED <<report, remote, candidates_gathered, dtls, srtp_in, backend, ice, agent, control,
                 budget>>

ReadDtlsEnds ==
  /\ pc = "dtls" /\ dtls = "Connected" /\ dtls_buffer # << >>
  /\ Head(dtls_buffer) \in {"close", "alert"}
  /\ FailAndReturn

ReadDtlsWouldBlock ==
  /\ pc = "dtls" /\ dtls = "Connected" /\ dtls_buffer = << >>
  /\ Goto("control")
  /\ UNCHANGED <<report, remote, candidates_gathered, secure, ice, agent, control, budget>>
-----------------------------------------------------------------------------
(***************************************************************************)
(* The control channel, and the end of a poll: every channel that was      *)
(* empty has registered the task.                                          *)
(***************************************************************************)
\* SendMessage: written, or dropped without a connected session.
PollControl ==
  /\ pc = "control" /\ control # << >>
  /\ control' = Tail(control)
  /\ UNCHANGED <<report, remote, candidates_gathered, secure, ice, task, agent, budget>>

PollControlFails ==
  /\ pc = "control" /\ control # << >> /\ dtls = "Connected"
  /\ FailureTearDown /\ Ready
  /\ told' = "Failed" /\ control' = Tail(control)
  /\ UNCHANGED <<pending_events, remote, candidates_gathered, budget>>

PollEnds ==
  /\ pc = "control" /\ control = << >>
  /\ pc' = "idle" /\ woken' = (woken \/ pending_events # << >>)
  /\ UNCHANGED <<report, remote, candidates_gathered, secure, ice, panicked, agent, control, budget>>
-----------------------------------------------------------------------------
(***************************************************************************)
(* The ICE agent and the SCTP session.  The agent connects only after it   *)
(* was given the remote credentials, with the first description.           *)
(***************************************************************************)
Spend(what) == budget[what] > 0 /\ budget' = [budget EXCEPT ![what] = @ - 1]

AgentLeaves == UNCHANGED <<report, remote, candidates_gathered, secure, ice, pc, panicked>>

AgentGathers ==
  /\ ice # "absent" /\ Spend("candidates")
  /\ local' = Append(local, IF budget'.candidates = 0 THEN "end" ELSE "candidate")
  /\ woken' = TRUE
  /\ AgentLeaves /\ UNCHANGED <<changes, incoming, control>>

\* The state of the component as the agent has it.
AgentState == IF changes = << >> THEN ice ELSE changes[Len(changes)]

AgentChanges(s) ==
  /\ AgentState \notin {"absent", "Failed", "end", s}
  /\ s = "Connected" => remote_state # "none"
  /\ Spend("changes") /\ changes' = Append(changes, s)
  /\ woken' = TRUE
  /\ AgentLeaves /\ UNCHANGED <<local, incoming, control>>

AgentReceives(d) ==
  /\ ice # "absent"
  /\ \A i \in DOMAIN incoming : incoming[i] # "end"
  /\ d # "end" => remote_state # "none"
  /\ Spend("datagrams") /\ incoming' = Append(incoming, d)
  /\ woken' = TRUE
  /\ AgentLeaves /\ UNCHANGED <<local, changes, control>>

SessionSends ==
  /\ Spend("messages") /\ control' = Append(control, "message")
  /\ woken' = TRUE
  /\ AgentLeaves /\ UNCHANGED agent
-----------------------------------------------------------------------------
Poll ==
  \/ PollPending \/ PollFailed \/ PollBegins \/ PollGathering
  \/ PollIceFails \/ PollIceChanges \/ PollIceQuiet
  \/ PollMedia \/ PollDtlsDatagram \/ PollStreamEnds \/ PollNoData
  \/ PollUninitialized \/ BeginHandshake
  \/ HandshakeWouldBlock \/ HandshakeSkips \/ HandshakeSucceeds \/ HandshakeFails
  \/ ReadDtls \/ ReadDtlsEnds \/ ReadDtlsWouldBlock
  \/ PollControl \/ PollControlFails \/ PollEnds

Calls ==
  \/ \E s \in Setups, end \in BOOLEAN : ApplyRemoteDescription(s, end)
  \/ AddEndOfCandidates

Environment ==
  \/ AgentGathers
  \/ \E s \in IceStates \cup {"end"} : AgentChanges(s)
  \/ \E d \in Datagrams \cup {"end"} : AgentReceives(d)
  \/ SessionSends

Next == Poll \/ Calls \/ Environment

Spec == Init /\ [][Next]_vars

\* The executor polls a task that was woken, and finishes the poll.
FairSpec == Spec /\ WF_vars(Poll)
-----------------------------------------------------------------------------
(***************************************************************************)
(* Properties.                                                             *)
(***************************************************************************)
Stages == {"idle", "gather", "ice", "data", "dtls", "control"}

\* Type correctness; setup is decided by the first description and is
\* never the Actpass the debug_assert of apply_remote_description excludes.
TypeOK ==
  /\ state \in {"Disconnected", "Connecting", "Connected", "Failed"}
  /\ told \in {"Disconnected", "Connecting", "Connected", "Failed"}
  /\ pending_events \in Seq({Changed})
  /\ remote_state \in {"none", "open", "gathered"}
  /\ setup \in {"Unset", "Active", "Passive", "Holdconn"}
  /\ setup = "Unset" <=> remote_state = "none"
  /\ candidates_gathered \in BOOLEAN
  /\ dtls \in {"None", "Uninitialized", "Handshake", "Connected"}
  /\ dtls_buffer \in Seq(Datagrams)
  /\ srtp_in \in BOOLEAN /\ backend \in {"absent", "present", "gone"}
  /\ ice \in (IceStates \ {"Failed"}) \cup {"absent"}
  /\ pc \in Stages /\ panicked \in {"no", "setup", "dtls"} /\ woken \in BOOLEAN
  /\ local \in Seq({"candidate", "end"})
  /\ changes \in Seq(IceStates \cup {"end"})
  /\ incoming \in Seq(Datagrams \cup {"end"})
  /\ control \in Seq({"message"})
  /\ budget \in [candidates : Nat, changes : Nat, datagrams : Nat, messages : Nat]

\* Between two polls, when no event is queued, the peer connection has been
\* told of the state the transport is in: no change is lost between the
\* queue of events and the events the branches return themselves.
StateIsTold == Calling /\ pending_events = << >> => told = state

\* A transport is Connected exactly while ICE is connected and DTLS is, and
\* then media can be decrypted and the senders can encrypt theirs; it falls
\* back and recovers with ICE without a second handshake.
ConnectedIsSecure ==
  (state = "Connected" /\ panicked = "no") =>
     /\ ice = "Connected" /\ dtls = "Connected"
     /\ srtp_in /\ backend = "present"

\* After a failure nothing is left of the session: no ICE stream, no DTLS
\* state or unread record, no srtp session in the hands of a sender.
NothingOutlivesFailure ==
  state = "Failed" => /\ ice = "absent" /\ dtls = "None" /\ dtls_buffer = << >>
                      /\ backend = "gone"

\* Each `expect` and `unwrap` of poll_next and add_remote_candidate finds
\* what it expects: the ice stream in every stage that uses it and in every
\* call on a transport that has not failed, the DTLS state in the DTLS part.
ExpectationsMet ==
  /\ pc \in {"gather", "ice", "data", "dtls"} => ice # "absent"
  /\ (Calling /\ state # "Failed") => ice # "absent"
  /\ pc = "dtls" => dtls # "None"

Life == INSTANCE TransportLife WITH told <- told, backend <- backend

\* The transport is what TransportLife promises to the peer connection and
\* to the senders, which model it as TransportConnected and TransportTornDown.
LifePromised == Life!Spec

Down == state = "Failed" \/ panicked # "no"

\* No wake up is lost: what the agent or the SCTP session has put into a
\* channel is taken out of it, unless the transport fails first.
Served == (incoming # << >> \/ control # << >> \/ changes # << >>)
            ~> ((incoming = << >> /\ control = << >> /\ changes = << >>) \/ Down)

\* "process_dtls_handshake_result must set the DTLS state again!"
\* (transport/mod.rs:707 and 719): the assertion behind it does not fail.
HandshakeKeepsState == panicked # "dtls"
=============================================================================
