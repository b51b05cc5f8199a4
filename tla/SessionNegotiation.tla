-------------------------- MODULE SessionNegotiation --------------------------
(***************************************************************************)
(* Session and SessionManager (p2p/base/session.cc, sessionmanager.cc):    *)
(* the negotiation of one session between the client that initiates it and *)
(* the resources it may be answered from, over an XMPP server that may     *)
(* reorder stanzas, answer them with an error, or not at all in time       *)
(* (p2p/client/sessionsendtask.h).                                         *)
(*                                                                         *)
(* A handler of the signaling thread is one action.  What it posts to      *)
(* itself (MSG_STATE, MSG_ERROR, and Transport's MSG_CONNECTING) waits in  *)
(* `queue', so that other handlers run before it is dispatched; the one    *)
(* delayed message, MSG_TIMEOUT, is `timer' until it is dispatched.  The   *)
(* code is modelled as it goes on after a failed ASSERT;                   *)
(* ExpectedMessagesOnly says when one fails.                               *)
(***************************************************************************)
EXTENDS Naturals, Sequences, FiniteSets

CONSTANTS Initiator,   \* the JID of the client that initiates
          Responders,  \* the full JIDs that may answer
          Bare,        \* the bare JIDs it may call, which the server answers for
          SameBare,    \* the responders that have one of those bare JIDs
          Candidates,  \* bound: the transport candidates a peer may gather
          Watched,     \* bound: the peers whose requests and transport time out
          Verdicts,    \* how a responder may take an initiate
          Gingle,      \* whether the peers speak Gingle, or Jingle
          MaxBounces,  \* bound: how many stanzas to a peer the server refuses
          Ending,      \* the peers whose client may call TerminateAll
          None

Peers == {Initiator} \cup Responders
Jids  == Peers \cup Bare

ASSUME SessionAssumption ==
  /\ Initiator \notin Responders
  /\ Bare \cap Peers = {}
  /\ None \notin Jids
  /\ SameBare \subseteq Responders
  /\ Watched \cup Ending \subseteq Peers
  /\ Verdicts \subseteq {"ok", "reject", "no_client", "bad_content"}
  /\ Gingle \in BOOLEAN
  /\ MaxBounces \in Nat

VARIABLES state,     \* state_, NONE before the session exists and GONE after
          remote,    \* remote_name_
          acked,     \* initiate_acked_ of the initiator
          tstate,    \* TransportProxy::state_
          gathered,  \* the candidates a peer's transport has reported
          unsent,    \* unsent_candidates_
          sentc,     \* sent_candidates_
          got,       \* the remote candidates handed to the transport
          writable,  \* Transport::writable()
          timer,     \* a delayed MSG_TIMEOUT is pending
          queue,     \* the signaling thread's messages for the session
          net,       \* stanzas in flight
          pending,   \* requests whose SessionSendTask waits for an answer
          bounces,   \* stanzas to a peer that the server has refused
          ending     \* the client's thread is in SessionManager::TerminateAll

session   == <<state, remote, acked, queue>>
transport == <<tstate, gathered, unsent, sentc, got, writable, timer>>
vars == <<state, remote, acked, tstate, gathered, unsent, sentc, got, writable,
          timer, queue, net, pending, bounces, ending>>

States == {"NONE", "INIT", "SENTINITIATE", "RECEIVEDINITIATE", "SENTACCEPT",
           "RECEIVEDACCEPT", "SENTREJECT", "RECEIVEDREJECT", "SENTTERMINATE",
           "RECEIVEDTERMINATE", "INPROGRESS", "GONE"}
Terminated == {"SENTTERMINATE", "RECEIVEDTERMINATE"}
Rejected   == {"SENTREJECT", "RECEIVEDREJECT"}
Types == {"initiate", "accept", "reject", "terminate", "transport-info"}

\* A stanza.  An answer carries the request it answers, as error stanzas do,
\* and travels back to its sender; redirect is the error of that name.
Kinds == {"set", "result", "error", "wait", "redirect"}
Stanza == [kind : Kinds, type : Types, from : Peers, to : Jids \cup {None},
           cands : SUBSET Candidates, target : Responders \cup {None}]

Request(type, from, to, cands) ==
  [kind |-> "set", type |-> type, from |-> from, to |-> to, cands |-> cands,
   target |-> None]
Answer(m, kind) == [m EXCEPT !.kind = kind]
RequestOf(m)    == [m EXCEPT !.kind = "set", !.target = None]

Exists(p)   == state[p] \notin {"NONE", "GONE"}
Found(p, r) == Exists(p) /\ remote[p] = r    \* SessionManager::FindSession

\* ToJingleString: "reject and terminate both go to session-terminate".
RejectType == IF Gingle THEN "reject" ELSE "terminate"

Init ==
  /\ state = [p \in Peers |-> IF p = Initiator THEN "INIT" ELSE "NONE"]
  /\ remote = [p \in Peers |-> None]
  /\ acked = FALSE
  /\ tstate = [p \in Peers |-> "INIT"]
  /\ gathered = [p \in Peers |-> {}]
  /\ unsent = [p \in Peers |-> {}]
  /\ sentc = [p \in Peers |-> {}]
  /\ got = [p \in Peers |-> {}]
  /\ writable = [p \in Peers |-> FALSE]
  /\ timer = [p \in Peers |-> FALSE]
  /\ queue = [p \in Peers |-> <<>>]
  /\ net = {}
  /\ pending = {}
  /\ bounces = 0
  /\ ending = [p \in Peers |-> FALSE]

-------------------------------------------------------------------------------
\* What a handler sends goes to the network, and waits for its answers.
Send(reqs) == net' = net \cup reqs /\ pending' = pending \cup reqs

\* The answer to the request m, and the requests that its handler sends.  An
\* answer that no task waits for is as good as lost.
Wanted(m)   == IF RequestOf(m) \in pending THEN {m} ELSE {}
Unwanted(r) == {m \in net : m.kind # "set" /\ RequestOf(m) = r}
Reply(m, kind, reqs) ==
  /\ net' = (net \ {m}) \cup Wanted(Answer(m, kind)) \cup reqs
  /\ pending' = pending \cup reqs

\* SetState: a change of state posts MSG_STATE.
Posted(p, s)   == IF s = state[p] THEN <<>> ELSE <<"STATE">>
SetState(p, s) == state' = [state EXCEPT ![p] = s]
Post(p, msgs)  == queue' = [queue EXCEPT ![p] = @ \o msgs]

\* ConnectChannels: the first call makes the transport post MSG_CONNECTING.
Connecting(p) == IF tstate[p] = "INIT" THEN <<"CONNECTING">> ELSE <<>>

\* OnInitiateAcked sends the candidates held back until then.
Unsent(p) == IF unsent[p] = {} THEN {}
             ELSE {Request("transport-info", p, remote[p], unsent[p])}
InitiateAcked(p) ==
  /\ acked' = TRUE
  /\ unsent' = [unsent EXCEPT ![p] = IF acked THEN @ ELSE {}]
\* Mutant: the held-back candidates are forgotten.
AckedSends_Dropped(p) == {}
AckedSends(p) == IF acked THEN {} ELSE Unsent(p)

(***************************************************************************)
(* The client's calls.                                                     *)
(***************************************************************************)
\* Mutant: the check for STATE_INIT is dropped.
Initiate_AnyState(r) ==
  LET p == Initiator IN
  /\ Exists(p)
  /\ remote' = [remote EXCEPT ![p] = r]
  /\ Send({Request("initiate", p, r, {})})
  /\ SetState(p, "SENTINITIATE")
  /\ Post(p, <<"STATE">> \o Connecting(p))
  /\ tstate' = [tstate EXCEPT ![p] = "CONNECTING"]
  /\ UNCHANGED <<acked, gathered, unsent, sentc, got, writable, timer, bounces, ending>>
Initiate(r) ==
  LET p == Initiator IN
  /\ state[p] = "INIT"
  /\ remote' = [remote EXCEPT ![p] = r]
  /\ Send({Request("initiate", p, r, {})})
  /\ SetState(p, "SENTINITIATE")
  /\ Post(p, <<"STATE">> \o Connecting(p))
  /\ tstate' = [tstate EXCEPT ![p] = "CONNECTING"]
  /\ UNCHANGED <<acked, gathered, unsent, sentc, got, writable, timer, bounces, ending>>

\* Mutant: the accept is sent, the state is not set.
Accept_KeepsState(p) ==
  /\ state[p] = "RECEIVEDINITIATE"
  /\ Send({Request("accept", p, remote[p], {})})
  /\ UNCHANGED <<session, transport, bounces, ending>>
Accept(p) ==
  /\ state[p] = "RECEIVEDINITIATE"
  /\ Send({Request("accept", p, remote[p], {})})
  /\ SetState(p, "SENTACCEPT")
  /\ Post(p, <<"STATE">>)
  /\ UNCHANGED <<remote, acked, transport, bounces, ending>>

Reject(p) ==
  /\ state[p] = "RECEIVEDINITIATE"
  /\ Send({Request(RejectType, p, remote[p], {})})
  /\ SetState(p, "SENTREJECT")
  /\ Post(p, <<"STATE">>)
  /\ UNCHANGED <<remote, acked, transport, bounces, ending>>

\* TerminateWithReason, without its caller's effect on the queue: nothing when
\* already terminated, no message after a reject.
TerminateSends(p) ==
  IF state[p] \in Rejected \cup Terminated THEN {}
  ELSE {Request("terminate", p, remote[p], {})}
TerminatedState(p) ==
  IF state[p] \in Terminated THEN state[p] ELSE "SENTTERMINATE"

Terminate(p) ==
  /\ Exists(p)
  /\ state[p] \notin Terminated
  /\ Send(TerminateSends(p))
  /\ SetState(p, "SENTTERMINATE")
  /\ Post(p, <<"STATE">>)
  /\ UNCHANGED <<remote, acked, transport, bounces, ending>>

\* SessionManager::TerminateAll, in which the thread dispatches no message: it
\* terminates the first session as long as the map holds one.
StartTerminateAll(p) ==
  /\ p \in Ending
  /\ ending' = [ending EXCEPT ![p] = TRUE]
  /\ UNCHANGED <<session, transport, net, pending, bounces>>

TerminateAll(p) ==
  /\ ending[p]
  /\ ending' = [ending EXCEPT ![p] = Exists(p)]
  /\ Send(IF Exists(p) THEN TerminateSends(p) ELSE {})
  /\ SetState(p, IF Exists(p) THEN TerminatedState(p) ELSE state[p])
  /\ Post(p, IF Exists(p) THEN Posted(p, TerminatedState(p)) ELSE <<>>)
  /\ UNCHANGED <<remote, acked, transport, bounces>>

(***************************************************************************)
(* The transport of a peer.                                                *)
(***************************************************************************)
\* Mutant: candidates do not wait for the acknowledgement.
CandidatesReady_Eager(p, c) ==
  /\ Exists(p)
  /\ tstate[p] # "INIT"
  /\ c \notin gathered[p]
  /\ gathered' = [gathered EXCEPT ![p] = @ \cup {c}]
  /\ Send({Request("transport-info", p, remote[p], {c})})
  /\ UNCHANGED <<session, tstate, unsent, sentc, got, writable, timer, bounces, ending>>

\* OnTransportCandidatesReady: "to work around server re-ordering messages",
\* the initiator holds its candidates back until the initiate is acked.
CandidatesReady(p, c) ==
  /\ Exists(p)
  /\ tstate[p] # "INIT"
  /\ c \notin gathered[p]
  /\ gathered' = [gathered EXCEPT ![p] = @ \cup {c}]
  /\ IF p = Initiator /\ ~acked
     THEN /\ unsent' = [unsent EXCEPT ![p] = @ \cup {c}]
          /\ UNCHANGED <<sentc, net, pending>>
     ELSE /\ sentc' = [sentc EXCEPT ![p] =
                          IF tstate[p] = "NEGOTIATED" THEN @ ELSE @ \cup {c}]
          /\ Send({Request("transport-info", p, remote[p], {c})})
          /\ UNCHANGED unsent
  /\ UNCHANGED <<session, tstate, got, writable, timer, bounces, ending>>

\* Nothing can be written where the peer has no transport for the session.
PeerListens(p) ==
  \E q \in Peers : /\ remote[p] = q
                   /\ Found(q, p)
                   /\ tstate[q] # "INIT"

\* OnTransportWritable clears a pending MSG_TIMEOUT, and starts the timer anew
\* when the transport is not writable.
WritableChange(p, now) ==
  /\ writable' = [writable EXCEPT ![p] = now]
  /\ timer' = [timer EXCEPT ![p] = ~now]
  /\ UNCHANGED <<session, tstate, gathered, unsent, sentc, got, net, pending,
                 bounces, ending>>

TransportWritable(p) ==
  /\ Exists(p)
  /\ tstate[p] # "INIT"
  /\ ~writable[p]
  /\ PeerListens(p)
  /\ WritableChange(p, TRUE)

TransportUnwritable(p) ==
  /\ Exists(p)
  /\ writable[p]
  /\ WritableChange(p, FALSE)

\* MSG_TIMEOUT: SetError(ERROR_TIME) posts MSG_ERROR.  An earlier MSG_ERROR has
\* been dispatched long before; a later one makes this one idle.
TimerFires(p) ==
  /\ timer[p]
  /\ \A i \in DOMAIN queue[p] : queue[p][i] # "ERROR"
  /\ timer' = [timer EXCEPT ![p] = FALSE]
  /\ Post(p, <<"ERROR">>)
  /\ UNCHANGED <<state, remote, acked, tstate, gathered, unsent, sentc, got,
                 writable, net, pending, bounces, ending>>

(***************************************************************************)
(* Stanzas from the peer: SessionManager::OnIncomingMessage.               *)
(***************************************************************************)
Delivered(m, type) == m \in net /\ m.kind = "set" /\ m.type = type

\* "unknown session", or CheckState fails: "message not allowed in current
\* state".  Only the initiate of an unknown session creates one.
Expected == [initiate |-> "INIT", accept |-> "SENTINITIATE",
             reject |-> "SENTINITIATE"]
Refuse(m) ==
  /\ m \in net
  /\ m.kind = "set"
  /\ m.to \in Peers
  /\ \/ ~Found(m.to, m.from) /\ m.type # "initiate"
     \/ /\ Found(m.to, m.from)
        /\ m.type \in DOMAIN Expected
        /\ state[m.to] # Expected[m.type]
  /\ Reply(m, "error", {})
  /\ UNCHANGED <<session, transport, bounces, ending>>

\* OnRemoteCandidates: "Must complete negotiation before sending remote
\* candidates".
RemoteCandidates(p, cs) ==
  /\ tstate' = [tstate EXCEPT ![p] = "NEGOTIATED"]
  /\ got' = [got EXCEPT ![p] = @ \cup cs]

\* An initiate of unknown content creates no session; one whose content does
\* not parse leaves the session it created as it is.
DeliverBadInitiate(m, verdict) ==
  /\ Delivered(m, "initiate")
  /\ m.to \in Peers
  /\ ~Found(m.to, m.from)
  /\ verdict \in Verdicts \cap {"no_client", "bad_content"}
  /\ SetState(m.to, IF verdict = "no_client" THEN state[m.to] ELSE "INIT")
  /\ Reply(m, "error", {})
  /\ UNCHANGED <<remote, acked, queue, transport, bounces, ending>>

DeliverInitiate(m) ==
  LET p == m.to IN
  /\ Delivered(m, "initiate")
  /\ p \in Peers
  /\ ~Found(p, m.from)
  /\ "ok" \in Verdicts
  /\ SetState(p, "RECEIVEDINITIATE")
  /\ remote' = [remote EXCEPT ![p] = m.from]
  /\ Post(p, <<"STATE">> \o Connecting(p))
  /\ RemoteCandidates(p, m.cands)
  /\ Reply(m, "result", {})
  /\ UNCHANGED <<acked, gathered, unsent, sentc, writable, timer, bounces, ending>>

\* Mutant: the caller's state set last, over the one the callback set.
DeliverUnwanted_Overwritten(m) ==
  LET p == m.to IN
  /\ Delivered(m, "initiate")
  /\ p \in Peers
  /\ ~Found(p, m.from)
  /\ "reject" \in Verdicts
  /\ SetState(p, "RECEIVEDINITIATE")
  /\ remote' = [remote EXCEPT ![p] = m.from]
  /\ Post(p, <<"STATE", "STATE">>)
  /\ Reply(m, "result", {Request(RejectType, p, m.from, {})})
  /\ UNCHANGED <<acked, transport, bounces, ending>>

\* "Users of Session may listen to state change and call Reject()": both state
\* changes post a message.
DeliverUnwanted(m) ==
  LET p == m.to IN
  /\ Delivered(m, "initiate")
  /\ p \in Peers
  /\ ~Found(p, m.from)
  /\ "reject" \in Verdicts
  /\ SetState(p, "SENTREJECT")
  /\ remote' = [remote EXCEPT ![p] = m.from]
  /\ Post(p, <<"STATE", "STATE">>)
  /\ Reply(m, "result", {Request(RejectType, p, m.from, {})})
  /\ UNCHANGED <<acked, transport, bounces, ending>>

\* Mutant: the accept does not count as an acknowledgement.
DeliverAccept_Unacked(m) ==
  LET p == m.to IN
  /\ Delivered(m, "accept")
  /\ Found(p, m.from)
  /\ state[p] = "SENTINITIATE"
  /\ SetState(p, "RECEIVEDACCEPT")
  /\ Post(p, <<"STATE">> \o Connecting(p))
  /\ RemoteCandidates(p, m.cands)
  /\ Reply(m, "result", {})
  /\ UNCHANGED <<remote, acked, gathered, unsent, sentc, writable, timer, bounces,
                 ending>>

\* "If we get an accept, we can assume the initiate has been received."
DeliverAccept(m) ==
  LET p == m.to IN
  /\ Delivered(m, "accept")
  /\ Found(p, m.from)
  /\ state[p] = "SENTINITIATE"
  /\ InitiateAcked(p)
  /\ SetState(p, "RECEIVEDACCEPT")
  /\ Post(p, <<"STATE">> \o Connecting(p))
  /\ RemoteCandidates(p, m.cands)
  /\ Reply(m, "result", AckedSends(p))
  /\ UNCHANGED <<remote, gathered, sentc, writable, timer, bounces, ending>>

DeliverReject(m) ==
  /\ Delivered(m, "reject")
  /\ Found(m.to, m.from)
  /\ state[m.to] = "SENTINITIATE"
  /\ SetState(m.to, "RECEIVEDREJECT")
  /\ Post(m.to, <<"STATE">>)
  /\ Reply(m, "result", {})
  /\ UNCHANGED <<remote, acked, transport, bounces, ending>>

DeliverTerminate(m) ==
  /\ Delivered(m, "terminate")
  /\ Found(m.to, m.from)
  /\ SetState(m.to, "RECEIVEDTERMINATE")
  /\ Post(m.to, Posted(m.to, "RECEIVEDTERMINATE"))
  /\ Reply(m, "result", {})
  /\ UNCHANGED <<remote, acked, transport, bounces, ending>>

DeliverTransportInfo(m) ==
  /\ Delivered(m, "transport-info")
  /\ Found(m.to, m.from)
  /\ RemoteCandidates(m.to, m.cands)
  /\ Post(m.to, Connecting(m.to))
  /\ Reply(m, "result", {})
  /\ UNCHANGED <<state, remote, acked, gathered, unsent, sentc, writable,
                 timer, bounces, ending>>

(***************************************************************************)
(* Answers to the peer's own requests.  SessionSendTask gives up after 15  *)
(* seconds and quietly drops what comes later; SessionManager looks the    *)
(* session up by the JID the request was sent to.                          *)
(***************************************************************************)
Answered(m, reqs) ==
  /\ net' = (net \ {m}) \cup reqs
  /\ pending' = (pending \ {RequestOf(m)}) \cup reqs
Heard(m) == Found(m.from, m.to)

ReceiveResult(m) ==
  LET p == m.from
      initiate == Heard(m) /\ m.type = "initiate"
  IN
  /\ m \in net
  /\ m.kind = "result"
  /\ IF initiate THEN InitiateAcked(p) ELSE UNCHANGED <<acked, unsent>>
  /\ Answered(m, IF initiate THEN AckedSends(p) ELSE {})
  /\ UNCHANGED <<state, remote, queue, tstate, gathered, sentc, got, writable,
                 timer, bounces, ending>>

\* OnFailedSend: errors of a transport-info, and those that say wait, are
\* ignored; any other one ends the session.
Fatal(m) == m.kind = "error" /\ m.type # "transport-info"

\* OnRedirectError goes to a JID with the same bare JID, before an accept.
MayRedirect(m) ==
  /\ m.kind = "redirect"
  /\ state[m.from] = "SENTINITIATE"
  /\ m.target \in SameBare

ReceiveError(m) ==
  /\ m \in net
  /\ m.kind \in {"error", "wait", "redirect"}
  /\ ~(Heard(m) /\ MayRedirect(m))
  /\ Post(m.from, IF Heard(m) /\ (Fatal(m) \/ m.kind = "redirect")
                  THEN <<"ERROR">> ELSE <<>>)
  /\ Answered(m, {})
  /\ UNCHANGED <<state, remote, acked, transport, bounces, ending>>

\* The initiate and the sent candidates go to the new JID; initiate_acked_
\* stays as it is.
ReceiveRedirect(m) ==
  LET p == m.from
      resent == IF sentc[p] = {} THEN {}
                ELSE {Request("transport-info", p, m.target, sentc[p])}
  IN
  /\ m \in net
  /\ Heard(m)
  /\ MayRedirect(m)
  /\ remote' = [remote EXCEPT ![p] = m.target]
  /\ sentc' = [sentc EXCEPT ![p] = {}]
  /\ Answered(m, {Request("initiate", p, m.target, {})} \cup resent)
  /\ UNCHANGED <<state, acked, queue, tstate, gathered, unsent, got, writable,
                 timer, bounces, ending>>

\* OnTimeout: "A failed send is semantically equivalent to an error response".
SendTimeout(r) ==
  /\ r \in pending
  /\ pending' = pending \ {r}
  /\ Post(r.from, IF Found(r.from, r.to) /\ r.type # "transport-info"
                  THEN <<"ERROR">> ELSE <<>>)
  /\ net' = net \ Unwanted(r)
  /\ UNCHANGED <<state, remote, acked, transport, bounces, ending>>

(***************************************************************************)
(* The server.  It answers what is sent to a bare JID, or to none, and may *)
(* refuse a stanza to a peer.                                              *)
(***************************************************************************)
ServerAnswers(m, kind, target) ==
  /\ m \in net
  /\ m.kind = "set"
  /\ m.to \notin Peers
  /\ kind = "redirect" => m.type \in {"initiate", "transport-info"}
  /\ target = None <=> kind # "redirect"
  /\ net' = (net \ {m}) \cup Wanted([m EXCEPT !.kind = kind, !.target = target])
  /\ UNCHANGED <<session, transport, pending, bounces, ending>>

ServerRefuses(m, kind) ==
  /\ m \in net
  /\ m.kind = "set"
  /\ m.to \in Peers
  /\ bounces < MaxBounces
  /\ bounces' = bounces + 1
  /\ net' = (net \ {m}) \cup Wanted(Answer(m, kind))
  /\ UNCHANGED <<session, transport, pending, ending>>

(***************************************************************************)
(* Messages of the signaling thread: Session::OnMessage.                   *)
(***************************************************************************)
Taken(p, posted) == queue' = [queue EXCEPT ![p] = Tail(@) \o posted]
HeadIs(p, msg)   == queue[p] # <<>> /\ Head(queue[p]) = msg

\* Reject: "Assume clean termination."
DispatchState(p) ==
  LET s == IF state[p] \in {"SENTACCEPT", "RECEIVEDACCEPT"} THEN "INPROGRESS"
           ELSE IF state[p] \in Rejected THEN "SENTTERMINATE"
           ELSE state[p]
  IN
  /\ HeadIs(p, "STATE")
  /\ state[p] \notin Terminated
  /\ SetState(p, s)
  /\ Taken(p, Posted(p, s))
  /\ UNCHANGED <<remote, acked, transport, net, pending, bounces, ending>>

\* DestroySession, and the transport with the session: the answers that come
\* later find no session.
DispatchDestroy(p) ==
  /\ HeadIs(p, "STATE")
  /\ state[p] \in Terminated
  /\ SetState(p, "GONE")
  /\ remote' = [remote EXCEPT ![p] = None]
  /\ queue' = [queue EXCEPT ![p] = <<>>]
  /\ tstate' = [tstate EXCEPT ![p] = "INIT"]
  /\ gathered' = [gathered EXCEPT ![p] = {}]
  /\ unsent' = [unsent EXCEPT ![p] = {}]
  /\ sentc' = [sentc EXCEPT ![p] = {}]
  /\ got' = [got EXCEPT ![p] = {}]
  /\ writable' = [writable EXCEPT ![p] = FALSE]
  /\ timer' = [timer EXCEPT ![p] = FALSE]
  /\ pending' = {r \in pending : r.from # p}
  /\ net' = {m \in net : m.kind = "set" \/ m.from # p}
  /\ UNCHANGED <<acked, bounces, ending>>

\* TerminateWithReason(STR_TERMINATE_ERROR).
DispatchError(p) ==
  /\ HeadIs(p, "ERROR")
  /\ Send(TerminateSends(p))
  /\ SetState(p, TerminatedState(p))
  /\ Taken(p, Posted(p, TerminatedState(p)))
  /\ UNCHANGED <<remote, acked, transport, bounces, ending>>

\* Mutant: the time-out is not posted.
DispatchConnecting_NoTimer(p) ==
  /\ HeadIs(p, "CONNECTING")
  /\ Taken(p, <<>>)
  /\ UNCHANGED <<state, remote, acked, transport, net, pending, bounces, ending>>

\* OnTransportConnecting begins to watch the transport as OnTransportWritable.
DispatchConnecting(p) ==
  /\ HeadIs(p, "CONNECTING")
  /\ Taken(p, <<>>)
  /\ timer' = [timer EXCEPT ![p] = ~writable[p]]
  /\ UNCHANGED <<state, remote, acked, tstate, gathered, unsent, sentc, got,
                 writable, net, pending, bounces, ending>>

-------------------------------------------------------------------------------
Calls(p) ==
  \/ p = Initiator /\ \E r \in Responders \cup Bare : Initiate(r)
  \/ Accept(p)
  \/ Reject(p)
  \/ Terminate(p)
  \/ StartTerminateAll(p)

Watch(p) ==
  \/ \E c \in Candidates : CandidatesReady(p, c)
  \/ /\ p \in Watched
     /\ TransportWritable(p) \/ TransportUnwritable(p) \/ TimerFires(p)

Dispatch(p) ==
  \/ DispatchState(p)
  \/ DispatchDestroy(p)
  \/ DispatchError(p)
  \/ DispatchConnecting(p)

\* A stanza that the thread of its addressee reads.
Deliver(m) ==
  \/ Refuse(m)
  \/ DeliverInitiate(m)
  \/ DeliverUnwanted(m)
  \/ \E v \in Verdicts : DeliverBadInitiate(m, v)
  \/ DeliverAccept(m)
  \/ DeliverReject(m)
  \/ DeliverTerminate(m)
  \/ DeliverTransportInfo(m)
Receive(m) ==
  \/ ReceiveResult(m)
  \/ ReceiveError(m)
  \/ ReceiveRedirect(m)

Server(m) ==
  \/ \E kind \in {"result", "error", "wait", "redirect"},
        target \in Responders \cup {None} : ServerAnswers(m, kind, target)
  \/ \E kind \in {"error", "wait"} : ServerRefuses(m, kind)

Thread(p) ==
  /\ ~ending[p]
  /\ \/ Calls(p)
     \/ Watch(p)
     \/ Dispatch(p)
     \/ \E m \in net : m.to = p /\ Deliver(m)
     \/ \E m \in net : m.from = p /\ Receive(m)
     \/ \E r \in pending : r.from = p /\ p \in Watched /\ SendTimeout(r)

Next ==
  \/ \E p \in Peers : Thread(p) \/ TerminateAll(p)
  \/ \E m \in net : Server(m)

Spec == Init /\ [][Next]_vars

(***************************************************************************)
(* Fairness: a thread that is not in a call of its client dispatches its   *)
(* messages, and its timers fire.  A transport whose peer is gone gets no  *)
(* answer to its pings, and in the end stops being writable.  The network  *)
(* need not deliver anything in LocalFairness.                             *)
(***************************************************************************)
LocalFairness ==
  \A p \in Peers :
    /\ WF_vars(~ending[p] /\ Dispatch(p))
    /\ WF_vars(~ending[p] /\ p \in Watched /\ TimerFires(p))
    /\ WF_vars(~ending[p] /\ ~PeerListens(p) /\ TransportUnwritable(p))
    /\ WF_vars(TerminateAll(p))

EndingSpec == Spec /\ LocalFairness
FairSpec   == EndingSpec /\ WF_vars(\E p \in Peers, m \in net :
                /\ ~ending[p]
                /\ (m.to = p /\ Deliver(m)) \/ (m.from = p /\ Receive(m)))

-------------------------------------------------------------------------------
\* The types of the variables: a queue holds only what Session::OnMessage and
\* Transport::OnMessage know, and what is sent is a stanza.
TypeOK ==
  /\ state \in [Peers -> States]
  /\ remote \in [Peers -> Jids \cup {None}]
  /\ acked \in BOOLEAN
  /\ tstate \in [Peers -> {"INIT", "CONNECTING", "NEGOTIATED"}]
  /\ gathered \in [Peers -> SUBSET Candidates]
  /\ unsent \in [Peers -> SUBSET Candidates]
  /\ sentc \in [Peers -> SUBSET Candidates]
  /\ got \in [Peers -> SUBSET Candidates]
  /\ writable \in [Peers -> BOOLEAN]
  /\ timer \in [Peers -> BOOLEAN]
  /\ queue \in [Peers -> Seq({"STATE", "ERROR", "CONNECTING"})]
  /\ net \subseteq Stanza
  /\ pending \subseteq Stanza
  /\ bounces \in 0..MaxBounces
  /\ ending \in [Peers -> BOOLEAN]

Ended    == Terminated \cup {"GONE"}
Accepted == {"SENTACCEPT", "INPROGRESS"} \cup Ended

\* An initiator that has received an accept is not alone in the call: the
\* resource it then talks to has accepted, or has ended the call since
\* (CheckState and FindSession turn away everyone else's accept, through
\* redirects and late answers).
AcceptAgreement ==
  state[Initiator] \in {"RECEIVEDACCEPT", "INPROGRESS"} =>
    /\ remote[Initiator] \in Responders
    /\ state[remote[Initiator]] \in Accepted

\* The initiator believes itself rejected only by a peer that did reject.
RejectAgreement ==
  state[Initiator] = "RECEIVEDREJECT" =>
    /\ remote[Initiator] \in Responders
    /\ state[remote[Initiator]] \in Rejected \cup Ended

\* OnAcceptMessage: once accepted, nothing is held back for an acknowledgement
\* that may never come.
NothingHeldBack ==
  state[Initiator] \in {"RECEIVEDACCEPT", "INPROGRESS"} =>
    acked /\ unsent[Initiator] = {}

\* No initiate reaches a resource that already has, or had, the session, which
\* CreateSession would overwrite in the map.
InitiateFindsNoSession ==
  \A m \in net : m.kind = "set" /\ m.type = "initiate" /\ m.to \in Responders
                   => state[m.to] = "NONE"

\* OnTransportCandidatesReady: whatever the server does to the order, the
\* candidates of the initiator reach a responder after its initiate.
CandidatesAfterInitiate ==
  \A m \in net : m.kind = "set" /\ m.type = "transport-info" /\ m.to \in Responders
                   => state[m.to] # "NONE"

\* OnRedirectError: "we point the session at the new JID and resend the
\* candidates".  None is left behind with the old JID.
AllResent ==
  [][\A r \in Responders :
       remote[Initiator] \in Bare /\ remote'[Initiator] = r =>
         \A c \in gathered[Initiator] :
           \/ c \in unsent'[Initiator]
           \/ \E m \in net' : m.to = r /\ c \in m.cands]_vars

\* CheckState: ASSERT(state() == expected), of an initiate, an accept or a
\* reject that finds the session.
ExpectedMessagesOnly ==
  [][\A m \in net \ net' :
       m.kind = "set" /\ m.type \in DOMAIN Expected /\ m.to \in Peers
         /\ Found(m.to, m.from) => state[m.to] = Expected[m.type]]_vars

\* ~SessionManager: "They better be all gone".  When the initiator's session is
\* gone, the others follow, even when no message of it reaches them: their
\* transports stop being writable, and time out.
SessionsEnd ==
  \A p \in Responders :
    state[Initiator] = "GONE" /\ Exists(p) ~> ~Exists(p)

\* TerminateAll: "Terminates all of the sessions", and returns.
TerminateAllReturns == \A p \in Peers : ending[p] ~> ~ending[p]

\* A candidate that a transport gathers reaches the peer's transport, held back
\* or not, unless one of the two ends the session.
Closing(p) == state[p] \in Rejected \cup Ended
CandidatesArrive ==
  \A p \in Peers, c \in Candidates :
    c \in gathered[p] ~>
      \/ Closing(p)
      \/ \E q \in Peers : remote[p] = q /\ (c \in got[q] \/ Closing(q))
===============================================================================
