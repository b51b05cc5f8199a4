----------------------- MODULE SessionNegotiationProofs -----------------------
(***************************************************************************)
(* What SessionNegotiation promises for every set of responders, bare JIDs *)
(* and candidates, and any number of refused stanzas.                      *)
(***************************************************************************)
EXTENDS SessionNegotiation, TLAPS

Messages == {"STATE", "ERROR", "CONNECTING"}

\* What a request and an answer to it are made of.
LEMMA RequestType ==
  ASSUME NEW type \in Types, NEW from \in Peers, NEW to \in Jids \cup {None},
         NEW cs \in SUBSET Candidates
  PROVE  Request(type, from, to, cs) \in Stanza
BY DEF Request, Stanza, Kinds

\* An answer is a stanza, and its request has the sides swapped.
LEMMA AnswerType ==
  ASSUME NEW m \in Stanza, NEW kind \in Kinds
  PROVE  Answer(m, kind) \in Stanza
BY DEF Answer, Stanza

\* A thread's queue holds messages whatever it posts and takes.
LEMMA QueueType ==
  ASSUME TypeOK, NEW p \in Peers, NEW msgs \in Seq(Messages)
  PROVE  /\ [queue EXCEPT ![p] = @ \o msgs] \in [Peers -> Seq(Messages)]
         /\ queue[p] # <<>> =>
              [queue EXCEPT ![p] = Tail(@) \o msgs] \in [Peers -> Seq(Messages)]
BY DEF TypeOK, Messages

\* What a handler posts are messages.
LEMMA PostedType ==
  ASSUME NEW p, NEW s
  PROVE  /\ Posted(p, s) \in Seq(Messages)
         /\ Connecting(p) \in Seq(Messages)
         /\ <<"STATE">> \o Connecting(p) \in Seq(Messages)
         /\ <<"STATE">> \in Seq(Messages)
         /\ <<"ERROR">> \in Seq(Messages)
         /\ <<>> \in Seq(Messages)
         /\ <<"STATE", "STATE">> \in Seq(Messages)
<1>1. <<"STATE">> \in Seq(Messages) /\ <<"ERROR">> \in Seq(Messages)
      /\ <<>> \in Seq(Messages) /\ <<"CONNECTING">> \in Seq(Messages)
  BY DEF Messages
<1>2. <<"STATE", "STATE">> \in Seq(Messages)
  BY DEF Messages
<1>3. Connecting(p) \in Seq(Messages)
  BY <1>1 DEF Connecting
<1>4. <<"STATE">> \o Connecting(p) \in Seq(Messages)
  BY <1>1, <1>3
<1>. QED  BY <1>1, <1>2, <1>3, <1>4 DEF Posted

-------------------------------------------------------------------------------
\* What a handler sends is made of stanzas.
LEMMA SendsType ==
  ASSUME TypeOK, NEW p \in Peers
  PROVE  /\ Unsent(p) \subseteq Stanza
         /\ AckedSends(p) \subseteq Stanza
         /\ TerminateSends(p) \subseteq Stanza
         /\ Request("accept", p, remote[p], {}) \in Stanza
         /\ \A to \in Jids : Request(RejectType, p, to, {}) \in Stanza
         /\ Request(RejectType, p, remote[p], {}) \in Stanza
         /\ \A c \in Candidates :
              Request("transport-info", p, remote[p], {c}) \in Stanza
         /\ \A to \in Jids : Request("initiate", p, to, {}) \in Stanza
         /\ \A to \in Jids :
              Request("transport-info", p, to, sentc[p]) \in Stanza
<1>1. remote[p] \in Jids \cup {None} /\ unsent[p] \in SUBSET Candidates
      /\ sentc[p] \in SUBSET Candidates
  BY DEF TypeOK
<1>2. Types = {"initiate", "accept", "reject", "terminate", "transport-info"}
      /\ RejectType \in Types
  BY DEF Types, RejectType
<1>3. Unsent(p) \subseteq Stanza /\ AckedSends(p) \subseteq Stanza
  BY <1>1, <1>2, RequestType DEF Unsent, AckedSends
<1>4. TerminateSends(p) \subseteq Stanza
  BY <1>1, <1>2, RequestType DEF TerminateSends
<1>5. \A type \in Types, to \in Jids \cup {None}, cs \in SUBSET Candidates :
        Request(type, p, to, cs) \in Stanza
  BY RequestType
<1>. QED  BY <1>1, <1>2, <1>3, <1>4, <1>5

\* A request that somebody waits for is a stanza.
LEMMA WantedType ==
  ASSUME NEW m \in Stanza, NEW kind \in Kinds
  PROVE  Wanted(Answer(m, kind)) \subseteq Stanza
BY AnswerType DEF Wanted

\* The variables have their types initially.
LEMMA InitType == Init => TypeOK
<1>. USE SessionAssumption
<1>. SUFFICES ASSUME Init PROVE TypeOK
  OBVIOUS
<1>1. \A p \in Peers : queue[p] = <<>>
  BY DEF Init
<1>2. queue \in [Peers -> Seq(Messages)]
  BY PostedType DEF Init
<1>3. bounces \in 0..MaxBounces
  BY DEF Init
<1>. QED
  BY <1>2, <1>3 DEF Init, TypeOK, States, Jids, Messages

\* The handlers: every step of Next keeps every variable in its type.
LEMMA NextType == TypeOK /\ [Next]_vars => TypeOK'
<1>. SUFFICES ASSUME TypeOK, [Next]_vars PROVE TypeOK'
  OBVIOUS
<1>1. ASSUME NEW r \in Responders \cup Bare, Initiate(r)
      PROVE  TypeOK'
  <2>1. Initiator \in Peers /\ r \in Jids
    BY <1>1, SendsType, PostedType DEF TypeOK, Peers, Jids
  <2>2. net' \subseteq Stanza /\ pending' \subseteq Stanza
    BY <1>1, <2>1, SendsType, WantedType DEF TypeOK, Initiate, Send
  <2>3. queue' \in [Peers -> Seq(Messages)]
    BY <1>1, <2>1, QueueType, PostedType DEF Initiate, Post
  <2>. QED  BY <1>1, <2>1, <2>2, <2>3
       DEF TypeOK, Messages, Initiate, Send, SetState, Post, States, Jids
<1>2. ASSUME NEW p \in Peers, Accept(p)
      PROVE  TypeOK'
  BY <1>2, SessionAssumption, SendsType, WantedType, QueueType, PostedType
     DEF TypeOK, Messages, Accept, Send, SetState, Post, States, transport, Jids
<1>3. ASSUME NEW p \in Peers, Reject(p)
      PROVE  TypeOK'
  BY <1>3, SessionAssumption, SendsType, WantedType, QueueType, PostedType
     DEF TypeOK, Messages, Reject, Send, SetState, Post, States, transport
<1>4. ASSUME NEW p \in Peers, Terminate(p)
      PROVE  TypeOK'
  BY <1>4, SessionAssumption, SendsType, WantedType, QueueType, PostedType
     DEF TypeOK, Messages, Terminate, Send, SetState, Post, States, transport
<1>5. ASSUME NEW p \in Peers, StartTerminateAll(p)
      PROVE  TypeOK'
  BY <1>5, SessionAssumption, SendsType, WantedType, QueueType, PostedType
     DEF TypeOK, Messages, StartTerminateAll, session, transport
<1>6. ASSUME NEW p \in Peers, TerminateAll(p)
      PROVE  TypeOK'
  <2>. DEFINE posted == IF Exists(p) THEN Posted(p, TerminatedState(p)) ELSE <<>>
  <2>1. posted \in Seq(Messages)
    BY PostedType
  <2>2. queue' = [queue EXCEPT ![p] = @ \o posted]
    BY <1>6 DEF TerminateAll, Post
  <2>3. queue' \in [Peers -> Seq(Messages)]
    BY <2>1, <2>2, QueueType
  <2>4. net' \subseteq Stanza /\ pending' \subseteq Stanza
    BY <1>6, SendsType DEF TypeOK, TerminateAll, Send
  <2>5. state' \in [Peers -> States] /\ ending' \in [Peers -> BOOLEAN]
    BY <1>6 DEF TypeOK, TerminateAll, TerminatedState, Exists, SetState, States
  <2>. QED
    BY <1>6, <2>3, <2>4, <2>5 DEF TypeOK, Messages, TerminateAll, transport
<1>7. ASSUME NEW p \in Peers, NEW c \in Candidates, CandidatesReady(p, c)
      PROVE  TypeOK'
  <2>1. net' \subseteq Stanza /\ pending' \subseteq Stanza
    BY <1>7, SendsType DEF TypeOK, CandidatesReady, Send
  <2>2. UNCHANGED <<state, remote, acked, queue, tstate, got, writable, timer,
                    bounces, ending>>
    BY <1>7 DEF CandidatesReady, session
  <2>3. unsent' \in [Peers -> SUBSET Candidates]
    BY <1>7 DEF TypeOK, CandidatesReady
  <2>4. gathered' \in [Peers -> SUBSET Candidates]
    BY <1>7 DEF TypeOK, CandidatesReady
  <2>5. sentc' \in [Peers -> SUBSET Candidates]
    <3>1. \/ sentc' = sentc
          \/ sentc' = [sentc EXCEPT ![p] = @]
          \/ sentc' = [sentc EXCEPT ![p] = @ \cup {c}]
      BY <1>7 DEF CandidatesReady
    <3>. QED  BY <3>1 DEF TypeOK
  <2>. QED  BY <2>1, <2>2, <2>3, <2>4, <2>5 DEF TypeOK
<1>8. ASSUME NEW p \in Peers, TransportWritable(p)
      PROVE  TypeOK'
  BY <1>8, SessionAssumption, SendsType, WantedType, QueueType, PostedType
     DEF TypeOK, Messages, TransportWritable, WritableChange, session
<1>9. ASSUME NEW p \in Peers, TransportUnwritable(p)
      PROVE  TypeOK'
  BY <1>9, SessionAssumption, SendsType, WantedType, QueueType, PostedType
     DEF TypeOK, Messages, TransportUnwritable, WritableChange, session
<1>10. ASSUME NEW p \in Peers, TimerFires(p)
      PROVE  TypeOK'
  BY <1>10, SessionAssumption, SendsType, WantedType, QueueType, PostedType
     DEF TypeOK, Messages, TimerFires, Post
<1>11. ASSUME NEW p \in Peers, DispatchState(p)
      PROVE  TypeOK'
  BY <1>11, SessionAssumption, SendsType, WantedType, QueueType, PostedType
     DEF TypeOK, Messages, DispatchState, HeadIs, Taken, SetState, States, transport
<1>12. ASSUME NEW p \in Peers, DispatchDestroy(p)
      PROVE  TypeOK'
  BY <1>12, SessionAssumption, SendsType, WantedType, QueueType, PostedType
     DEF TypeOK, Messages, DispatchDestroy, SetState, States
<1>13. ASSUME NEW p \in Peers, DispatchError(p)
      PROVE  TypeOK'
  BY <1>13, SessionAssumption, SendsType, WantedType, QueueType, PostedType
     DEF TypeOK, Messages, DispatchError, HeadIs, Taken, TerminatedState,
         Terminated, Send, SetState, States, transport
<1>14. ASSUME NEW p \in Peers, DispatchConnecting(p)
      PROVE  TypeOK'
  BY <1>14, SessionAssumption, SendsType, WantedType, QueueType, PostedType
     DEF TypeOK, Messages, DispatchConnecting, HeadIs, Taken
<1>15. ASSUME NEW m \in net, m.to \in Peers, Refuse(m)
      PROVE  TypeOK'
  BY <1>15, SessionAssumption, SendsType, WantedType, QueueType, PostedType
     DEF TypeOK, Messages, Refuse, Reply, session, transport, Kinds
<1>16. ASSUME NEW m \in net, m.to \in Peers, DeliverInitiate(m)
      PROVE  TypeOK'
  BY <1>16, SessionAssumption, SendsType, WantedType, QueueType, PostedType
     DEF TypeOK, Messages, DeliverInitiate, RemoteCandidates, Reply, SetState,
         Post, States, Kinds, Stanza, Jids
<1>17. ASSUME NEW m \in net, m.to \in Peers, DeliverUnwanted(m)
      PROVE  TypeOK'
  <2>1. m \in Stanza /\ m.to \in Peers /\ m.from \in Jids /\ "result" \in Kinds
    BY <1>17, SendsType, PostedType DEF TypeOK, DeliverUnwanted, Stanza, Jids, Kinds
  <2>2. net' \subseteq Stanza /\ pending' \subseteq Stanza
    BY <1>17, <2>1, SendsType, WantedType DEF TypeOK, DeliverUnwanted, Reply
  <2>3. queue' \in [Peers -> Seq(Messages)]
    BY <1>17, <2>1, QueueType, PostedType DEF DeliverUnwanted, Post
  <2>. QED  BY <1>17, <2>1, <2>2, <2>3
       DEF TypeOK, Messages, DeliverUnwanted, Reply, SetState, Post, States, Kinds,
           Stanza, transport, Jids
<1>18. ASSUME NEW m \in net, m.to \in Peers, NEW v \in Verdicts, DeliverBadInitiate(m, v)
      PROVE  TypeOK'
  BY <1>18, SessionAssumption, SendsType, WantedType, QueueType, PostedType
     DEF TypeOK, Messages, DeliverBadInitiate, Reply, SetState, States, Kinds,
         transport
<1>19. ASSUME NEW m \in net, m.to \in Peers, DeliverAccept(m)
      PROVE  TypeOK'
  <2>1. m \in Stanza /\ m.to \in Peers /\ "result" \in Kinds
    BY <1>19, SendsType, PostedType
      DEF TypeOK, DeliverAccept, Found, Exists, Stanza, Kinds
  <2>2. net' \subseteq Stanza /\ pending' \subseteq Stanza
    BY <1>19, <2>1, SendsType, WantedType DEF TypeOK, DeliverAccept, Reply
  <2>3. queue' \in [Peers -> Seq(Messages)]
    BY <1>19, <2>1, QueueType, PostedType DEF DeliverAccept, Post
  <2>. QED  BY <1>19, <2>1, <2>2, <2>3
       DEF TypeOK, Messages, DeliverAccept, InitiateAcked, RemoteCandidates, Reply,
           SetState, Post, States, Kinds, Stanza
<1>20. ASSUME NEW m \in net, m.to \in Peers, DeliverReject(m)
      PROVE  TypeOK'
  BY <1>20, SessionAssumption, SendsType, WantedType, QueueType, PostedType
     DEF TypeOK, Messages, DeliverReject, Reply, SetState, Post, States, Kinds,
         Stanza, transport
<1>21. ASSUME NEW m \in net, m.to \in Peers, DeliverTerminate(m)
      PROVE  TypeOK'
  BY <1>21, SessionAssumption, SendsType, WantedType, QueueType, PostedType
     DEF TypeOK, Messages, DeliverTerminate, Reply, SetState, Post, States, Kinds,
         Stanza, transport
<1>22. ASSUME NEW m \in net, m.to \in Peers, DeliverTransportInfo(m)
      PROVE  TypeOK'
  BY <1>22, SessionAssumption, SendsType, WantedType, QueueType, PostedType
     DEF TypeOK, Messages, DeliverTransportInfo, RemoteCandidates, Reply, Post,
         Kinds, Stanza
<1>23. ASSUME NEW m \in net, ReceiveResult(m)
      PROVE  TypeOK'
  <2>1. m.from \in Peers
    BY <1>23 DEF TypeOK, Stanza
  <2>2. net' \subseteq Stanza /\ pending' \subseteq Stanza
    BY <1>23, <2>1, SendsType DEF TypeOK, ReceiveResult, Answered
  <2>3. UNCHANGED <<state, remote, queue, tstate, gathered, sentc, got, writable,
                    timer, bounces, ending>>
    BY <1>23 DEF ReceiveResult
  <2>4. acked' \in BOOLEAN
    BY <1>23 DEF TypeOK, ReceiveResult, InitiateAcked
  <2>5. unsent' \in [Peers -> SUBSET Candidates]
    <3>1. unsent' = unsent \/ unsent' = [unsent EXCEPT ![m.from] = {}]
                           \/ unsent' = [unsent EXCEPT ![m.from] = @]
      BY <1>23 DEF ReceiveResult, InitiateAcked
    <3>. QED  BY <2>1, <3>1 DEF TypeOK
  <2>. QED  BY <2>2, <2>3, <2>4, <2>5 DEF TypeOK
<1>24. ASSUME NEW m \in net, ReceiveError(m)
      PROVE  TypeOK'
  BY <1>24, SessionAssumption, SendsType, WantedType, QueueType, PostedType
     DEF TypeOK, Messages, ReceiveError, Answered, Post, Stanza, transport
<1>25. ASSUME NEW m \in net, ReceiveRedirect(m)
      PROVE  TypeOK'
  BY <1>25, SessionAssumption, SendsType, WantedType, QueueType, PostedType
     DEF TypeOK, Messages, ReceiveRedirect, MayRedirect, Answered, Stanza, Jids, Peers
<1>26. ASSUME NEW r \in pending, SendTimeout(r)
      PROVE  TypeOK'
  BY <1>26, SessionAssumption, SendsType, WantedType, QueueType, PostedType
     DEF TypeOK, Messages, SendTimeout, Unwanted, Post, Stanza, transport
<1>27. ASSUME NEW m \in net, NEW k \in {"result", "error", "wait", "redirect"},
             NEW t \in Responders \cup {None}, ServerAnswers(m, k, t)
      PROVE  TypeOK'
  <2>1. m \in Stanza /\ k \in Kinds
    BY <1>27 DEF TypeOK, Kinds
  <2>2. [m EXCEPT !.kind = k, !.target = t] \in Stanza
    BY <1>27, <2>1 DEF Stanza
  <2>3. net' \subseteq Stanza
    BY <1>27, <2>2 DEF TypeOK, ServerAnswers, Wanted
  <2>4. UNCHANGED <<session, transport, pending, bounces, ending>>
    BY <1>27 DEF ServerAnswers
  <2>. QED  BY <2>3, <2>4 DEF TypeOK, session, transport
<1>28. ASSUME NEW m \in net, NEW k \in {"error", "wait"}, ServerRefuses(m, k)
      PROVE  TypeOK'
  BY <1>28, SessionAssumption, SendsType, WantedType, QueueType, PostedType
     DEF TypeOK, Messages, ServerRefuses, Kinds, session, transport
<1>29. CASE UNCHANGED vars
  BY <1>29 DEF vars, TypeOK
<1>. QED
  BY <1>1, <1>2, <1>3, <1>4, <1>5, <1>6, <1>7, <1>8, <1>9, <1>10, <1>11, <1>12,
     <1>13, <1>14, <1>15, <1>16, <1>17, <1>18, <1>19, <1>20, <1>21, <1>22, <1>23,
     <1>24, <1>25, <1>26, <1>27, <1>28, <1>29
     DEF Next, Thread, Calls, Watch, Dispatch, Deliver, Receive, Server

\* Every variable keeps its type, for any responders, candidates and bounds: the
\* queues hold only the messages that Session::OnMessage knows.
THEOREM TypeCorrect == Spec => []TypeOK
BY InitType, NextType, PTL DEF Spec

-------------------------------------------------------------------------------
(***************************************************************************)
(* The agreements rest on who may send what, on the server redirecting     *)
(* only what was sent to a bare JID, and on one initiate per resource.     *)
(***************************************************************************)
\* Nothing is posted for a session that does not exist.
Quiet == \A p \in Peers : queue[p] # <<>> \/ timer[p] => Exists(p)

Roles ==
  /\ state[Initiator] \notin {"NONE", "RECEIVEDINITIATE", "SENTACCEPT", "SENTREJECT"}
  /\ \A r \in Responders :
       state[r] \notin {"SENTINITIATE", "RECEIVEDACCEPT", "RECEIVEDREJECT"}

\* Only the initiator sends an initiate, which carries no candidates, and only
\* the server redirects.
Senders ==
  \A m \in net :
    /\ m.type = "initiate" =>
         m.from = Initiator /\ m.to \in Responders \cup Bare /\ m.cands = {}
    /\ m.kind = "set" => m.target = None
    /\ m.kind = "redirect" => m.to \notin Peers

\* Before a call, and as long as it goes to a bare JID, no resource has heard of
\* it or will.
NoneCalled ==
  \A r \in Responders :
    /\ state[r] = "NONE"
    /\ \A m \in net : ~(m.kind = "set" /\ m.type = "initiate" /\ m.to = r)
Uncalled ==
  /\ state[Initiator] = "INIT" \/ remote[Initiator] \in Bare => NoneCalled
  /\ state[Initiator] = "SENTINITIATE" => remote[Initiator] # None

\* What is under way tells the truth of its sender.
AcceptsTrue ==
  \A m \in net : m.kind = "set" /\ m.type = "accept" =>
    m.from \in Responders /\ state[m.from] \in Accepted
RejectsTrue ==
  \A m \in net : m.kind = "set" /\ m.type = "reject" =>
    m.from \in Responders /\ state[m.from] \in Rejected \cup Ended

Held ==
  /\ acked => unsent[Initiator] = {}
  /\ state[Initiator] \in {"RECEIVEDACCEPT", "INPROGRESS"} => acked

Core == /\ Roles
        /\ Senders
        /\ Uncalled
        /\ InitiateFindsNoSession
        /\ AcceptsTrue
        /\ RejectsTrue
        /\ AcceptAgreement
        /\ RejectAgreement
Inv == TypeOK /\ Quiet /\ Held /\ Core

-------------------------------------------------------------------------------
\* A new stanza that starts nothing: an answer, or a request that changes no
\* session but to end it.
Harmless(m) ==
  /\ m.type = "initiate" =>
       m.from = Initiator /\ m.to \in Responders \cup Bare /\ m.cands = {}
  /\ m.kind = "set" =>
       m.target = None /\ m.type \in {"terminate", "transport-info"}
  /\ m.kind = "redirect" => m.to \notin Peers
NewHarmless == \A m \in net' \ net : Harmless(m)

\* Steps that change no session leave the agreements alone.
LEMMA StillStep ==
  ASSUME Core, UNCHANGED <<state, remote>>, NewHarmless
  PROVE  Core'
<1>. USE DEF Core, NewHarmless, Harmless
<1>1. Roles' /\ Senders'
  BY DEF Roles, Senders
<1>2. Uncalled'
  BY DEF Uncalled, NoneCalled
<1>3. InitiateFindsNoSession'
  BY DEF InitiateFindsNoSession
<1>4. AcceptsTrue' /\ RejectsTrue'
  BY DEF AcceptsTrue, RejectsTrue
<1>5. AcceptAgreement' /\ RejectAgreement'
  BY DEF AcceptAgreement, RejectAgreement
<1>. QED  BY <1>1, <1>2, <1>3, <1>4, <1>5

\* Nor does the end of a session disturb them: whoever accepted or rejected may
\* end the call, and its peer's belief stays true.
LEMMA EndStep ==
  ASSUME Inv, NEW p \in Peers, Exists(p), NEW s \in Ended,
         state' = [state EXCEPT ![p] = s],
         \/ remote' = remote
         \/ remote' = [remote EXCEPT ![p] = None],
         NewHarmless
  PROVE  Core'
<1>. USE SessionAssumption
     DEF Inv, Core, NewHarmless, Harmless, TypeOK, Peers, Ended, Terminated
<1>1. Roles' /\ Senders'
  BY DEF Roles, Senders
<1>2. Uncalled'
  BY DEF Uncalled, NoneCalled, Exists, Jids
<1>3. InitiateFindsNoSession'
  BY DEF InitiateFindsNoSession, Exists
<1>4. AcceptsTrue' /\ RejectsTrue'
  BY DEF AcceptsTrue, RejectsTrue, Accepted
<1>5. AcceptAgreement' /\ RejectAgreement'
  BY DEF AcceptAgreement, RejectAgreement, Accepted
<1>. QED  BY <1>1, <1>2, <1>3, <1>4, <1>5

\* The one initiate that reaches a resource finds no session there, and leaves
\* no second one behind.
LEMMA InitiateArrives ==
  ASSUME Inv, NEW m \in net, m.to \in Peers, Delivered(m, "initiate")
  PROVE  /\ m.to \in Responders
         /\ state[m.to] = "NONE"
         /\ state[Initiator] # "INIT" /\ remote[Initiator] \notin Bare
         /\ \A n \in net : n.kind = "set" /\ n.type = "initiate" /\ n.to = m.to
                             => n = m
<1>. USE SessionAssumption DEF Inv, Core, Delivered, Peers
<1>1. m.to \in Responders
  BY DEF Senders
<1>2. state[m.to] = "NONE"
  BY <1>1 DEF InitiateFindsNoSession
<1>3. state[Initiator] # "INIT" /\ remote[Initiator] \notin Bare
  BY <1>1 DEF Uncalled, NoneCalled
<1>4. ASSUME NEW n \in net, n.kind = "set", n.type = "initiate", n.to = m.to
      PROVE  n = m
  <2>1. n \in Stanza /\ m \in Stanza
    BY DEF TypeOK
  <2>2. /\ n.kind = m.kind /\ n.type = m.type /\ n.from = m.from
        /\ n.to = m.to /\ n.cands = m.cands /\ n.target = m.target
    BY <1>4 DEF Senders
  <2>. QED  BY <2>1, <2>2 DEF Stanza
<1>. QED  BY <1>1, <1>2, <1>3, <1>4

\* A session that an initiate creates.  What is sent with it tells the truth.
LEMMA NewSessionStep ==
  ASSUME Inv, NEW m \in net, m.to \in Peers, Delivered(m, "initiate"),
         NEW s \in {"NONE", "INIT", "RECEIVEDINITIATE", "SENTREJECT"},
         state' = [state EXCEPT ![m.to] = s],
         \/ remote' = remote
         \/ remote' = [remote EXCEPT ![m.to] = m.from],
         m \notin net',
         \A n \in net' \ net : \/ Harmless(n)
                               \/ /\ n.type = "reject" /\ n.target = None
                                  /\ n.kind = "set" /\ n.from = m.to
                                  /\ s = "SENTREJECT"
  PROVE  Core'
<1>. USE SessionAssumption, InitiateArrives DEF Inv, Core, Harmless, TypeOK, Peers
<1>1. Roles' /\ Senders'
  BY DEF Roles, Senders
<1>2. Uncalled'
  BY DEF Uncalled
<1>3. InitiateFindsNoSession'
  BY DEF InitiateFindsNoSession
<1>4. AcceptsTrue'
  BY DEF AcceptsTrue, Accepted, Ended, Terminated
<1>5. RejectsTrue'
  BY DEF RejectsTrue, Rejected, Ended, Terminated
<1>6. AcceptAgreement' /\ RejectAgreement'
  BY DEF AcceptAgreement, RejectAgreement, Accepted, Rejected, Ended, Terminated
<1>. QED  BY <1>1, <1>2, <1>3, <1>4, <1>5, <1>6

\* The answer to a request is harmless, and no request.
LEMMA AnswerHarmless ==
  ASSUME Inv, NEW m \in net, m.kind = "set",
         NEW kind \in {"result", "error", "wait"}
  PROVE  Harmless(Answer(m, kind)) /\ Answer(m, kind) # m
<1>1. m \in Stanza
  BY DEF Inv, TypeOK
<1>. QED  BY <1>1 DEF Inv, Core, Senders, Harmless, Answer, Stanza

\* The request to end a session is harmless.
LEMMA TerminateHarmless ==
  ASSUME NEW p, NEW r \in TerminateSends(p)
  PROVE  Harmless(r)
BY DEF TerminateSends, Request, Harmless

\* No session exists initially, and nothing has been sent.
LEMMA InitInv == Init => Inv
<1>. SUFFICES ASSUME Init PROVE Inv
  OBVIOUS
<1>1. TypeOK
  BY InitType
<1>2. Quiet /\ Held
  BY <1>1, SessionAssumption DEF Init, Quiet, Held, Peers, Exists
<1>3. Core
  BY <1>1, SessionAssumption
     DEF Init, Core, Roles, Senders, Uncalled, NoneCalled, InitiateFindsNoSession,
         AcceptsTrue, RejectsTrue, AcceptAgreement, RejectAgreement, Peers
<1>. QED  BY <1>1, <1>2, <1>3 DEF Inv

\* Every step of the peers, the network and the server preserves the invariant.
LEMMA NextInv == Inv /\ [Next]_vars => Inv'
<1>. SUFFICES ASSUME Inv, [Next]_vars PROVE Inv'
  OBVIOUS
<1>0. TypeOK'
  BY NextType DEF Inv
<1>1. ASSUME NEW r \in Responders \cup Bare,
             Initiate(r)
      PROVE  Inv'
  <2>2. Core'
    <3>1. Roles'
      BY <1>1, SessionAssumption
         DEF Inv, Core, TypeOK, Peers, Roles, Initiate, Send, SetState, Request
    <3>2. Senders'
      BY <1>1, SessionAssumption
         DEF Inv, Core, TypeOK, Peers, Roles, Senders, Initiate, Send, SetState,
             Request
    <3>3. Uncalled'
      BY <1>1, SessionAssumption
         DEF Inv, Core, TypeOK, Peers, Jids, Uncalled, NoneCalled, Initiate, Send,
             SetState, Request
    <3>4. InitiateFindsNoSession'
      BY <1>1, SessionAssumption
         DEF Inv, Core, TypeOK, Peers, InitiateFindsNoSession, Uncalled,
             NoneCalled, Initiate, Send, SetState, Request
    <3>5. AcceptsTrue'
      BY <1>1, SessionAssumption
         DEF Inv, Core, TypeOK, Peers, AcceptsTrue, Accepted, Ended, Terminated,
             Roles, Initiate, Send, SetState, Request
    <3>6. RejectsTrue'
      BY <1>1, SessionAssumption
         DEF Inv, Core, TypeOK, Peers, RejectsTrue, Rejected, Ended, Terminated,
             Roles, Initiate, Send, SetState, Request
    <3>7. AcceptAgreement'
      BY <1>1, SessionAssumption
         DEF Inv, Core, TypeOK, Peers, AcceptAgreement, AcceptsTrue, Accepted,
             Ended, Terminated, Roles, Initiate, Send, SetState, Request
    <3>8. RejectAgreement'
      BY <1>1, SessionAssumption
         DEF Inv, Core, TypeOK, Peers, RejectAgreement, RejectsTrue, Rejected,
             Ended, Terminated, Roles, Initiate, Send, SetState, Request
    <3>. QED  BY <3>1, <3>2, <3>3, <3>4, <3>5, <3>6, <3>7, <3>8 DEF Core
  <2>8. Quiet'
    BY <1>1, SessionAssumption
      DEF Inv, Quiet, TypeOK, Exists, Peers, Found, HeadIs, Initiate, Send,
          SetState, Post, States, Jids
  <2>9. Held'
    BY <1>1, SessionAssumption
      DEF Inv, Core, Roles, Senders, Held, TypeOK, Peers, Found, Exists, Delivered,
          AckedSends, Unsent, Initiate, Send, SetState, Post, States, Jids
  <2>. QED  BY <1>0, <2>2, <2>8, <2>9 DEF Inv
<1>2. ASSUME NEW p \in Peers,
             Accept(p)
      PROVE  Inv'
  <2>2. Core'
    <3>1. Roles'
      BY <1>2, SessionAssumption
         DEF Inv, Core, TypeOK, Peers, Roles, Accept, Send, SetState, Request
    <3>2. Senders'
      BY <1>2, SessionAssumption
         DEF Inv, Core, TypeOK, Peers, Roles, Senders, Accept, Send, SetState, Request
    <3>3. Uncalled'
      BY <1>2, SessionAssumption
         DEF Inv, Core, TypeOK, Peers, Uncalled, NoneCalled, Accept, Send,
             SetState, Request
    <3>4. InitiateFindsNoSession'
      BY <1>2, SessionAssumption
         DEF Inv, Core, TypeOK, Peers, InitiateFindsNoSession, Uncalled,
             NoneCalled, Accept, Send, SetState, Request
    <3>5. AcceptsTrue'
      BY <1>2, SessionAssumption
         DEF Inv, Core, TypeOK, Peers, AcceptsTrue, Accepted, Ended, Terminated,
             Roles, Accept, Send, SetState, Request
    <3>6. RejectsTrue'
      BY <1>2, SessionAssumption
         DEF Inv, Core, TypeOK, Peers, RejectsTrue, Rejected, Ended, Terminated,
             Roles, Accept, Send, SetState, Request
    <3>7. AcceptAgreement'
      BY <1>2, SessionAssumption
         DEF Inv, Core, TypeOK, Peers, AcceptAgreement, AcceptsTrue, Accepted,
             Ended, Terminated, Roles, Accept, Send, SetState, Request
    <3>8. RejectAgreement'
      BY <1>2, SessionAssumption
         DEF Inv, Core, TypeOK, Peers, RejectAgreement, RejectsTrue, Rejected,
             Ended, Terminated, Roles, Accept, Send, SetState, Request
    <3>. QED  BY <3>1, <3>2, <3>3, <3>4, <3>5, <3>6, <3>7, <3>8 DEF Core
  <2>8. Quiet'
    BY <1>2, SessionAssumption
      DEF Inv, Quiet, TypeOK, Exists, Peers, Found, HeadIs, Accept, Send, SetState,
          Post, States, transport, Jids
  <2>9. Held'
    BY <1>2, SessionAssumption
      DEF Inv, Core, Roles, Senders, Held, TypeOK, Peers, Found, Exists, Delivered,
          AckedSends, Unsent, Accept, Send, SetState, Post, States, transport, Jids
  <2>. QED  BY <1>0, <2>2, <2>8, <2>9 DEF Inv
<1>3. ASSUME NEW p \in Peers,
             Reject(p)
      PROVE  Inv'
  <2>2. Core'
    <3>1. Roles'
      BY <1>3, SessionAssumption
         DEF Inv, Core, TypeOK, Peers, Roles, Reject, Send, SetState, Request,
             RejectType
    <3>2. Senders'
      BY <1>3, SessionAssumption
         DEF Inv, Core, TypeOK, Peers, Roles, Senders, Reject, Send, SetState,
             Request, RejectType
    <3>3. Uncalled'
      BY <1>3, SessionAssumption
         DEF Inv, Core, TypeOK, Peers, Uncalled, NoneCalled, Reject, Send,
             SetState, Request, RejectType
    <3>4. InitiateFindsNoSession'
      BY <1>3, SessionAssumption
         DEF Inv, Core, TypeOK, Peers, InitiateFindsNoSession, Uncalled,
             NoneCalled, Reject, Send, SetState, Request, RejectType
    <3>5. AcceptsTrue'
      BY <1>3, SessionAssumption
         DEF Inv, Core, TypeOK, Peers, AcceptsTrue, Accepted, Ended, Terminated,
             Roles, Reject, Send, SetState, Request, RejectType
    <3>6. RejectsTrue'
      BY <1>3, SessionAssumption
         DEF Inv, Core, TypeOK, Peers, RejectsTrue, Rejected, Ended, Terminated,
             Roles, Reject, Send, SetState, Request, RejectType
    <3>7. AcceptAgreement'
      BY <1>3, SessionAssumption
         DEF Inv, Core, TypeOK, Peers, AcceptAgreement, AcceptsTrue, Accepted,
             Ended, Terminated, Roles, Reject, Send, SetState, Request, RejectType
    <3>8. RejectAgreement'
      BY <1>3, SessionAssumption
         DEF Inv, Core, TypeOK, Peers, RejectAgreement, RejectsTrue, Rejected,
             Ended, Terminated, Roles, Reject, Send, SetState, Request, RejectType
    <3>. QED  BY <3>1, <3>2, <3>3, <3>4, <3>5, <3>6, <3>7, <3>8 DEF Core
  <2>8. Quiet'
    BY <1>3, SessionAssumption
      DEF Inv, Quiet, TypeOK, Exists, Peers, Found, HeadIs, Reject, Send, SetState,
          Post, States, transport
  <2>9. Held'
    BY <1>3, SessionAssumption
      DEF Inv, Core, Roles, Senders, Held, TypeOK, Peers, Found, Exists, Delivered,
          AckedSends, Unsent, Reject, Send, SetState, Post, States, transport
  <2>. QED  BY <1>0, <2>2, <2>8, <2>9 DEF Inv
<1>4. ASSUME NEW p \in Peers,
             Terminate(p)
      PROVE  Inv'
  <2>1. NewHarmless
    BY <1>4, AnswerHarmless, TerminateHarmless
      DEF NewHarmless, Terminate, TerminateSends, Send, SetState, Request
  <2>2. Core'
    BY <1>4, <2>1, EndStep
       DEF Inv, TypeOK, Exists, Ended, Terminated, Terminate, TerminateSends, Send,
           SetState, Request
  <2>8. Quiet'
    BY <1>4, SessionAssumption
      DEF Inv, Quiet, TypeOK, Exists, Peers, Found, HeadIs, Terminate, Send,
          SetState, Post, States, transport
  <2>9. Held'
    BY <1>4, SessionAssumption
      DEF Inv, Core, Roles, Senders, Held, TypeOK, Peers, Found, Exists, Delivered,
          AckedSends, Unsent, Terminate, Send, SetState, Post, States, transport
  <2>. QED  BY <1>0, <2>2, <2>8, <2>9 DEF Inv
<1>5. ASSUME NEW p \in Peers,
             StartTerminateAll(p)
      PROVE  Inv'
  <2>1. NewHarmless
    BY <1>5, SessionAssumption
       DEF Inv, Core, NewHarmless, Harmless, Senders, TypeOK, Stanza,
           StartTerminateAll, session
  <2>2. Core'
    BY <1>5, <2>1, StillStep DEF Inv, StartTerminateAll, WritableChange, session
  <2>8. Quiet'
    BY <1>5, SessionAssumption
      DEF Inv, Quiet, TypeOK, Exists, Peers, Found, HeadIs, StartTerminateAll,
          session, transport
  <2>9. Held'
    BY <1>5, SessionAssumption
      DEF Inv, Core, Roles, Senders, Held, TypeOK, Peers, Found, Exists, Delivered,
          AckedSends, Unsent, StartTerminateAll, session, transport
  <2>. QED  BY <1>0, <2>2, <2>8, <2>9 DEF Inv
<1>6. ASSUME NEW p \in Peers,
             TerminateAll(p)
      PROVE  Inv'
  <2>1. NewHarmless
    BY <1>6, TerminateHarmless DEF NewHarmless, TerminateAll, Send
  <2>2. Core'
    <3>1. CASE Exists(p)
      BY <1>6, <2>1, <3>1, EndStep
         DEF TerminateAll, TerminatedState, SetState, Ended, Terminated
    <3>2. CASE ~Exists(p)
      BY <1>6, <2>1, <3>2, StillStep DEF Inv, TypeOK, TerminateAll, SetState
    <3>. QED  BY <3>1, <3>2
  <2>8. Quiet'
    BY <1>6, SessionAssumption
      DEF Inv, Quiet, TypeOK, Exists, Peers, Found, HeadIs, TerminateAll,
          TerminatedState, Terminated, Send, SetState, Post, States, transport
  <2>9. Held'
    BY <1>6, SessionAssumption
      DEF Inv, Core, Roles, Senders, Held, TypeOK, Peers, Found, Exists, Delivered,
          AckedSends, Unsent, TerminateAll, TerminatedState, Terminated, Send,
          SetState, Post, States, transport
  <2>. QED  BY <1>0, <2>2, <2>8, <2>9 DEF Inv
<1>7. ASSUME NEW p \in Peers, NEW c \in Candidates,
             CandidatesReady(p, c)
      PROVE  Inv'
  <2>1. NewHarmless
    BY <1>7, SessionAssumption
       DEF Inv, Core, NewHarmless, Harmless, Senders, TypeOK, Stanza,
           CandidatesReady, Send, session, Request
  <2>2. Core'
    BY <1>7, <2>1, StillStep DEF Inv, CandidatesReady, WritableChange, session
  <2>8. Quiet'
    BY <1>7, SessionAssumption
      DEF Inv, Quiet, TypeOK, Exists, Peers, Found, HeadIs, CandidatesReady, Send,
          session
  <2>9. Held'
    BY <1>7, SessionAssumption
      DEF Inv, Core, Roles, Senders, Held, TypeOK, Peers, Found, Exists, Delivered,
          AckedSends, Unsent, CandidatesReady, Send, session
  <2>. QED  BY <1>0, <2>2, <2>8, <2>9 DEF Inv
<1>8. ASSUME NEW p \in Peers,
             TransportWritable(p)
      PROVE  Inv'
  <2>1. NewHarmless
    BY <1>8, SessionAssumption
       DEF Inv, Core, NewHarmless, Harmless, Senders, TypeOK, Stanza,
           TransportWritable, WritableChange, session
  <2>2. Core'
    BY <1>8, <2>1, StillStep DEF Inv, TransportWritable, WritableChange, session
  <2>8. Quiet'
    BY <1>8, SessionAssumption
      DEF Inv, Quiet, TypeOK, Exists, Peers, Found, HeadIs, TransportWritable,
          WritableChange, session
  <2>9. Held'
    BY <1>8, SessionAssumption
      DEF Inv, Core, Roles, Senders, Held, TypeOK, Peers, Found, Exists, Delivered,
          AckedSends, Unsent, TransportWritable, WritableChange, session
  <2>. QED  BY <1>0, <2>2, <2>8, <2>9 DEF Inv
<1>9. ASSUME NEW p \in Peers,
             TransportUnwritable(p)
      PROVE  Inv'
  <2>1. NewHarmless
    BY <1>9, SessionAssumption
       DEF Inv, Core, NewHarmless, Harmless, Senders, TypeOK, Stanza,
           TransportUnwritable, WritableChange, session
  <2>2. Core'
    BY <1>9, <2>1, StillStep DEF Inv, TransportUnwritable, WritableChange, session
  <2>8. Quiet'
    BY <1>9, SessionAssumption
      DEF Inv, Quiet, TypeOK, Exists, Peers, Found, HeadIs, TransportUnwritable,
          WritableChange, session
  <2>9. Held'
    BY <1>9, SessionAssumption
      DEF Inv, Core, Roles, Senders, Held, TypeOK, Peers, Found, Exists, Delivered,
          AckedSends, Unsent, TransportUnwritable, WritableChange, session
  <2>. QED  BY <1>0, <2>2, <2>8, <2>9 DEF Inv
<1>10. ASSUME NEW p \in Peers,
             TimerFires(p)
      PROVE  Inv'
  <2>1. NewHarmless
    BY <1>10, SessionAssumption
       DEF Inv, Core, NewHarmless, Harmless, Senders, TypeOK, Stanza, TimerFires
  <2>2. Core'
    BY <1>10, <2>1, StillStep DEF Inv, TimerFires, WritableChange, session
  <2>8. Quiet'
    BY <1>10, SessionAssumption
      DEF Inv, Quiet, TypeOK, Exists, Peers, Found, HeadIs, TimerFires, Post
  <2>9. Held'
    BY <1>10, SessionAssumption
      DEF Inv, Core, Roles, Senders, Held, TypeOK, Peers, Found, Exists, Delivered,
          AckedSends, Unsent, TimerFires, Post
  <2>. QED  BY <1>0, <2>2, <2>8, <2>9 DEF Inv
<1>11. ASSUME NEW p \in Peers,
             DispatchState(p)
      PROVE  Inv'
  <2>1. NewHarmless
    BY <1>11 DEF NewHarmless, DispatchState
  <2>2. Core'
    <3>1. CASE state[p] \in Rejected
      BY <1>11, <2>1, <3>1, EndStep
         DEF DispatchState, SetState, Rejected, Ended, Terminated, Exists
    <3>2. CASE state[p] \in {"SENTACCEPT", "RECEIVEDACCEPT"}
      <4>1. Roles'
        BY <1>11, <3>2, SessionAssumption
          DEF Inv, Core, TypeOK, Peers, Roles, DispatchState, SetState
      <4>2. Senders'
        BY <1>11, <3>2, SessionAssumption
          DEF Inv, Core, TypeOK, Peers, Senders, DispatchState, SetState
      <4>3. Uncalled'
        BY <1>11, <3>2, SessionAssumption
          DEF Inv, Core, TypeOK, Peers, Uncalled, NoneCalled, DispatchState,
              SetState
      <4>4. InitiateFindsNoSession'
        BY <1>11, <3>2, SessionAssumption
          DEF Inv, Core, TypeOK, Peers, InitiateFindsNoSession, Uncalled,
              NoneCalled, DispatchState, SetState
      <4>5. AcceptsTrue'
        BY <1>11, <3>2, SessionAssumption
          DEF Inv, Core, TypeOK, Peers, AcceptsTrue, Accepted, Ended, Terminated,
              Roles, DispatchState, SetState
      <4>6. RejectsTrue'
        BY <1>11, <3>2, SessionAssumption
          DEF Inv, Core, TypeOK, Peers, RejectsTrue, Rejected, Ended, Terminated,
              Roles, DispatchState, SetState
      <4>7. AcceptAgreement'
        BY <1>11, <3>2, SessionAssumption
          DEF Inv, Core, TypeOK, Peers, AcceptAgreement, AcceptsTrue, Accepted,
              Ended, Terminated, Roles, DispatchState, SetState
      <4>8. RejectAgreement'
        BY <1>11, <3>2, SessionAssumption
          DEF Inv, Core, TypeOK, Peers, RejectAgreement, RejectsTrue, Rejected,
              Ended, Terminated, Roles, DispatchState, SetState
      <4>. QED  BY <4>1, <4>2, <4>3, <4>4, <4>5, <4>6, <4>7, <4>8 DEF Core
    <3>3. CASE state[p] \notin Rejected \cup {"SENTACCEPT", "RECEIVEDACCEPT"}
      BY <1>11, <2>1, <3>3, StillStep DEF Inv, TypeOK, DispatchState, SetState
    <3>. QED  BY <3>1, <3>2, <3>3
  <2>8. Quiet'
    BY <1>11, SessionAssumption
      DEF Inv, Quiet, TypeOK, Exists, Peers, Found, HeadIs, DispatchState, HeadIs,
          Taken, SetState, States, transport
  <2>9. Held'
    BY <1>11, SessionAssumption
      DEF Inv, Core, Roles, Senders, Held, TypeOK, Peers, Found, Exists, Delivered,
          AckedSends, Unsent, DispatchState, HeadIs, Taken, SetState, States,
          transport
  <2>. QED  BY <1>0, <2>2, <2>8, <2>9 DEF Inv
<1>12. ASSUME NEW p \in Peers,
             DispatchDestroy(p)
      PROVE  Inv'
  <2>1. NewHarmless
    BY <1>12, AnswerHarmless, TerminateHarmless
      DEF NewHarmless, DispatchDestroy, HeadIs, SetState, Quiet
  <2>2. Core'
    BY <1>12, <2>1, EndStep
       DEF Inv, TypeOK, Exists, Ended, Terminated, DispatchDestroy, HeadIs,
           SetState, Quiet
  <2>8. Quiet'
    BY <1>12, SessionAssumption
      DEF Inv, Quiet, TypeOK, Exists, Peers, Found, HeadIs, DispatchDestroy,
          SetState, States
  <2>9. Held'
    BY <1>12, SessionAssumption
      DEF Inv, Core, Roles, Senders, Held, TypeOK, Peers, Found, Exists, Delivered,
          AckedSends, Unsent, DispatchDestroy, SetState, States
  <2>. QED  BY <1>0, <2>2, <2>8, <2>9 DEF Inv
<1>13. ASSUME NEW p \in Peers,
             DispatchError(p)
      PROVE  Inv'
  <2>1. NewHarmless
    BY <1>13, AnswerHarmless, TerminateHarmless
      DEF NewHarmless, DispatchError, HeadIs, TerminateSends, TerminatedState,
          Send, SetState, Request, Quiet
  <2>2. Core'
    BY <1>13, <2>1, EndStep
       DEF Inv, TypeOK, Exists, Ended, Terminated, DispatchError, HeadIs,
           TerminateSends, TerminatedState, Send, SetState, Request, Quiet
  <2>8. Quiet'
    BY <1>13, SessionAssumption
      DEF Inv, Quiet, TypeOK, Exists, Peers, Found, HeadIs, DispatchError, HeadIs,
          Taken, TerminatedState, Terminated, Send, SetState, States, transport
  <2>9. Held'
    BY <1>13, SessionAssumption
      DEF Inv, Core, Roles, Senders, Held, TypeOK, Peers, Found, Exists, Delivered,
          AckedSends, Unsent, DispatchError, HeadIs, Taken, TerminatedState,
          Terminated, Send, SetState, States, transport
  <2>. QED  BY <1>0, <2>2, <2>8, <2>9 DEF Inv
<1>14. ASSUME NEW p \in Peers,
             DispatchConnecting(p)
      PROVE  Inv'
  <2>1. NewHarmless
    BY <1>14, SessionAssumption
       DEF Inv, Core, NewHarmless, Harmless, Senders, TypeOK, Stanza,
           DispatchConnecting
  <2>2. Core'
    BY <1>14, <2>1, StillStep DEF Inv, DispatchConnecting, WritableChange, session
  <2>8. Quiet'
    BY <1>14, SessionAssumption
      DEF Inv, Quiet, TypeOK, Exists, Peers, Found, HeadIs, DispatchConnecting,
          HeadIs, Taken
  <2>9. Held'
    BY <1>14, SessionAssumption
      DEF Inv, Core, Roles, Senders, Held, TypeOK, Peers, Found, Exists, Delivered,
          AckedSends, Unsent, DispatchConnecting, HeadIs, Taken
  <2>. QED  BY <1>0, <2>2, <2>8, <2>9 DEF Inv
<1>15. ASSUME NEW m \in net, m.to \in Peers,
             Refuse(m)
      PROVE  Inv'
  <2>1. NewHarmless
    BY <1>15, AnswerHarmless
       DEF NewHarmless, Refuse, Reply, Wanted
  <2>2. Core'
    BY <1>15, <2>1, StillStep DEF Inv, Refuse, WritableChange, session
  <2>8. Quiet'
    BY <1>15, SessionAssumption
      DEF Inv, Quiet, TypeOK, Exists, Peers, Found, HeadIs, Refuse, Reply, session,
          transport, Kinds
  <2>9. Held'
    BY <1>15, SessionAssumption
      DEF Inv, Core, Roles, Senders, Held, TypeOK, Peers, Found, Exists, Delivered,
          AckedSends, Unsent, Refuse, Reply, session, transport, Kinds
  <2>. QED  BY <1>0, <2>2, <2>8, <2>9 DEF Inv
<1>16. ASSUME NEW m \in net, m.to \in Peers,
             DeliverInitiate(m)
      PROVE  Inv'
  <2>. DEFINE s == "RECEIVEDINITIATE"
  <2>1. Delivered(m, "initiate") /\ state[m.to] = "NONE"
    BY <1>16, InitiateArrives DEF DeliverInitiate
  <2>2. \A n \in net' \ net : \/ Harmless(n)
                              \/ /\ n.type = "reject" /\ n.target = None
                                 /\ n.kind = "set" /\ n.from = m.to
                                 /\ s = "SENTREJECT"
    BY <1>16, AnswerHarmless DEF DeliverInitiate, Delivered, Reply, Wanted
  <2>3. m \notin net'
    BY <1>16, <2>1, AnswerHarmless, InitiateArrives
      DEF DeliverInitiate, Delivered, Reply, Wanted
  <2>4. Core'
    BY <1>16, <2>1, <2>2, <2>3, NewSessionStep DEF DeliverInitiate, SetState
  <2>8. Quiet'
    BY <1>16, SessionAssumption
      DEF Inv, Quiet, TypeOK, Exists, Peers, Found, HeadIs, DeliverInitiate,
          RemoteCandidates, Reply, SetState, Post, States, Kinds, Stanza, Jids
  <2>9. Held'
    BY <1>16, SessionAssumption
      DEF Inv, Core, Roles, Senders, Held, TypeOK, Peers, Found, Exists, Delivered,
          AckedSends, Unsent, DeliverInitiate, RemoteCandidates, Reply, SetState,
          Post, States, Kinds, Stanza, Jids
  <2>. QED  BY <1>0, <2>4, <2>8, <2>9 DEF Inv
<1>17. ASSUME NEW m \in net, m.to \in Peers,
             DeliverUnwanted(m)
      PROVE  Inv'
  <2>. DEFINE s == "SENTREJECT"
  <2>1. Delivered(m, "initiate") /\ state[m.to] = "NONE"
    BY <1>17, InitiateArrives DEF DeliverUnwanted
  <2>2. \A n \in net' \ net : \/ Harmless(n)
                              \/ /\ n.type = "reject" /\ n.target = None
                                 /\ n.kind = "set" /\ n.from = m.to
                                 /\ s = "SENTREJECT"
    BY <1>17, AnswerHarmless
      DEF DeliverUnwanted, Delivered, Reply, Wanted, Request, RejectType, Harmless
  <2>3. m \notin net'
    BY <1>17, <2>1, AnswerHarmless, InitiateArrives
      DEF DeliverUnwanted, Delivered, Reply, Wanted, Request, RejectType, Harmless
  <2>4. Core'
    BY <1>17, <2>1, <2>2, <2>3, NewSessionStep DEF DeliverUnwanted, SetState
  <2>8. Quiet'
    BY <1>17, SessionAssumption
      DEF Inv, Quiet, TypeOK, Exists, Peers, Found, HeadIs, DeliverUnwanted, Reply,
          SetState, Post, States, Kinds, Stanza, transport, Jids
  <2>9. Held'
    BY <1>17, SessionAssumption
      DEF Inv, Core, Roles, Senders, Held, TypeOK, Peers, Found, Exists, Delivered,
          AckedSends, Unsent, DeliverUnwanted, Reply, SetState, Post, States,
          Kinds, Stanza, transport, Jids
  <2>. QED  BY <1>0, <2>4, <2>8, <2>9 DEF Inv
<1>18. ASSUME NEW m \in net, m.to \in Peers, NEW v \in Verdicts,
             DeliverBadInitiate(m, v)
      PROVE  Inv'
  <2>. DEFINE s == IF v = "no_client" THEN "NONE" ELSE "INIT"
  <2>1. Delivered(m, "initiate") /\ state[m.to] = "NONE"
    BY <1>18, InitiateArrives DEF DeliverBadInitiate
  <2>2. \A n \in net' \ net : \/ Harmless(n)
                              \/ /\ n.type = "reject" /\ n.target = None
                                 /\ n.kind = "set" /\ n.from = m.to
                                 /\ s = "SENTREJECT"
    BY <1>18, AnswerHarmless DEF DeliverBadInitiate, Delivered, Reply, Wanted
  <2>3. m \notin net'
    BY <1>18, <2>1, AnswerHarmless, InitiateArrives
      DEF DeliverBadInitiate, Delivered, Reply, Wanted
  <2>4. Core'
    BY <1>18, <2>1, <2>2, <2>3, NewSessionStep DEF DeliverBadInitiate, SetState
  <2>8. Quiet'
    BY <1>18, SessionAssumption
      DEF Inv, Quiet, TypeOK, Exists, Peers, Found, HeadIs, DeliverBadInitiate,
          Reply, SetState, States, Kinds, transport
  <2>9. Held'
    BY <1>18, SessionAssumption
      DEF Inv, Core, Roles, Senders, Held, TypeOK, Peers, Found, Exists, Delivered,
          AckedSends, Unsent, DeliverBadInitiate, Reply, SetState, States, Kinds,
          transport
  <2>. QED  BY <1>0, <2>4, <2>8, <2>9 DEF Inv
<1>19. ASSUME NEW m \in net, m.to \in Peers,
             DeliverAccept(m)
      PROVE  Inv'
  <2>1. m.to = Initiator /\ state[Initiator] = "SENTINITIATE"
        /\ remote[Initiator] = m.from
    BY <1>19 DEF Inv, Core, Roles, Peers, DeliverAccept, Found
  <2>2. NewHarmless
    BY <1>19, AnswerHarmless
      DEF NewHarmless, AckedSends, Unsent, Request, Harmless, DeliverAccept,
          Delivered, Reply, Wanted
  <2>3. Core'
    <3>1. Roles'
      BY <1>19, <2>1, <2>2, SessionAssumption
         DEF Inv, Core, TypeOK, Peers, NewHarmless, Harmless, Roles, DeliverAccept,
             Delivered, SetState
    <3>2. Senders'
      BY <1>19, <2>1, <2>2, SessionAssumption
         DEF Inv, Core, TypeOK, Peers, NewHarmless, Harmless, Senders,
             DeliverAccept, Delivered, SetState
    <3>3. Uncalled'
      BY <1>19, <2>1, <2>2, SessionAssumption
         DEF Inv, Core, TypeOK, Peers, NewHarmless, Harmless, Uncalled, NoneCalled,
             DeliverAccept, Delivered, SetState
    <3>4. InitiateFindsNoSession'
      BY <1>19, <2>1, <2>2, SessionAssumption
         DEF Inv, Core, TypeOK, Peers, NewHarmless, Harmless,
             InitiateFindsNoSession, DeliverAccept, Delivered, SetState
    <3>5. AcceptsTrue'
      BY <1>19, <2>1, <2>2, SessionAssumption
         DEF Inv, Core, TypeOK, Peers, NewHarmless, Harmless, AcceptsTrue,
             Accepted, Ended, Terminated, DeliverAccept, Delivered, SetState
    <3>6. RejectsTrue'
      BY <1>19, <2>1, <2>2, SessionAssumption
         DEF Inv, Core, TypeOK, Peers, NewHarmless, Harmless, RejectsTrue,
             Rejected, Ended, Terminated, DeliverAccept, Delivered, SetState
    <3>7. AcceptAgreement'
      BY <1>19, <2>1, <2>2, SessionAssumption
         DEF Inv, Core, TypeOK, Peers, NewHarmless, Harmless, AcceptAgreement,
             AcceptsTrue, Accepted, Ended, Terminated, DeliverAccept, Delivered,
             SetState
    <3>8. RejectAgreement'
      BY <1>19, <2>1, <2>2, SessionAssumption
         DEF Inv, Core, TypeOK, Peers, NewHarmless, Harmless, RejectAgreement,
             RejectsTrue, Rejected, Ended, Terminated, DeliverAccept, Delivered,
             SetState
    <3>. QED  BY <3>1, <3>2, <3>3, <3>4, <3>5, <3>6, <3>7, <3>8 DEF Core
  <2>8. Quiet'
    BY <1>19, SessionAssumption
      DEF Inv, Quiet, TypeOK, Exists, Peers, Found, HeadIs, DeliverAccept,
          InitiateAcked, RemoteCandidates, Reply, SetState, Post, States, Kinds,
          Stanza
  <2>9. Held'
    BY <1>19, SessionAssumption
      DEF Inv, Core, Roles, Senders, Held, TypeOK, Peers, Found, Exists, Delivered,
          AckedSends, Unsent, DeliverAccept, InitiateAcked, RemoteCandidates,
          Reply, SetState, Post, States, Kinds, Stanza
  <2>. QED  BY <1>0, <2>3, <2>8, <2>9 DEF Inv
<1>20. ASSUME NEW m \in net, m.to \in Peers,
             DeliverReject(m)
      PROVE  Inv'
  <2>1. m.to = Initiator /\ state[Initiator] = "SENTINITIATE"
        /\ remote[Initiator] = m.from
    BY <1>20 DEF Inv, Core, Roles, Peers, DeliverReject, Found
  <2>2. NewHarmless
    BY <1>20, AnswerHarmless DEF NewHarmless, DeliverReject, Delivered, Reply, Wanted
  <2>3. Core'
    <3>1. Roles'
      BY <1>20, <2>1, <2>2, SessionAssumption
         DEF Inv, Core, TypeOK, Peers, NewHarmless, Harmless, Roles, DeliverReject,
             Delivered, SetState
    <3>2. Senders'
      BY <1>20, <2>1, <2>2, SessionAssumption
         DEF Inv, Core, TypeOK, Peers, NewHarmless, Harmless, Senders,
             DeliverReject, Delivered, SetState
    <3>3. Uncalled'
      BY <1>20, <2>1, <2>2, SessionAssumption
         DEF Inv, Core, TypeOK, Peers, NewHarmless, Harmless, Uncalled, NoneCalled,
             DeliverReject, Delivered, SetState
    <3>4. InitiateFindsNoSession'
      BY <1>20, <2>1, <2>2, SessionAssumption
         DEF Inv, Core, TypeOK, Peers, NewHarmless, Harmless,
             InitiateFindsNoSession, DeliverReject, Delivered, SetState
    <3>5. AcceptsTrue'
      BY <1>20, <2>1, <2>2, SessionAssumption
         DEF Inv, Core, TypeOK, Peers, NewHarmless, Harmless, AcceptsTrue,
             Accepted, Ended, Terminated, DeliverReject, Delivered, SetState
    <3>6. RejectsTrue'
      BY <1>20, <2>1, <2>2, SessionAssumption
         DEF Inv, Core, TypeOK, Peers, NewHarmless, Harmless, RejectsTrue,
             Rejected, Ended, Terminated, DeliverReject, Delivered, SetState
    <3>7. AcceptAgreement'
      BY <1>20, <2>1, <2>2, SessionAssumption
         DEF Inv, Core, TypeOK, Peers, NewHarmless, Harmless, AcceptAgreement,
             AcceptsTrue, Accepted, Ended, Terminated, DeliverReject, Delivered,
             SetState
    <3>8. RejectAgreement'
      BY <1>20, <2>1, <2>2, SessionAssumption
         DEF Inv, Core, TypeOK, Peers, NewHarmless, Harmless, RejectAgreement,
             RejectsTrue, Rejected, Ended, Terminated, DeliverReject, Delivered,
             SetState
    <3>. QED  BY <3>1, <3>2, <3>3, <3>4, <3>5, <3>6, <3>7, <3>8 DEF Core
  <2>8. Quiet'
    BY <1>20, SessionAssumption
      DEF Inv, Quiet, TypeOK, Exists, Peers, Found, HeadIs, DeliverReject, Reply,
          SetState, Post, States, Kinds, Stanza, transport
  <2>9. Held'
    BY <1>20, SessionAssumption
      DEF Inv, Core, Roles, Senders, Held, TypeOK, Peers, Found, Exists, Delivered,
          AckedSends, Unsent, DeliverReject, Reply, SetState, Post, States, Kinds,
          Stanza, transport
  <2>. QED  BY <1>0, <2>3, <2>8, <2>9 DEF Inv
<1>21. ASSUME NEW m \in net, m.to \in Peers,
             DeliverTerminate(m)
      PROVE  Inv'
  <2>1. NewHarmless
    BY <1>21, AnswerHarmless, TerminateHarmless
      DEF NewHarmless, DeliverTerminate, Delivered, Found, Reply, Wanted, SetState
  <2>2. Core'
    BY <1>21, <2>1, EndStep
       DEF Inv, TypeOK, Exists, Ended, Terminated, DeliverTerminate, Delivered,
           Found, Reply, Wanted, SetState
  <2>8. Quiet'
    BY <1>21, SessionAssumption
      DEF Inv, Quiet, TypeOK, Exists, Peers, Found, HeadIs, DeliverTerminate,
          Reply, SetState, Post, States, Kinds, Stanza, transport
  <2>9. Held'
    BY <1>21, SessionAssumption
      DEF Inv, Core, Roles, Senders, Held, TypeOK, Peers, Found, Exists, Delivered,
          AckedSends, Unsent, DeliverTerminate, Reply, SetState, Post, States,
          Kinds, Stanza, transport
  <2>. QED  BY <1>0, <2>2, <2>8, <2>9 DEF Inv
<1>22. ASSUME NEW m \in net, m.to \in Peers,
             DeliverTransportInfo(m)
      PROVE  Inv'
  <2>1. NewHarmless
    BY <1>22, AnswerHarmless
       DEF NewHarmless, DeliverTransportInfo, Delivered, Reply, Wanted
  <2>2. Core'
    BY <1>22, <2>1, StillStep DEF Inv, DeliverTransportInfo, WritableChange, session
  <2>8. Quiet'
    BY <1>22, SessionAssumption
      DEF Inv, Quiet, TypeOK, Exists, Peers, Found, HeadIs, DeliverTransportInfo,
          RemoteCandidates, Reply, Post, Kinds, Stanza
  <2>9. Held'
    BY <1>22, SessionAssumption
      DEF Inv, Core, Roles, Senders, Held, TypeOK, Peers, Found, Exists, Delivered,
          AckedSends, Unsent, DeliverTransportInfo, RemoteCandidates, Reply, Post,
          Kinds, Stanza
  <2>. QED  BY <1>0, <2>2, <2>8, <2>9 DEF Inv
<1>23. ASSUME NEW m \in net,
             ReceiveResult(m)
      PROVE  Inv'
  <2>1. NewHarmless
    BY <1>23, SessionAssumption
       DEF Inv, Core, NewHarmless, Harmless, Senders, TypeOK, Stanza,
           ReceiveResult, Answered, AckedSends, Unsent, Request
  <2>2. Core'
    BY <1>23, <2>1, StillStep DEF Inv, ReceiveResult, WritableChange, session
  <2>8. Quiet'
    BY <1>23, SessionAssumption
      DEF Inv, Quiet, TypeOK, Exists, Peers, Found, HeadIs, ReceiveResult,
          InitiateAcked, Answered, Stanza
  <2>9. Held'
    BY <1>23, SessionAssumption
      DEF Inv, Core, Roles, Senders, Held, TypeOK, Peers, Found, Exists, Delivered,
          AckedSends, Unsent, ReceiveResult, InitiateAcked, Answered, Stanza
  <2>. QED  BY <1>0, <2>2, <2>8, <2>9 DEF Inv
<1>24. ASSUME NEW m \in net,
             ReceiveError(m)
      PROVE  Inv'
  <2>1. NewHarmless
    BY <1>24, SessionAssumption
       DEF Inv, Core, NewHarmless, Harmless, Senders, TypeOK, Stanza, ReceiveError,
           Answered
  <2>2. Core'
    BY <1>24, <2>1, StillStep DEF Inv, ReceiveError, WritableChange, session
  <2>8. Quiet'
    <3>1. m.from \in Peers
      BY <1>24 DEF Inv, TypeOK, Stanza
    <3>2. CASE Heard(m)
      BY <1>24, <3>1, <3>2
        DEF Inv, Quiet, TypeOK, Exists, Heard, Found, ReceiveError, Post, transport
    <3>3. CASE ~Heard(m)
      BY <1>24, <3>1, <3>3
        DEF Inv, Quiet, TypeOK, Exists, ReceiveError, Post, transport
    <3>. QED  BY <3>2, <3>3
  <2>9. Held'
    BY <1>24, SessionAssumption
      DEF Inv, Core, Roles, Senders, Held, TypeOK, Peers, Found, Exists, Delivered,
          AckedSends, Unsent, ReceiveError, Answered, Post, Stanza, transport
  <2>. QED  BY <1>0, <2>2, <2>8, <2>9 DEF Inv
<1>25. ASSUME NEW m \in net,
             ReceiveRedirect(m)
      PROVE  Inv'
  <2>1. m.from = Initiator /\ m.target \in Responders
        /\ state[Initiator] = "SENTINITIATE"
    BY <1>25, SessionAssumption
       DEF Inv, Core, Roles, TypeOK, Stanza, Peers, MayRedirect, ReceiveRedirect
  <2>2. NoneCalled
    <3>1. m.to \notin Peers /\ m.to \in Jids \cup {None}
      BY <1>25 DEF Inv, Core, Senders, TypeOK, Stanza, MayRedirect, ReceiveRedirect
    <3>2. remote[Initiator] = m.to /\ state[Initiator] = "SENTINITIATE"
      BY <1>25, <2>1 DEF ReceiveRedirect, Heard, Found, MayRedirect
    <3>. QED  BY <3>1, <3>2 DEF Inv, Core, Uncalled, Jids
  <2>. DEFINE first == Request("initiate", Initiator, m.target, {})
  <2>4. \A n \in net' \ net : Harmless(n) \/ n = first
    BY <1>25, <2>1 DEF ReceiveRedirect, Answered, Harmless, Request
  <2>3. Core'
    <3>1. Roles'
      BY <1>25, <2>1, <2>2, <2>4, SessionAssumption
         DEF Inv, Core, TypeOK, Peers, NewHarmless, Harmless, Roles,
             ReceiveRedirect, MayRedirect, Request
    <3>2. Senders'
      BY <1>25, <2>1, <2>2, <2>4, SessionAssumption
         DEF Inv, Core, TypeOK, Peers, NewHarmless, Harmless, Senders,
             ReceiveRedirect, MayRedirect, Request
    <3>3. Uncalled'
      BY <1>25, <2>1, <2>2, <2>4, SessionAssumption
         DEF Inv, Core, TypeOK, Peers, NewHarmless, Harmless, Uncalled, NoneCalled,
             Jids, ReceiveRedirect, MayRedirect, Request
    <3>4. InitiateFindsNoSession'
      BY <1>25, <2>1, <2>2, <2>4, SessionAssumption
         DEF Inv, Core, TypeOK, Peers, NewHarmless, Harmless,
             InitiateFindsNoSession, NoneCalled, ReceiveRedirect, MayRedirect,
             Request
    <3>5. AcceptsTrue'
      BY <1>25, <2>1, <2>2, <2>4, SessionAssumption
         DEF Inv, Core, TypeOK, Peers, NewHarmless, Harmless, AcceptsTrue,
             Accepted, Ended, Terminated, ReceiveRedirect, MayRedirect, Request
    <3>6. RejectsTrue'
      BY <1>25, <2>1, <2>2, <2>4, SessionAssumption
         DEF Inv, Core, TypeOK, Peers, NewHarmless, Harmless, RejectsTrue,
             Rejected, Ended, Terminated, ReceiveRedirect, MayRedirect, Request
    <3>7. AcceptAgreement'
      BY <1>25, <2>1, <2>2, <2>4, SessionAssumption
         DEF Inv, Core, TypeOK, Peers, NewHarmless, Harmless, AcceptAgreement,
             AcceptsTrue, Accepted, Ended, Terminated, ReceiveRedirect,
             MayRedirect, Request
    <3>8. RejectAgreement'
      BY <1>25, <2>1, <2>2, <2>4, SessionAssumption
         DEF Inv, Core, TypeOK, Peers, NewHarmless, Harmless, RejectAgreement,
             RejectsTrue, Rejected, Ended, Terminated, ReceiveRedirect,
             MayRedirect, Request
    <3>. QED  BY <3>1, <3>2, <3>3, <3>4, <3>5, <3>6, <3>7, <3>8 DEF Core
  <2>8. Quiet'
    BY <1>25, SessionAssumption
      DEF Inv, Quiet, TypeOK, Exists, Peers, Found, HeadIs, ReceiveRedirect,
          MayRedirect, Answered, Stanza, Jids, Peers
  <2>9. Held'
    BY <1>25, SessionAssumption
      DEF Inv, Core, Roles, Senders, Held, TypeOK, Peers, Found, Exists, Delivered,
          AckedSends, Unsent, ReceiveRedirect, MayRedirect, Answered, Stanza, Jids,
          Peers
  <2>. QED  BY <1>0, <2>3, <2>8, <2>9 DEF Inv
<1>26. ASSUME NEW r \in pending,
             SendTimeout(r)
      PROVE  Inv'
  <2>1. NewHarmless
    BY <1>26, SessionAssumption
       DEF Inv, Core, NewHarmless, Harmless, Senders, TypeOK, Stanza, SendTimeout,
           Unwanted
  <2>2. Core'
    BY <1>26, <2>1, StillStep DEF Inv, SendTimeout, WritableChange, session
  <2>8. Quiet'
    <3>1. r.from \in Peers
      BY <1>26 DEF Inv, TypeOK, Stanza
    <3>2. CASE Found(r.from, r.to)
      BY <1>26, <3>1, <3>2
        DEF Inv, Quiet, TypeOK, Exists, Heard, Found, SendTimeout, Post, transport
    <3>3. CASE ~Found(r.from, r.to)
      BY <1>26, <3>1, <3>3
        DEF Inv, Quiet, TypeOK, Exists, SendTimeout, Post, transport
    <3>. QED  BY <3>2, <3>3
  <2>9. Held'
    BY <1>26, SessionAssumption
      DEF Inv, Core, Roles, Senders, Held, TypeOK, Peers, Found, Exists, Delivered,
          AckedSends, Unsent, SendTimeout, Unwanted, Post, Stanza, transport
  <2>. QED  BY <1>0, <2>2, <2>8, <2>9 DEF Inv
<1>27. ASSUME NEW m \in net, NEW k \in {"result", "error", "wait", "redirect"},
             NEW t \in Responders \cup {None},
             ServerAnswers(m, k, t)
      PROVE  Inv'
  <2>0. /\ m \in Stanza /\ [m EXCEPT !.kind = k, !.target = t].kind = k
        /\ [m EXCEPT !.kind = k, !.target = t].type = m.type
        /\ [m EXCEPT !.kind = k, !.target = t].from = m.from
        /\ [m EXCEPT !.kind = k, !.target = t].to = m.to
        /\ [m EXCEPT !.kind = k, !.target = t].cands = m.cands
    BY DEF Inv, TypeOK, Stanza
  <2>1. NewHarmless
    BY <1>27, <2>0
       DEF Inv, Core, Senders, NewHarmless, Harmless, ServerAnswers, Wanted
  <2>2. Core'
    BY <1>27, <2>1, StillStep DEF Inv, ServerAnswers, WritableChange, session
  <2>8. Quiet'
    BY <1>27, SessionAssumption
      DEF Inv, Quiet, TypeOK, Exists, Peers, Found, HeadIs, ServerAnswers, Wanted,
          Stanza, Kinds, session, transport
  <2>9. Held'
    BY <1>27, SessionAssumption
      DEF Inv, Core, Roles, Senders, Held, TypeOK, Peers, Found, Exists, Delivered,
          AckedSends, Unsent, ServerAnswers, Wanted, Stanza, Kinds, session,
          transport
  <2>. QED  BY <1>0, <2>2, <2>8, <2>9 DEF Inv
<1>28. ASSUME NEW m \in net, NEW k \in {"error", "wait"},
             ServerRefuses(m, k)
      PROVE  Inv'
  <2>1. NewHarmless
    BY <1>28, AnswerHarmless
       DEF NewHarmless, ServerRefuses, Wanted
  <2>2. Core'
    BY <1>28, <2>1, StillStep DEF Inv, ServerRefuses, WritableChange, session
  <2>8. Quiet'
    BY <1>28, SessionAssumption
      DEF Inv, Quiet, TypeOK, Exists, Peers, Found, HeadIs, ServerRefuses, Kinds,
          session, transport
  <2>9. Held'
    BY <1>28, SessionAssumption
      DEF Inv, Core, Roles, Senders, Held, TypeOK, Peers, Found, Exists, Delivered,
          AckedSends, Unsent, ServerRefuses, Kinds, session, transport
  <2>. QED  BY <1>0, <2>2, <2>8, <2>9 DEF Inv
<1>29. CASE UNCHANGED vars
  BY <1>0, <1>29, StillStep DEF vars, Inv, Quiet, Held, Exists, NewHarmless
<1>. QED
  BY <1>1, <1>2, <1>3, <1>4, <1>5, <1>6, <1>7, <1>8, <1>9, <1>10, <1>11, <1>12,
     <1>13, <1>14, <1>15, <1>16, <1>17, <1>18, <1>19, <1>20, <1>21, <1>22, <1>23,
     <1>24, <1>25, <1>26, <1>27, <1>28, <1>29
     DEF Next, Thread, Calls, Watch, Dispatch, Deliver, Receive, Server

-------------------------------------------------------------------------------
\* The invariant of the negotiation: what every queue and every message on the wire
\* implies about the two sides of a session.
THEOREM Invariance == Spec => []Inv
<1>1. Inv /\ [Next]_vars => Inv'
  BY NextInv
<1>. QED  BY <1>1, InitInv, PTL DEF Spec

\* Whoever the initiator believes to have accepted has accepted, or has ended the
\* call since: the CheckState, FindSession and redirect rules of session.cc keep
\* every other accept out.
THEOREM AcceptsAgree == Spec => []AcceptAgreement
<1>1. Inv => AcceptAgreement
  BY DEF Inv, Core
<1>. QED  BY <1>1, Invariance, PTL

\* The initiator that shows a rejection was rejected by the peer it shows.
THEOREM RejectsAgree == Spec => []RejectAgreement
<1>1. Inv => RejectAgreement
  BY DEF Inv, Core
<1>. QED  BY <1>1, Invariance, PTL

\* Once accepted, the initiator holds no candidate back for an acknowledgement
\* of its initiate.
THEOREM NoneHeldBack == Spec => []NothingHeldBack
<1>1. Inv => NothingHeldBack
  BY DEF Inv, Held, NothingHeldBack
<1>. QED  BY <1>1, Invariance, PTL

\* SessionManager::CreateSession never overwrites a session in its map, through
\* redirects, refusals and stanzas out of order.
THEOREM NoSessionOverwritten == Spec => []InitiateFindsNoSession
<1>1. Inv => InitiateFindsNoSession
  BY DEF Inv, Core
<1>. QED  BY <1>1, Invariance, PTL

-------------------------------------------------------------------------------
(***************************************************************************)
(* Candidates follow the initiate, whatever order the server gives to the  *)
(* stanzas, because the initiator holds them back until its initiate has   *)
(* been acknowledged, and a resource acknowledges it when it has the       *)
(* session.  It takes a call that goes to a full JID: one that the server  *)
(* redirects has been acknowledged by the server alone.                    *)
(***************************************************************************)
\* What a resource gets, or says, only after the initiate has reached it.
Late(m) ==
  /\ m.to \in Responders
  /\ \/ m.kind = "result" /\ m.type = "initiate"
     \/ m.kind = "set" /\ m.type = "transport-info"
LateOnly == \A m \in net : Late(m) => state[m.to] # "NONE"

\* A responder talks to the initiator; and an acknowledged initiator, if its
\* session is still there, to a responder that the initiate has reached.
Reached(r) == r \in Responders /\ state[r] # "NONE"
Partners ==
  /\ \A q \in Responders : remote[q] \in {None, Initiator}
  /\ state[Initiator] = "INIT" => remote[Initiator] = None /\ ~acked
  /\ acked => remote[Initiator] = None \/ Reached(remote[Initiator])

Follows == Partners /\ LateOnly

\* No step takes back that an initiate has reached a resource.
NewLate  == \A m \in net' \ net : Late(m) => state'[m.to] # "NONE"
NoneLost == \A q \in Responders : state[q] # "NONE" => state'[q] # "NONE"

LEMMA LateStep ==
  ASSUME Follows, NoneLost, NewLate PROVE LateOnly'
BY DEF Follows, LateOnly, NewLate, NoneLost, Late

\* A step of a session that goes on with the same peer.
LEMMA FollowsOn ==
  ASSUME Follows, NoneLost, NewLate, UNCHANGED <<remote, acked>>,
         state'[Initiator] = "INIT" => state[Initiator] = "INIT"
  PROVE  Follows'
<1>1. LateOnly'
  BY LateStep
<1>2. Partners'
  BY DEF Follows, Partners, Reached, NoneLost
<1> QED BY <1>1, <1>2 DEF Follows

\* A change of state of one session, that does not make it new.
LEMMA StateGoesOn ==
  ASSUME Inv, NEW p \in Peers, NEW s, s # "NONE" \/ s = state[p], SetState(p, s),
         s # "INIT" \/ p \in Responders \/ s = state[p]
  PROVE  NoneLost /\ (state'[Initiator] = "INIT" => state[Initiator] = "INIT")
<1>1. state' = [state EXCEPT ![p] = s] /\ state \in [Peers -> States]
  BY DEF SetState, Inv, TypeOK
<1>2. \A q \in Peers : state'[q] = IF q = p THEN s ELSE state[q]
  BY <1>1
<1>3. Initiator \in Peers /\ Responders \subseteq Peers /\ Initiator \notin Responders
  BY SessionAssumption DEF Peers
<1> QED BY <1>2, <1>3 DEF NoneLost

\* What is not late: a request other than candidates, and the answer to a request
\* other than an initiate.
LEMMA NotLate ==
  /\ \A type, from, to, cs : type # "transport-info" => ~Late(Request(type, from, to, cs))
  /\ \A m \in Stanza, kind \in Kinds :
       kind \in {"error", "wait"} \/ (kind = "result" /\ m.type # "initiate")
         => ~Late(Answer(m, kind))
<1>1. ASSUME NEW type, NEW from, NEW to, NEW cs, type # "transport-info"
      PROVE  ~Late(Request(type, from, to, cs))
  BY <1>1 DEF Late, Request
<1>2. ASSUME NEW m \in Stanza, NEW kind \in Kinds,
             kind \in {"error", "wait"} \/ (kind = "result" /\ m.type # "initiate")
      PROVE  ~Late(Answer(m, kind))
  <2>1. Answer(m, kind).kind = kind /\ Answer(m, kind).type = m.type
    BY DEF Answer, Stanza
  <2> QED BY <1>2, <2>1 DEF Late
<1> QED BY <1>1, <1>2

LEMMA TerminateNotLate ==
  ASSUME NEW p, NEW r \in TerminateSends(p) PROVE ~Late(r)
BY NotLate DEF TerminateSends

\* The candidates that a peer sends go to one that has the session.
LEMMA CandidatesNotEarly ==
  ASSUME Inv, Follows, NEW p \in Peers, NEW cs, p = Initiator => acked,
         Late(Request("transport-info", p, remote[p], cs))
  PROVE  state[remote[p]] # "NONE"
<1>1. remote[p] \in Responders
  BY DEF Late, Request
<1>2. None \notin Responders /\ Initiator \notin Responders
  BY SessionAssumption DEF Jids, Peers
<1>3. p = Initiator
  BY <1>1, <1>2 DEF Follows, Partners, Peers
<1> QED BY <1>1, <1>2, <1>3 DEF Follows, Partners, Reached

-------------------------------------------------------------------------------
\* The client's calls, the transport and the thread's own messages.
LEMMA OwnFollows ==
  ASSUME Inv, Follows, NEW p \in Peers,
         Calls(p) \/ Watch(p) \/ Dispatch(p) \/ TerminateAll(p)
  PROVE  Follows'
<1> USE SessionAssumption
<1>0. \A q \in Peers : state[q] \in States
  BY DEF Inv, TypeOK
<1>1. ASSUME NEW r \in Responders \cup Bare, Initiate(r) PROVE Follows'
  <2>1. SetState(Initiator, "SENTINITIATE") /\ state[Initiator] = "INIT"
        /\ UNCHANGED acked /\ remote' = [remote EXCEPT ![Initiator] = r]
    BY <1>1 DEF Initiate
  <2>2. Initiator \in Peers
    BY DEF Peers
  <2>3. NoneLost
    BY <2>1, <2>2, StateGoesOn
  <2>4. NewLate
    BY <1>1, NotLate DEF Initiate, Send, NewLate
  <2>5. Partners'
    <3>1. ~acked' /\ state'[Initiator] = "SENTINITIATE"
      BY <2>1, <2>2 DEF SetState, Inv, TypeOK, Follows, Partners
    <3>2. \A q \in Responders : remote'[q] = remote[q]
      BY <2>1 DEF Inv, TypeOK, Peers
    <3> QED BY <3>1, <3>2 DEF Follows, Partners
  <2> QED BY <2>3, <2>4, <2>5, LateStep DEF Follows
<1>2. ASSUME Accept(p) \/ Reject(p) PROVE Follows'
  <2>1. SetState(p, "SENTACCEPT") \/ SetState(p, "SENTREJECT")
    BY <1>2 DEF Accept, Reject
  <2>2. UNCHANGED <<remote, acked>>
    BY <1>2 DEF Accept, Reject
  <2>3. NewLate
    BY <1>2, NotLate DEF Accept, Reject, RejectType, Send, NewLate
  <2> QED BY <2>1, <2>2, <2>3, StateGoesOn, FollowsOn
<1>3. ASSUME Terminate(p) PROVE Follows'
  <2>1. SetState(p, "SENTTERMINATE") /\ UNCHANGED <<remote, acked>>
    BY <1>3 DEF Terminate
  <2>2. NewLate
    BY <1>3, TerminateNotLate DEF Terminate, Send, NewLate
  <2> QED BY <2>1, <2>2, StateGoesOn, FollowsOn
<1>4. ASSUME StartTerminateAll(p) PROVE Follows'
  <2>1. UNCHANGED <<state, remote, acked, net>>
    BY <1>4 DEF StartTerminateAll, session
  <2> QED BY <2>1, FollowsOn DEF NoneLost, NewLate
<1>5. ASSUME TerminateAll(p) PROVE Follows'
  <2> DEFINE s == IF Exists(p) THEN TerminatedState(p) ELSE state[p]
  <2>1. SetState(p, s) /\ UNCHANGED <<remote, acked>>
    BY <1>5 DEF TerminateAll
  <2>2. s \in {"SENTTERMINATE", "RECEIVEDTERMINATE"} \/ s = state[p]
    BY DEF TerminatedState, Terminated
  <2>3. NewLate
    BY <1>5, TerminateNotLate DEF TerminateAll, Send, NewLate
  <2> HIDE DEF s
  <2>4. NoneLost /\ (state'[Initiator] = "INIT" => state[Initiator] = "INIT")
    BY <2>1, <2>2, StateGoesOn
  <2> QED BY <2>1, <2>3, <2>4, FollowsOn
<1>6. ASSUME NEW c \in Candidates, CandidatesReady(p, c) PROVE Follows'
  <2>1. UNCHANGED <<state, remote, acked>>
    BY <1>6 DEF CandidatesReady, session
  <2>2. \/ net' = net
        \/ /\ net' = net \cup {Request("transport-info", p, remote[p], {c})}
           /\ p = Initiator => acked
    BY <1>6 DEF CandidatesReady, Send
  <2>3. NewLate
    <3>1. ASSUME NEW m \in net' \ net, Late(m) PROVE state'[m.to] # "NONE"
      <4>1. m = Request("transport-info", p, remote[p], {c}) /\ (p = Initiator => acked)
        BY <2>2, <3>1
      <4>2. state[remote[p]] # "NONE" /\ m.to = remote[p]
        BY <3>1, <4>1, CandidatesNotEarly DEF Request
      <4> QED BY <2>1, <4>2
    <3> QED BY <3>1 DEF NewLate
  <2> QED BY <2>1, <2>3, FollowsOn DEF NoneLost
<1>7. ASSUME TransportWritable(p) \/ TransportUnwritable(p) \/ TimerFires(p)
             \/ DispatchConnecting(p)
      PROVE  Follows'
  <2>1. UNCHANGED <<state, remote, acked, net>>
    BY <1>7 DEF TransportWritable, TransportUnwritable, WritableChange, TimerFires,
                DispatchConnecting, session
  <2> QED BY <2>1, FollowsOn DEF NoneLost, NewLate
<1>8. ASSUME DispatchState(p) PROVE Follows'
  <2> DEFINE s == IF state[p] \in {"SENTACCEPT", "RECEIVEDACCEPT"} THEN "INPROGRESS"
                  ELSE IF state[p] \in Rejected THEN "SENTTERMINATE"
                  ELSE state[p]
  <2>1. SetState(p, s) /\ UNCHANGED <<remote, acked, net>>
    BY <1>8 DEF DispatchState
  <2>2. s \in {"INPROGRESS", "SENTTERMINATE"} \/ s = state[p]
    OBVIOUS
  <2> HIDE DEF s
  <2>3. NoneLost /\ (state'[Initiator] = "INIT" => state[Initiator] = "INIT")
    BY <2>1, <2>2, StateGoesOn
  <2>4. NewLate
    BY <2>1 DEF NewLate
  <2> QED BY <2>1, <2>3, <2>4, FollowsOn
<1>9. ASSUME DispatchDestroy(p) PROVE Follows'
  <2>1. /\ SetState(p, "GONE") /\ remote' = [remote EXCEPT ![p] = None]
        /\ UNCHANGED acked /\ net' \subseteq net
    BY <1>9 DEF DispatchDestroy
  <2>2. NoneLost /\ (state'[Initiator] = "INIT" => state[Initiator] = "INIT")
    BY <2>1, StateGoesOn
  <2>3. \A q \in Peers : remote'[q] = IF q = p THEN None ELSE remote[q]
    BY <2>1 DEF Inv, TypeOK
  <2>4. Partners'
    BY <2>1, <2>2, <2>3 DEF Follows, Partners, Reached, NoneLost, Peers
  <2>5. LateOnly'
    BY <2>1, <2>2, LateStep DEF NewLate
  <2> QED BY <2>4, <2>5 DEF Follows
<1>10. ASSUME DispatchError(p) PROVE Follows'
  <2> DEFINE s == TerminatedState(p)
  <2>1. SetState(p, s) /\ UNCHANGED <<remote, acked>>
    BY <1>10 DEF DispatchError
  <2>2. s \in {"SENTTERMINATE", "RECEIVEDTERMINATE"}
    BY DEF TerminatedState, Terminated
  <2>3. NewLate
    BY <1>10, TerminateNotLate DEF DispatchError, Send, NewLate
  <2> HIDE DEF s
  <2>4. NoneLost /\ (state'[Initiator] = "INIT" => state[Initiator] = "INIT")
    BY <2>1, <2>2, StateGoesOn
  <2> QED BY <2>1, <2>3, <2>4, FollowsOn
<1> QED BY <1>1, <1>2, <1>3, <1>4, <1>5, <1>6, <1>7, <1>8, <1>9, <1>10
        DEF Calls, Watch, Dispatch

-------------------------------------------------------------------------------
\* A stanza is refused, or answered without a change of the session.
LEMMA AnswerNotLate ==
  ASSUME Inv, NEW m \in net, NEW kind \in {"error", "wait"},
         net' \subseteq net \cup Wanted(Answer(m, kind))
  PROVE  NewLate
<1>1. m \in Stanza /\ kind \in Kinds
  BY DEF Inv, TypeOK, Kinds
<1>2. ~Late(Answer(m, kind))
  BY <1>1, NotLate
<1> QED BY <1>2 DEF NewLate, Wanted

\* Requests that are taken: m.type is not that of an initiate, and the answer is
\* not late; or it is one, and the session is there.
LEMMA DeliverFollows ==
  ASSUME Inv, Follows, NEW m \in net, m.to \in Peers, Deliver(m)
  PROVE  Follows'
<1> USE SessionAssumption
<1>0. m \in Stanza /\ Answer(m, "result").to = m.to
  BY DEF Inv, TypeOK, Answer, Stanza
<1>1. ASSUME Refuse(m) PROVE Follows'
  <2>1. UNCHANGED <<state, remote, acked>> /\ net' \subseteq net \cup Wanted(Answer(m, "error"))
    BY <1>1 DEF Refuse, Reply, session
  <2>2. NewLate
    BY <2>1, AnswerNotLate
  <2> QED BY <2>1, <2>2, FollowsOn DEF NoneLost
<1>2. ASSUME NEW v \in Verdicts, DeliverBadInitiate(m, v) PROVE Follows'
  <2> DEFINE s == IF v = "no_client" THEN state[m.to] ELSE "INIT"
  <2>1. SetState(m.to, s) /\ UNCHANGED <<remote, acked>>
        /\ net' \subseteq net \cup Wanted(Answer(m, "error"))
        /\ Delivered(m, "initiate")
    BY <1>2 DEF DeliverBadInitiate, Reply
  <2>2. m.to \in Responders
    BY <2>1, InitiateArrives
  <2>3. s = "INIT" \/ s = state[m.to]
    OBVIOUS
  <2> HIDE DEF s
  <2>4. NoneLost /\ (state'[Initiator] = "INIT" => state[Initiator] = "INIT")
    BY <2>1, <2>2, <2>3, StateGoesOn
  <2>5. NewLate
    BY <2>1, AnswerNotLate
  <2> QED BY <2>1, <2>4, <2>5, FollowsOn
<1>3. ASSUME DeliverInitiate(m) \/ DeliverUnwanted(m) PROVE Follows'
  <2>1. /\ Delivered(m, "initiate")
        /\ SetState(m.to, "RECEIVEDINITIATE") \/ SetState(m.to, "SENTREJECT")
        /\ remote' = [remote EXCEPT ![m.to] = m.from] /\ UNCHANGED acked
    BY <1>3 DEF DeliverInitiate, DeliverUnwanted
  <2>2. m.to \in Responders /\ m.from = Initiator
    BY <2>1, InitiateArrives DEF Inv, Core, Senders, Delivered
  <2>3. NoneLost /\ (state'[Initiator] = "INIT" => state[Initiator] = "INIT")
        /\ state'[m.to] # "NONE"
    <3>1. NoneLost /\ (state'[Initiator] = "INIT" => state[Initiator] = "INIT")
      BY <2>1, StateGoesOn
    <3>2. state'[m.to] # "NONE"
      BY <2>1 DEF SetState, Inv, TypeOK
    <3> QED BY <3>1, <3>2
  <2>4. \A n \in net' \ net : n = Answer(m, "result")
                              \/ n = Request(RejectType, m.to, m.from, {})
    BY <1>3 DEF DeliverInitiate, DeliverUnwanted, Reply, Wanted
  <2>5. NewLate
    <3>1. ~Late(Request(RejectType, m.to, m.from, {}))
      BY NotLate DEF RejectType
    <3> QED BY <1>0, <2>3, <2>4, <3>1 DEF NewLate
  <2>6. \A q \in Peers : remote'[q] = IF q = m.to THEN Initiator ELSE remote[q]
    BY <2>1, <2>2 DEF Inv, TypeOK
  <2>7. Partners'
    <3>1. Initiator \in Peers /\ Initiator # m.to /\ Responders \subseteq Peers
      BY <2>2 DEF Peers
    <3> QED BY <2>1, <2>3, <2>6, <3>1 DEF Follows, Partners, Reached, NoneLost
  <2> QED BY <2>3, <2>5, <2>7, LateStep DEF Follows
<1>4. ASSUME DeliverAccept(m) PROVE Follows'
  <2>1. /\ SetState(m.to, "RECEIVEDACCEPT") /\ state[m.to] = "SENTINITIATE"
        /\ remote' = remote /\ acked' = TRUE
        /\ Found(m.to, m.from) /\ Delivered(m, "accept")
    BY <1>4 DEF DeliverAccept, InitiateAcked
  <2>2. m.to = Initiator /\ remote[Initiator] = m.from
    BY <2>1 DEF Inv, Core, Roles, Found, Peers
  <2>3. NoneLost /\ (state'[Initiator] = "INIT" => state[Initiator] = "INIT")
    BY <2>1, StateGoesOn
  <2>4. Reached(remote[Initiator])
    BY <2>1, <2>2 DEF Inv, Core, AcceptsTrue, Delivered, Reached, Accepted, Ended, Terminated
  <2>5. Partners'
    <3>1. state'[Initiator] = "RECEIVEDACCEPT"
      BY <2>1, <2>2 DEF SetState, Inv, TypeOK
    <3> QED BY <2>1, <2>3, <2>4, <3>1 DEF Follows, Partners, Reached, NoneLost
  <2>6. \A n \in net' \ net : \/ n = Answer(m, "result")
                              \/ n.to = remote[Initiator]
    BY <1>4, <2>2 DEF DeliverAccept, Reply, Wanted, AckedSends, Unsent, Request
  <2>7. NewLate
    <3>1. ~Late(Answer(m, "result"))
      BY <1>0, <2>1, NotLate DEF Delivered, Kinds
    <3> QED BY <2>3, <2>4, <2>6, <3>1 DEF NewLate, NoneLost, Reached
  <2> QED BY <2>3, <2>5, <2>7, LateStep DEF Follows
<1>5. ASSUME DeliverReject(m) \/ DeliverTerminate(m) \/ DeliverTransportInfo(m)
      PROVE  Follows'
  <2>1. /\ UNCHANGED <<remote, acked>>
        /\ net' \subseteq net \cup Wanted(Answer(m, "result"))
        /\ m.type # "initiate"
        /\ \/ SetState(m.to, "RECEIVEDREJECT") \/ SetState(m.to, "RECEIVEDTERMINATE")
           \/ state' = state
    BY <1>5 DEF DeliverReject, DeliverTerminate, DeliverTransportInfo, Reply, Delivered
  <2>2. NewLate
    <3>1. ~Late(Answer(m, "result"))
      BY <1>0, <2>1, NotLate DEF Kinds
    <3> QED BY <2>1, <3>1 DEF NewLate, Wanted
  <2>3. NoneLost /\ (state'[Initiator] = "INIT" => state[Initiator] = "INIT")
    <3>1. CASE state' = state
      BY <3>1 DEF NoneLost
    <3>2. CASE SetState(m.to, "RECEIVEDREJECT") \/ SetState(m.to, "RECEIVEDTERMINATE")
      BY <3>2, StateGoesOn
    <3> QED BY <2>1, <3>1, <3>2
  <2> QED BY <2>1, <2>2, <2>3, FollowsOn
<1> QED BY <1>1, <1>2, <1>3, <1>4, <1>5 DEF Deliver

\* Answers to the peer's own requests.
LEMMA ReceiveFollows ==
  ASSUME Bare = {}, Inv, Follows, NEW m \in net, m.from \in Peers, Receive(m)
  PROVE  Follows'
<1> USE SessionAssumption
<1>1. ASSUME ReceiveResult(m) PROVE Follows'
  <2> DEFINE initiate == Heard(m) /\ m.type = "initiate"
  <2>1. /\ UNCHANGED <<state, remote>> /\ m.kind = "result"
        /\ acked' = (initiate \/ acked) /\ acked \in BOOLEAN
        /\ net' \subseteq net \cup (IF initiate THEN AckedSends(m.from) ELSE {})
    BY <1>1 DEF ReceiveResult, InitiateAcked, Answered, Inv, TypeOK
  <2>2. CASE ~initiate
    <3>1. NewLate /\ UNCHANGED acked
      BY <2>1, <2>2 DEF NewLate
    <3> QED BY <2>1, <3>1, FollowsOn DEF NoneLost
  <2>3. CASE initiate
    <3>1. /\ m.from = Initiator /\ m.to \in Responders
          /\ remote[Initiator] = m.to
      BY <2>3 DEF Inv, Core, Senders, Heard, Found
    <3>2. Reached(remote[Initiator])
      BY <2>1, <2>3, <3>1 DEF Follows, LateOnly, Late, Reached
    <3>3. state[Initiator] # "INIT"
      <4>1. None \notin Responders
        BY DEF Jids, Peers
      <4> QED BY <3>1, <4>1 DEF Follows, Partners
    <3>4. Partners'
      BY <2>1, <3>2, <3>3 DEF Follows, Partners, Reached
    <3>5. NewLate
      <4>1. \A n \in net' \ net : n.to = remote[Initiator]
        BY <2>1, <2>3, <3>1 DEF AckedSends, Unsent, Request
      <4> QED BY <2>1, <3>2, <4>1 DEF NewLate, Reached
    <3>6. NoneLost
      BY <2>1 DEF NoneLost
    <3> QED BY <3>4, <3>5, <3>6, LateStep DEF Follows
  <2> QED BY <2>2, <2>3
<1>2. ASSUME ReceiveError(m) PROVE Follows'
  <2>1. UNCHANGED <<state, remote, acked>> /\ net' \subseteq net
    BY <1>2 DEF ReceiveError, Answered
  <2> QED BY <2>1, FollowsOn DEF NoneLost, NewLate
<1>3. ASSUME ReceiveRedirect(m) PROVE FALSE
  <2>1. m.kind = "redirect" /\ state[m.from] = "SENTINITIATE" /\ remote[m.from] = m.to
    BY <1>3 DEF ReceiveRedirect, MayRedirect, Heard, Found
  <2>2. m.from = Initiator /\ m.to \notin Peers /\ m.to # None
    BY <2>1 DEF Inv, Core, Roles, Senders, Uncalled, Peers
  <2>3. remote[Initiator] \in Peers \cup {None}
    BY DEF Inv, TypeOK, Jids, Peers
  <2> QED BY <2>1, <2>2, <2>3
<1> QED BY <1>1, <1>2, <1>3 DEF Receive

LEMMA FollowsInductive ==
  ASSUME Bare = {}, Inv, Follows, [Next]_vars PROVE Follows'
<1>1. ASSUME NEW p \in Peers, Calls(p) \/ Watch(p) \/ Dispatch(p) \/ TerminateAll(p)
      PROVE  Follows'
  BY <1>1, OwnFollows
<1>2. ASSUME NEW m \in net, m.to \in Peers, Deliver(m) PROVE Follows'
  BY <1>2, DeliverFollows
<1>3. ASSUME NEW m \in net, m.from \in Peers, Receive(m) PROVE Follows'
  BY <1>3, ReceiveFollows
<1>4. ASSUME NEW r \in pending, SendTimeout(r) PROVE Follows'
  <2>1. UNCHANGED <<state, remote, acked>> /\ net' \subseteq net
    BY <1>4 DEF SendTimeout
  <2> QED BY <2>1, FollowsOn DEF NoneLost, NewLate
<1>5. ASSUME NEW m \in net, NEW kind, NEW target, ServerAnswers(m, kind, target)
      PROVE  Follows'
  <2>1. UNCHANGED <<state, remote, acked>> /\ m.to \notin Peers
        /\ net' \subseteq net \cup Wanted([m EXCEPT !.kind = kind, !.target = target])
    BY <1>5 DEF ServerAnswers, session
  <2>2. [m EXCEPT !.kind = kind, !.target = target].to = m.to
    BY DEF Inv, TypeOK, Stanza
  <2>3. NewLate
    BY <2>1, <2>2 DEF NewLate, Wanted, Late, Peers
  <2> QED BY <2>1, <2>3, FollowsOn DEF NoneLost
<1>6. ASSUME NEW m \in net, NEW kind \in {"error", "wait"}, ServerRefuses(m, kind)
      PROVE  Follows'
  <2>1. UNCHANGED <<state, remote, acked>> /\ net' \subseteq net \cup Wanted(Answer(m, kind))
    BY <1>6 DEF ServerRefuses, session
  <2>2. NewLate
    BY <2>1, AnswerNotLate
  <2> QED BY <2>1, <2>2, FollowsOn DEF NoneLost
<1>7. CASE UNCHANGED vars
  <2>1. UNCHANGED <<state, remote, acked, net>>
    BY <1>7 DEF vars
  <2> QED BY <2>1, FollowsOn DEF NoneLost, NewLate
<1> QED BY <1>1, <1>2, <1>3, <1>4, <1>5, <1>6, <1>7 DEF Next, Thread, Server

\* A call that goes to a full JID: the initiator's candidates reach a resource
\* after its initiate, however the server reorders the stanzas
\* (OnTransportCandidatesReady, OnInitiateAcked).
THEOREM CandidatesComeAfter ==
  ASSUME Bare = {} PROVE Spec => []CandidatesAfterInitiate
<1>1. Init => Follows
  <2> SUFFICES ASSUME Init PROVE Follows
    OBVIOUS
  <2>1. /\ \A q \in Peers : remote[q] = None
        /\ net = {} /\ ~acked
    BY DEF Init
  <2> QED BY <2>1 DEF Follows, Partners, LateOnly, Peers
<1>2. Inv /\ Follows /\ [Next]_vars => Follows'
  BY FollowsInductive
<1>3. Follows => CandidatesAfterInitiate
  BY DEF Follows, LateOnly, Late, CandidatesAfterInitiate
<1> QED BY <1>1, <1>2, <1>3, Invariance, PTL DEF Spec
===============================================================================
