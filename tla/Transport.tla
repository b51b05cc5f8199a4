------------------------------ MODULE Transport ------------------------------
(***************************************************************************)
(* A Transport (p2p/base/transport.cc) with its users on the signaling     *)
(* thread: the TransportProxy of a content (session.cc, CreateChannel,     *)
(* SpeculativelyConnectChannels, CompleteNegotiation, SetupMux), whose     *)
(* channel proxies hold the channels (transportchannelproxy.cc), and the   *)
(* Session that watches whether the transport becomes writable in time.    *)
(*                                                                         *)
(* The transport lives on two threads.  The signaling thread calls it, and *)
(* its calls are handed to the worker with Send, so that each of them is   *)
(* one step, which waits until the worker has handled what it has taken;   *)
(* what its channels report on the worker (they are readable or writable,  *)
(* have a candidate, want signaling) is posted back, and so are the        *)
(* client's answers to the worker.  The model is about what is true while  *)
(* these messages are on their way.                                        *)
(*                                                                         *)
(* A second content that is bundled with the first gives up its transport  *)
(* and shares the channels of this one; only its references appear here.   *)
(*                                                                         *)
(* Sends of a loop over the channels (Connect, CompleteNegotiation,        *)
(* SetupMux) are one step: a channel does nothing before it is connected.  *)
(* Not modelled: ResetChannels, which nothing calls; route changes, which  *)
(* no session listens to; the candidates of the peer, which the channel    *)
(* takes (SessionNegotiation has them up to there).                        *)
(***************************************************************************)
EXTENDS Integers, Sequences, FiniteSets

CONSTANTS
    Names,        \* names of the channels of the content
    MaxCreates,   \* bound: channel proxies made during the session
    MaxEvents     \* bound: reports of the channels during the session

ASSUME BoundsAssumption ==
    /\ IsFiniteSet(Names)
    /\ MaxCreates \in Nat /\ MaxEvents \in Nat

VARIABLES
    \* signaling thread: the content's TransportProxy and the session
    stage,              \* "live", or how far the session's destructor is
    state,              \* state_ of the TransportProxy
    proxies,            \* channels_ of the TransportProxy: has it an impl_?
    muxed,              \* the bundled content has a proxy for the channel
    timer,              \* MSG_TIMEOUT of the session is pending
    error,              \* the session has been told ERROR_TIME
    toAnswer,           \* the client has to answer SignalRequestSignaling
    \* the transport
    readable_, writable_,
    channels,           \* channels_: an entry with ref = 0 is not there
    connect_requested,
    ready_candidates,   \* how many
    \* the messages between the threads
    signalQ,            \* posted to the signaling thread
    workQ,              \* how many MSG_ONSIGNALINGREADY for the worker
    popped,             \* the worker has taken one and not yet handled it
    \* counted for the bounds
    creates, events

client == <<stage, state, proxies, muxed, timer, error, toAnswer>>
bits == <<readable_, writable_>>
worker == <<channels, connect_requested, ready_candidates>>
counts == <<creates, events>>
queues == <<signalQ, workQ, popped>>
toWorker == <<workQ, popped>>
transportVars == <<client, bits, worker, queues, counts>>

Stages == {"live", "deleting", "swept", "cleared", "gone"}
Posted == {"connecting", "readstate", "writestate", "requestsignaling",
           "candidateready"}

-----------------------------------------------------------------------------
(* Channels *)

\* An entry of channels_ with its channel: how many users it has, how often
\* the transport's slots are connected to it, and of the channel itself
\* whether it waits for signaling, has an allocator session, is readable or
\* writable.
Absent == [ref |-> 0, wires |-> 0, waiting |-> FALSE, allocated |-> FALSE,
           readable |-> FALSE, writable |-> FALSE]

Open(chs) == {n \in Names : chs[n].ref > 0}

HasChannels == Open(channels) # {}

\* The OR over the channels of one of their bits.
AnyReadable(chs) == \E n \in Open(chs) : chs[n].readable
AnyWritable(chs) == \E n \in Open(chs) : chs[n].writable

\* P2PTransportChannel::Connect starts an allocation, which waits for the
\* signaling: every connected slot is asked.
ConnectChannel(ch) == [ch EXCEPT !.waiting = TRUE]

\* k messages of one kind.
Times(k, kind) == [i \in 1 .. k |-> kind]

\* Mutant: only the channel that is alone asks.
RequestsOf_Alone(chs, S) ==
    IF Cardinality(S) = 1
    THEN Times(chs[CHOOSE n \in S : TRUE].wires, "requestsignaling") ELSE <<>>

\* The messages of the channels of S that ask for signaling.
RequestsOf(chs, S) ==
    LET all == {x \in S \X (1 .. 2) : x[2] <= chs[x[1]].wires}
    IN  Times(Cardinality(all), "requestsignaling")

\* CreateChannel_w for each of S: the entry is made if it is not there, has
\* one more user, and the slots are connected once more.
Created(chs, S) ==
    [n \in Names |->
        IF n \in S
        THEN LET ch == [chs[n] EXCEPT !.ref = @ + 1, !.wires = @ + 1]
             IN  IF connect_requested THEN ConnectChannel(ch) ELSE ch
        ELSE chs[n]]

\* Mutant: nobody is told that the first channel connects.
CreatePosts_Silent(chs, S) ==
    IF connect_requested THEN RequestsOf(chs, S) ELSE <<>>

\* ... and what it posts: the first channel of a transport that is to connect
\* announces it.
CreatePosts(chs, S) ==
    IF connect_requested /\ S # {}
    THEN RequestsOf(chs, S)
         \o (IF Cardinality(Open(chs)) = 1 THEN <<"connecting">> ELSE <<>>)
    ELSE <<>>

\* Mutant: the entry goes whoever else uses it.
Destroyed_Shared(n) == [channels EXCEPT ![n] = Absent]

\* DestroyChannel_w: the entry loses a user, and goes with the last one.
Destroyed(n) ==
    [m \in Names |->
        IF m # n THEN channels[m]
        ELSE IF channels[n].ref > 1 THEN [channels[n] EXCEPT !.ref = @ - 1]
        ELSE Absent]

\* Mutant: the writable bit is not looked at again.
DestroyPosts_NotTheBit(n) ==
    IF connect_requested /\ channels[n].ref > 0 /\ Open(Destroyed(n)) = {}
    THEN <<"connecting">> ELSE <<>>

DestroyPosts(n) ==
    LET left == Open(Destroyed(n))
    IN  IF n \notin Open(channels) THEN <<>>
        ELSE (IF connect_requested /\ left = {} THEN <<"connecting">> ELSE <<>>)
             \o (IF n \notin left THEN <<"writestate">> ELSE <<>>)

\* Mutant: CompleteNegotiation makes the channels again that are there.
Begin_MakesAgain(S, connect) ==
    LET chs == Created(channels, S)
        starts == connect /\ ~connect_requested /\ Open(chs) # {}
    IN  /\ channels' = IF starts
                       THEN [n \in Names |-> IF n \in Open(chs)
                                             THEN ConnectChannel(chs[n]) ELSE chs[n]]
                       ELSE chs
        /\ connect_requested' = (connect_requested \/ starts)
        /\ signalQ' = signalQ
              \o CreatePosts(chs, S)
              \o (IF starts
                  THEN <<"candidateready">> \o RequestsOf(chs, Open(chs))
                         \o <<"connecting">>
                  ELSE <<>>)

\* CreateChannel for the channels of S that are not there, then
\* ConnectChannels if the transport is told to.
Begin(S, connect) ==
    LET new == S \ Open(channels)
        chs == Created(channels, new)
        starts == connect /\ ~connect_requested /\ Open(chs) # {}
    IN  /\ channels' = IF starts
                       THEN [n \in Names |-> IF n \in Open(chs)
                                             THEN ConnectChannel(chs[n]) ELSE chs[n]]
                       ELSE chs
        /\ connect_requested' = (connect_requested \/ starts)
        /\ signalQ' = signalQ
              \o CreatePosts(chs, new)
              \o (IF starts
                  THEN <<"candidateready">> \o RequestsOf(chs, Open(chs))
                         \o <<"connecting">>
                  ELSE <<>>)

-----------------------------------------------------------------------------

TransportInit ==
    /\ stage = "live" /\ state = "init"
    /\ proxies = [n \in Names |-> "none"]
    /\ muxed = [n \in Names |-> FALSE]
    /\ timer = FALSE /\ error = FALSE /\ toAnswer = FALSE
    /\ readable_ = FALSE /\ writable_ = FALSE
    /\ channels = [n \in Names |-> Absent]
    /\ connect_requested = FALSE /\ ready_candidates = 0
    /\ signalQ = <<>> /\ workQ = 0 /\ popped = FALSE
    /\ creates = 0 /\ events = 0

(* The session and its TransportProxy, on the signaling thread *)

Proxied == {n \in Names : proxies[n] # "none"}

\* negotiated(); "bundled" is negotiated with the accept handled as well.
Negotiated == state \in {"negotiated", "bundled"}

\* TransportProxy::CreateChannel.  Its assertions are its guard: there is no
\* proxy and no channel of that name.
CreateProxy(n) ==
    /\ stage = "live" /\ creates < MaxCreates
    /\ proxies[n] = "none" /\ channels[n].ref = 0
    /\ state # "init" => ~popped
    /\ creates' = creates + 1
    /\ proxies' = [proxies EXCEPT
                     ![n] = IF Negotiated THEN "set" ELSE "unset"]
    /\ Begin(IF state = "init" THEN {} ELSE {n}, FALSE)
    /\ UNCHANGED <<stage, state, muxed, timer, error, toAnswer, bits,
                   ready_candidates, toWorker, events>>

\* SpeculativelyConnectChannels, of the side that sends the initiate.
Speculate ==
    /\ stage = "live" /\ state = "init" /\ ~popped
    /\ state' = "connecting"
    /\ Begin(Proxied, TRUE)
    /\ UNCHANGED <<stage, proxies, muxed, timer, error, toAnswer, bits,
                   ready_candidates, toWorker, counts>>

\* CompleteNegotiation, on the first candidates of the peer.
CompleteNegotiation ==
    /\ stage = "live" /\ ~Negotiated /\ ~popped
    /\ state' = "negotiated"
    /\ proxies' = [n \in Names |-> IF n \in Proxied THEN "set" ELSE "none"]
    /\ Begin(Proxied, TRUE)
    /\ UNCHANGED <<stage, muxed, timer, error, toAnswer, bits,
                   ready_candidates, toWorker, counts>>

\* SetupMux of the bundled content onto this one, once, at the accept.
Mux ==
    /\ stage = "live" /\ state = "negotiated" /\ ~popped
    /\ state' = "bundled"
    /\ muxed' = [n \in Names |-> n \in Proxied]
    /\ channels' = Created(channels, Proxied)
    /\ signalQ' = signalQ \o CreatePosts(channels', Proxied)
    /\ UNCHANGED <<stage, proxies, timer, error, toAnswer, bits,
                   connect_requested, ready_candidates, toWorker, counts>>

\* A TransportChannelProxy is deleted, by DestroyChannel or with its
\* TransportProxy: it lets go of the channel it has.
DeleteProxy(n) ==
    /\ stage \in {"live", "deleting"}
    /\ proxies[n] # "none"
    /\ proxies[n] = "set" => ~popped
    /\ proxies' = [proxies EXCEPT ![n] = "none"]
    /\ channels' = IF proxies[n] = "set" THEN Destroyed(n) ELSE channels
    /\ signalQ' = IF proxies[n] = "set" THEN signalQ \o DestroyPosts(n)
                                        ELSE signalQ
    /\ UNCHANGED <<stage, state, muxed, timer, error, toAnswer, bits,
                   connect_requested, ready_candidates, toWorker, counts>>

DeleteMuxed(n) ==
    /\ stage \in {"live", "deleting"}
    /\ muxed[n] /\ ~popped
    /\ muxed' = [muxed EXCEPT ![n] = FALSE]
    /\ channels' = Destroyed(n)
    /\ signalQ' = signalQ \o DestroyPosts(n)
    /\ UNCHANGED <<stage, state, proxies, timer, error, toAnswer, bits,
                   connect_requested, ready_candidates, toWorker, counts>>

\* The client answers with OnSignalingReady.
AnswerSignaling ==
    /\ stage = "live" /\ toAnswer
    /\ toAnswer' = FALSE
    /\ workQ' = workQ + 1
    /\ UNCHANGED <<stage, state, proxies, muxed, timer, error, bits,
                   worker, signalQ, popped, counts>>

\* MSG_TIMEOUT of the session: ERROR_TIME.
TimerFires ==
    /\ stage = "live" /\ timer
    /\ timer' = FALSE /\ error' = TRUE
    /\ UNCHANGED <<stage, state, proxies, muxed, toAnswer, bits, worker,
                   queues, counts>>

-----------------------------------------------------------------------------
(* Posted messages, on the signaling thread *)

Arrives(kind) ==
    /\ stage = "live"
    /\ signalQ # <<>> /\ Head(signalQ) = kind
    /\ signalQ' = Tail(signalQ)

\* Session::OnTransportWritable: the timer runs while the transport has
\* channels and none is writable.
Watch(now) == timer' = (HasChannels /\ ~now)

OnConnecting ==
    /\ Arrives("connecting")
    /\ Watch(writable_)
    /\ UNCHANGED <<stage, state, proxies, muxed, error, toAnswer, bits,
                   worker, toWorker, counts>>

OnChannelReadableState ==
    /\ Arrives("readstate")
    /\ readable_' = AnyReadable(channels)
    /\ UNCHANGED <<client, writable_, worker, toWorker, counts>>

OnChannelWritableState ==
    /\ Arrives("writestate")
    /\ writable_' = AnyWritable(channels)
    /\ IF writable_' = writable_ THEN UNCHANGED timer ELSE Watch(writable_')
    /\ UNCHANGED <<stage, state, proxies, muxed, error, toAnswer, readable_,
                   worker, toWorker, counts>>

OnChannelRequestSignaling ==
    /\ Arrives("requestsignaling")
    /\ toAnswer' = TRUE
    /\ UNCHANGED <<stage, state, proxies, muxed, timer, error, bits,
                   worker, toWorker, counts>>

OnChannelCandidateReady ==
    /\ Arrives("candidateready")
    /\ ready_candidates' = 0
    /\ UNCHANGED <<stage, state, proxies, muxed, timer, error, toAnswer, bits,
                   channels, connect_requested, toWorker, counts>>

DispatchSignaling ==
    \/ OnConnecting
    \/ OnChannelReadableState
    \/ OnChannelWritableState
    \/ OnChannelRequestSignaling
    \/ OnChannelCandidateReady

-----------------------------------------------------------------------------
(* The worker thread *)

\* The loop of the worker takes MSG_ONSIGNALINGREADY from its queue; until it
\* has been handled the worker does nothing else.
TakeSignalingReady ==
    /\ workQ > 0 /\ ~popped
    /\ workQ' = workQ - 1 /\ popped' = TRUE
    /\ UNCHANGED <<client, bits, worker, signalQ, counts>>

\* CallChannels_w(OnSignalingReady): a channel that waits gets its session.
OnSignalingReady ==
    /\ popped
    /\ popped' = FALSE
    /\ channels' = [n \in Names |->
           IF channels[n].waiting
           THEN [channels[n] EXCEPT !.waiting = FALSE, !.allocated = TRUE]
           ELSE channels[n]]
    /\ UNCHANGED <<client, bits, connect_requested, ready_candidates, signalQ,
                   workQ, counts>>

\* A channel with allocated ports reports; every connected slot posts.
Report(n) ==
    /\ ~popped /\ events < MaxEvents
    /\ channels[n].allocated
    /\ events' = events + 1

ChannelReadable(n) ==
    /\ Report(n)
    /\ channels' = [channels EXCEPT ![n].readable = ~@]
    /\ signalQ' = signalQ \o Times(channels[n].wires, "readstate")
    /\ UNCHANGED <<client, bits, connect_requested, ready_candidates, toWorker,
                   creates>>

ChannelWritable(n) ==
    /\ Report(n)
    /\ channels' = [channels EXCEPT ![n].writable = ~@]
    /\ signalQ' = signalQ \o Times(channels[n].wires, "writestate")
    /\ UNCHANGED <<client, bits, connect_requested, ready_candidates, toWorker,
                   creates>>

\* P2PTransportChannel::Allocate again, some time after the last one.
ChannelAllocates(n) ==
    /\ Report(n) /\ ~channels[n].waiting
    /\ channels' = [channels EXCEPT ![n].waiting = TRUE]
    /\ signalQ' = signalQ \o Times(channels[n].wires, "requestsignaling")
    /\ UNCHANGED <<client, bits, connect_requested, ready_candidates, toWorker,
                   creates>>

\* Mutant: once the transport is writable its candidates are not announced.
ChannelCandidate_Quiet(n) ==
    /\ Report(n)
    /\ ready_candidates' = ready_candidates + channels[n].wires
    /\ signalQ' = IF connect_requested /\ ~writable_
                  THEN signalQ \o Times(channels[n].wires, "candidateready")
                  ELSE signalQ
    /\ UNCHANGED <<client, bits, channels, connect_requested, toWorker, creates>>

\* OnChannelCandidateReady: the candidate is kept until it may be sent.
ChannelCandidate(n) ==
    /\ Report(n)
    /\ ready_candidates' = ready_candidates + channels[n].wires
    /\ signalQ' = IF connect_requested
                  THEN signalQ \o Times(channels[n].wires, "candidateready")
                  ELSE signalQ
    /\ UNCHANGED <<client, bits, channels, connect_requested, toWorker, creates>>

-----------------------------------------------------------------------------
(* The end of the session *)

\* ~BaseSession starts to delete the proxies; nothing else runs on this
\* thread until the transport is gone.
EndSession ==
    /\ stage = "live"
    /\ stage' = "deleting"
    /\ timer' = FALSE
    /\ UNCHANGED <<state, proxies, muxed, error, toAnswer, bits, worker,
                   queues, counts>>

\* ~P2PTransport: DestroyAllChannels, when the last proxy has let go of it.
\* Each entry loses one user; those without users are destroyed.
DestroyAllChannels ==
    /\ stage = "deleting" /\ ~popped
    /\ Proxied = {} /\ \A n \in Names : ~muxed[n]
    /\ stage' = "swept"
    /\ channels' = [n \in Names |->
                      IF channels[n].ref > 1
                      THEN [channels[n] EXCEPT !.ref = @ - 1] ELSE Absent]
    /\ UNCHANGED <<state, proxies, muxed, timer, error, toAnswer, bits,
                   connect_requested, ready_candidates, queues, counts>>

\* Clear takes what waits for the worker, not what the worker has taken.
ClearWorker ==
    /\ stage = "swept"
    /\ stage' = "cleared"
    /\ workQ' = 0
    /\ UNCHANGED <<state, proxies, muxed, timer, error, toAnswer, bits,
                   worker, signalQ, popped, counts>>

ClearSignaling ==
    /\ stage = "cleared"
    /\ stage' = "gone"
    /\ signalQ' = <<>>
    /\ UNCHANGED <<state, proxies, muxed, timer, error, toAnswer, bits,
                   worker, toWorker, counts>>

-----------------------------------------------------------------------------

ChannelReports(n) ==
    ChannelReadable(n) \/ ChannelWritable(n) \/ ChannelAllocates(n)
        \/ ChannelCandidate(n)

SessionSteps ==
    \/ Speculate \/ CompleteNegotiation \/ Mux
    \/ AnswerSignaling \/ TimerFires
    \/ EndSession \/ DestroyAllChannels \/ ClearWorker \/ ClearSignaling

TransportNext ==
    \/ SessionSteps
    \/ \E n \in Names : \/ CreateProxy(n) \/ DeleteProxy(n) \/ DeleteMuxed(n)
                        \/ ChannelReports(n)
    \/ DispatchSignaling
    \/ TakeSignalingReady \/ OnSignalingReady

TransportSpec == TransportInit /\ [][TransportNext]_transportVars

-----------------------------------------------------------------------------
(* Properties *)

Queued(kind) == \E i \in 1 .. Len(signalQ) : signalQ[i] = kind

\* The type invariant.
Channel == [ref : 0 .. 2, wires : 0 .. 2, waiting : BOOLEAN,
            allocated : BOOLEAN, readable : BOOLEAN, writable : BOOLEAN]

TransportTypeOK ==
    /\ stage \in Stages
    /\ state \in {"init", "connecting", "negotiated", "bundled"}
    /\ proxies \in [Names -> {"none", "unset", "set"}]
    /\ muxed \in [Names -> BOOLEAN]
    /\ timer \in BOOLEAN /\ error \in BOOLEAN /\ toAnswer \in BOOLEAN
    /\ ready_candidates \in Nat
    /\ readable_ \in BOOLEAN /\ writable_ \in BOOLEAN
    /\ channels \in [Names -> Channel]
    /\ connect_requested \in BOOLEAN
    /\ signalQ \in Seq(Posted)
    /\ workQ \in Nat /\ popped \in BOOLEAN
    /\ creates \in Nat /\ events \in Nat

\* Every channel a proxy holds is there: a channel has at least as many users
\* counted as it has proxies, of the content itself and of the bundled one
\* (CreateChannel_w, DestroyChannel_w, SetupMux).
Users(n) == (IF proxies[n] = "set" THEN 1 ELSE 0) + (IF muxed[n] THEN 1 ELSE 0)
Held == \A n \in Names : Users(n) <= channels[n].ref

\* writable() is the OR of the channels' bits, or a message that will make it
\* so is on its way, whatever channels come and go (OnChannelWritableState,
\* DestroyChannel_w).
WritableIsOr ==
    stage = "live" /\ ~Queued("writestate") =>
        writable_ = AnyWritable(channels)

\* A session whose transport is to connect and has channels of which none is
\* writable is being timed, or will be when the messages posted to it are
\* handled, or has already been told ERROR_TIME; and a session is timed only
\* then (OnTransportWritable, and the three places that post MSG_CONNECTING).
Watched ==
    stage = "live" /\ ~Queued("connecting") /\ ~Queued("writestate") =>
        /\ connect_requested /\ HasChannels /\ ~AnyWritable(channels)
             => timer \/ error
        /\ timer => connect_requested /\ HasChannels /\ ~AnyWritable(channels)

\* Candidates that may be sent do not wait for the next one: a message that
\* takes them is on its way (ConnectChannels_w, OnChannelCandidateReady).
CandidatesGoOut ==
    connect_requested /\ ready_candidates > 0 /\ stage = "live"
        => Queued("candidateready")

\* A channel goes with the last proxy that holds it, one made for candidates
\* before there was a proxy to hold it too: what the speculative and the
\* negotiated creations, and those of a bundled content, count in ref_ is what
\* the proxies give back, and no channel goes on without them (CreateChannel,
\* CompleteNegotiation, SetupMux, DestroyChannel_w).
GoesWithLast ==
    [][\A n \in Names : Users(n) > 0 /\ Users(n)' = 0
          => channels'[n].ref = 0]_transportVars

\* A channel that waits for signaling has not been forgotten: its request, or
\* the client's duty to answer, or the answer itself is on its way (Connect,
\* ChannelAllocates, OnChannelRequestSignaling, AnswerSignaling).
SignalingComing ==
    stage = "live" /\ (\E n \in Names : channels[n].waiting)
        => Queued("requestsignaling") \/ toAnswer \/ workQ > 0 \/ popped

\* readable() is the OR of the channels' bits once nothing is on its way
\* (transport.h, readable()); DestroyChannel_w posts nothing for it.
ReadableIsOr ==
    stage = "live" /\ ~Queued("readstate") /\ ~Queued("writestate") =>
        readable_ = AnyReadable(channels)

\* Once negotiated, the channels of the transport are connecting
\* (transport.h, ConnectChannels: "all current and future channels").
FutureChannelsConnect ==
    Negotiated /\ HasChannels => connect_requested

\* No message is handled for a transport that is gone (DestroyAllChannels:
\* worker_thread()->Clear(this)).
NoneHandledLate == stage = "gone" => ~popped
=============================================================================
