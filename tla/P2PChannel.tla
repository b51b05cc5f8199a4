------------------------------ MODULE P2PChannel ------------------------------
(***************************************************************************)
(* One P2PTransportChannel (p2p/base/p2ptransportchannel.cc) and the       *)
(* Connections of its UDP ports (p2p/base/port.cc) on the worker thread:   *)
(* connections are created, pinged, pruned and deleted, the best of them   *)
(* carries the data, and ports are allocated until one is writable.        *)
(*                                                                         *)
(* A connection is the pair of a port and a remote candidate.  `queue'     *)
(* holds what the worker thread posts to itself, MSG_SORT and MSG_DELETE.  *)
(* What the signaling thread posts, and the delayed MSG_PING and           *)
(* MSG_ALLOCATE, may be at any place of the real queue: their handlers may *)
(* run between any two others.  Packets are read only in the socket        *)
(* server's Wait, which begins when the queue is empty: after a post it    *)
(* ends this round of its sockets and does another, with one packet each.  *)
(*                                                                         *)
(* There is no clock: a state that times out may do so whenever the code   *)
(* looks at it, once the pings that the time-out needs have been sent.     *)
(***************************************************************************)
EXTENDS Naturals, Sequences, FiniteSets, SequencesExt, Lists

CONSTANTS Ports,           \* bound: the ports the allocator may create
          Candidates,      \* bound: the addresses of the remote client
          Network,         \* the network of a port
          User,            \* the username of a remote candidate
          Pref,            \* the combined preference of a connection
          Rtts,            \* the round-trip times that can be measured
          DefaultRtt,      \* DEFAULT_RTT
          MinImprovement,  \* kMinImprovement
          Failures,        \* CONNECTION_WRITE_CONNECT_FAILURES
          MaxSessions,     \* bound: how many allocator sessions are created
          OtherThread,     \* whether another thread calls SendPacket
          None

Conns == Ports \X Candidates

Sort    == <<"sort">>     \* MSG_SORT; a connection stands for its MSG_DELETE
Checked == <<"checked">>  \* SendPacket has looked at best_connection_,
Null    == <<"null">>     \* and then loaded NULL

ASSUME P2PChannelAssumption ==
  /\ Pref \in [Conns -> Nat]
  /\ Rtts \subseteq Nat /\ DefaultRtt \in Nat /\ MinImprovement \in Nat
  /\ Failures \in Nat \ {0}
  /\ MaxSessions \in Nat
  /\ OtherThread \in BOOLEAN
  /\ None \notin Conns

VARIABLES connecting,  \* Connect has been called
          port,        \* what has become of each port
          ports,       \* ports_, the ports of the current allocator session
          remote,      \* remote_candidates_
          conns,       \* connections_
          readables,   \* the connections that are STATE_READABLE
          wstate,      \* write_state_
          pruned,      \* the connections with pruned_ set
          asked,       \* those with a ping in their requests_
          unanswered,  \* how many pings_since_last_response_, up to Failures
          rtt,         \* rtt_
          order,       \* the connections pinged so far, oldest ping first
          best,        \* best_connection_
          readable, writable,         \* the channel's states
          sortDirty,                  \* sort_dirty_
          wasWritable, wasTimedOut,   \* was_writable_, was_timed_out_
          started,     \* pinging_started_
          waiting,     \* waiting_for_signaling_
          allocTimer,  \* a MSG_ALLOCATE is pending
          gathering,   \* some allocator session IsGettingAllPorts
          sessions,    \* how many allocator sessions there are
          queue,       \* the MSG_SORT and the MSG_DELETEs
          polled,      \* <<round, port>>: what was read since the Wait first posted
          sending      \* where the other thread is in SendPacket

connState  == <<conns, readables, wstate, pruned, asked, unanswered, rtt, order>>
selection  == <<best, readable, writable, sortDirty, wasWritable, wasTimedOut>>
allocation == <<connecting, port, ports, remote, started, waiting, allocTimer,
                gathering, sessions>>
vars == <<connecting, port, ports, remote, conns, readables, wstate, pruned,
          asked, unanswered, rtt, order, best, readable, writable, sortDirty,
          wasWritable, wasTimedOut, started, waiting, allocTimer, gathering,
          sessions, queue, polled, sending>>

Init ==
  /\ connecting = FALSE
  /\ port = [p \in Ports |-> "none"]
  /\ ports = {} /\ remote = {}
  /\ conns = {} /\ readables = {} /\ pruned = {} /\ asked = {}
  /\ wstate = [c \in Conns |-> "connect"]
  /\ unanswered = [c \in Conns |-> 0]
  /\ rtt = [c \in Conns |-> DefaultRtt]
  /\ order = <<>>
  /\ best = None
  /\ readable = FALSE /\ writable = FALSE
  /\ sortDirty = FALSE
  /\ wasWritable = FALSE /\ wasTimedOut = TRUE
  /\ started = FALSE /\ waiting = FALSE /\ allocTimer = FALSE
  /\ gathering = FALSE
  /\ sessions = 0
  /\ queue = <<>> /\ polled = {}
  /\ sending = None

-------------------------------------------------------------------------------
(***************************************************************************)
(* The order of connections.  CompareConnections looks at the write state, *)
(* then at the preference; sorting also looks at the round-trip time.      *)
(***************************************************************************)
Level(s) == CASE s = "writable" -> 2 [] s = "connect" -> 1 [] s = "timeout" -> 0

Preferred(w, a, b) ==
  \/ Level(w[a]) > Level(w[b])
  \/ w[a] = w[b] /\ Pref[a] > Pref[b]
Before(w, a, b) ==
  \/ Preferred(w, a, b)
  \/ ~Preferred(w, b, a) /\ rtt[a] < rtt[b]
FirstOf(w, cs) == {c \in cs : \A d \in cs : ~Before(w, d, c)}

\* The connection that is sorted first.  The sort is stable, and the best connection
\* was first: it stays so among its equals.
Tops(w, cs) ==
  IF cs = {} THEN {None}
  ELSE IF best \in FirstOf(w, cs) THEN {best}
  ELSE FirstOf(w, cs)

ShouldSwitch_PrefsOnly(w, a, b) ==  \* Mutant: it ignores the write states.
  /\ a # b
  /\ a = None \/ b = None \/ Pref[b] > Pref[a] \/ (Pref[a] = Pref[b] /\ rtt[b] < rtt[a])
ShouldSwitch(w, a, b) ==
  /\ a # b
  /\ \/ a = None \/ b = None
     \/ Preferred(w, b, a)
     \/ ~Preferred(w, a, b) /\ rtt[b] <= rtt[a] + MinImprovement

On(cs, net) == {c \in cs : Network[c[1]] = net}

(***************************************************************************)
(* Connection::UpdateState.  Only what UpdateConnectionStates looks at     *)
(* changes: the connections in fresh have been pinged in the same handler. *)
(***************************************************************************)
Failing == {c \in conns : unanswered[c] > 0
                           /\ (wstate[c] = "writable" => unanswered[c] >= Failures)}
Readings(r, fresh) == {r1 \in SUBSET r : r \cap fresh \subseteq r1}
Writings ==
  {[c \in Conns |-> IF c \in Failing THEN f[c] ELSE wstate[c]] :
     f \in {g \in [Failing -> {"writable", "connect", "timeout"}] :
              \A c \in Failing : Level(g[c]) <= Level(wstate[c])}}
Changed(r, r1, w1) == {c \in conns : (c \in r) # (c \in r1) \/ wstate[c] # w1[c]}

\* What changed connections post when their states are r and w: RequestSort, and
\* a MSG_DELETE of each one that has both timed out.
Posts(changed, dirty, r, w) ==
  {(IF changed # {} /\ ~dirty THEN <<Sort>> ELSE <<>>) \o dead :
     dead \in SetToSeqs({c \in changed : c \notin r /\ w[c] = "timeout"})}

\* UpdateChannelState, HandleWritable, HandleNotWritable and HandleAllTimedOut,
\* for connections cs in states r and w; Allocate cancels a pending MSG_ALLOCATE.
ChannelUpdated(cs, r, w, getting) ==
  LET anyWritable == \E c \in cs : w[c] = "writable"
      allTimedOut == \A c \in cs : w[c] = "timeout"
      allocate == ~anyWritable /\ (IF allTimedOut THEN ~wasTimedOut ELSE wasWritable)
  IN
  /\ readable' = (r # {})
  /\ writable' = anyWritable
  /\ wasWritable' = anyWritable
  /\ wasTimedOut' = (~anyWritable /\ allTimedOut)
  /\ waiting' = (waiting \/ allocate)
  /\ allocTimer' = (allocTimer /\ ~allocate /\ (anyWritable => writable))
  /\ gathering' = (getting /\ (anyWritable => writable))

\* GetBestConnectionOnNetwork for each network in use, when b is the best connection.
Primiers(cs, w, b) ==
  LET nets == {Network[c[1]] : c \in cs} IN
  {f \in [nets -> cs] :
     \A net \in nets : f[net] \in (IF b \in On(cs, net) THEN {b} ELSE FirstOf(w, On(cs, net)))}

\* SortConnections, once b is the best connection: all that it or the best of their
\* network replaces are pruned, and the channel's state follows.
PruneOthers(cs, r1, w1, b, primier, getting, msgs) ==
  LET doomed == {c \in cs \ pruned :
                   LET first == primier[Network[c[1]]] IN
                     c # first /\ w1[first] = "writable" /\ Pref[first] >= Pref[c]}
      w2     == [c \in Conns |-> IF c \in doomed THEN "timeout" ELSE w1[c]]
      fallen == {c \in doomed : w1[c] # "timeout"}
  IN
  /\ \E m2 \in Posts(fallen, FALSE, r1, w2) : queue' = msgs \o m2
  /\ conns' = cs
  /\ readables' = r1
  /\ wstate' = w2
  /\ pruned' = pruned \cup doomed
  /\ asked' = asked \ doomed
  /\ best' = b
  /\ sortDirty' = (fallen # {})
  /\ ChannelUpdated(cs, r1, w2, getting)

\* SortConnections, when the connections are cs, the readable ones r, and the queue
\* holds msgs: the states are updated, and the best connection is chosen.
SortConnections(cs, r, fresh, dirty, getting, msgs) ==
  \E r1 \in Readings(r, fresh), w1 \in Writings :
  \E top \in Tops(w1, cs), m1 \in Posts(Changed(r, r1, w1), dirty, r1, w1) :
    LET b == IF ShouldSwitch(w1, best, top) THEN top ELSE best IN
    \E primier \in Primiers(cs, w1, b) :
      PruneOthers(cs, r1, w1, b, primier, getting, msgs \o m1)

-------------------------------------------------------------------------------
(***************************************************************************)
(* Reading a packet from port p, or handling a message.                    *)
(***************************************************************************)
CanRead(p) ==
  /\ port[p] \in {"live", "old"}
  /\ queue = <<>> \/ (polled # {} /\ <<2, p>> \notin polled)
Read(p) ==
  \/ /\ queue = <<>>
     /\ polled' = IF queue' = <<>> THEN {} ELSE {<<1, p>>}
  \/ /\ queue # <<>>
     /\ \E round \in {1, 2} :
          /\ <<round, p>> \notin polled
          /\ round = 1 => \A q \in Ports : <<2, q>> \notin polled
          /\ polled' = polled \cup {<<round, p>>}
Handle == polled' = {}

\* P2PTransportChannel::Connect, which CreateChannel_w calls again for each content
\* that is bundled onto the channel.  MoloClient connects SignalRequestSignaling straight
\* to OnSignalingReady, which then follows at once; a session's comes later.
Connect ==
  /\ Handle
  /\ connecting' = TRUE
  /\ waiting' = TRUE
  /\ allocTimer' = FALSE
  /\ UNCHANGED <<port, ports, remote, started, gathering, sessions, connState,
                 selection, queue, sending>>

\* MSG_ALLOCATE.
AllocateAgain ==
  /\ allocTimer
  /\ Handle
  /\ waiting' = TRUE
  /\ allocTimer' = FALSE
  /\ UNCHANGED <<connecting, port, ports, remote, started, gathering, sessions,
                 connState, selection, queue, sending>>

\* OnSignalingReady and AddAllocatorSession.
SignalingReady_NoTimer ==  \* Mutant: the next MSG_ALLOCATE is not posted.
  /\ waiting /\ sessions < MaxSessions
  /\ Handle
  /\ waiting' = FALSE
  /\ sessions' = sessions + 1
  /\ ports' = {}
  /\ gathering' = (gathering \/ started)
  /\ UNCHANGED <<connecting, port, remote, started, allocTimer, connState, selection,
                 queue, sending>>
SignalingReady ==
  /\ waiting /\ sessions < MaxSessions
  /\ Handle
  /\ waiting' = FALSE
  /\ sessions' = sessions + 1
  /\ ports' = {}
  /\ gathering' = (gathering \/ started)
  /\ allocTimer' = TRUE
  /\ UNCHANGED <<connecting, port, remote, started, connState, selection, queue,
                 sending>>

PortReady(p) ==
  /\ sessions > 0 /\ port[p] = "none"
  /\ Handle
  /\ port' = [port EXCEPT ![p] = "live"]
  /\ ports' = ports \cup {p}
  /\ SortConnections(conns \cup ({p} \X remote), readables, {}, sortDirty,
                     gathering, queue)
  /\ UNCHANGED <<connecting, remote, started, sessions, unanswered, rtt, order,
                 sending>>

\* Port::OnMessage, Port::CheckTimeout and OnPortDestroyed.
PortTimesOut(p) ==
  /\ port[p] = "live"
  /\ Handle
  /\ LET used == \E c \in conns : c[1] = p IN
       /\ port' = [port EXCEPT ![p] = IF used THEN "old" ELSE "gone"]
       /\ ports' = IF used THEN ports ELSE ports \ {p}
  /\ UNCHANGED <<connecting, remote, started, waiting, allocTimer, gathering,
                 sessions, connState, selection, queue, sending>>

\* RememberRemoteCandidate; Getting is what becomes of `gathering'.
Remember(a) ==
  /\ remote' = remote \cup {a}
  /\ started' = (started \/ a \notin remote)
Getting(a) == gathering \/ (~started /\ a \notin remote /\ sessions > 0)

\* OnCandidate: the other client has sent candidate a.
RemoteCandidate(a) ==
  /\ Handle
  /\ Remember(a)
  /\ SortConnections(conns \cup (ports \X {a}), readables, {}, sortDirty,
                     Getting(a), queue)
  /\ UNCHANGED <<connecting, port, ports, sessions, unanswered, rtt, order, sending>>

\* MoloClient calls RememberRemoteCandidate itself, without OnCandidate: no connection
\* is made until a port comes.
RememberOnly(a) ==
  /\ Handle
  /\ Remember(a)
  /\ gathering' = Getting(a)
  /\ UNCHANGED <<connecting, port, ports, waiting, allocTimer, sessions, connState,
                 selection, queue, sending>>

\* OnUnknownAddress: a binding request from an address without a connection.  All
\* the connections to it become readable.
UnknownAddress(p, a) ==
  /\ <<p, a>> \notin conns
  /\ \E known \in remote : User[known] = User[a]
  /\ CanRead(p)
  /\ Remember(a)
  /\ LET fresh == (ports \cup {p}) \X {a} IN
       SortConnections(conns \cup fresh, readables \cup fresh, fresh, TRUE, Getting(a),
                       IF sortDirty THEN queue ELSE Append(queue, Sort))
  /\ Read(p)
  /\ UNCHANGED <<connecting, port, ports, sessions, unanswered, rtt, order, sending>>

-------------------------------------------------------------------------------
(***************************************************************************)
(* The packets that reach a connection.                                    *)
(***************************************************************************)
\* The connection's states become r and w, and it posts what follows from it.
NewState(c, r, w) ==
  /\ readables' = r
  /\ wstate' = w
  /\ LET changed == {d \in {c} : (d \in r) # (d \in readables) \/ w[d] # wstate[d]} IN
       /\ \E msgs \in Posts(changed, sortDirty, r, w) : queue' = queue \o msgs
       /\ sortDirty' = (sortDirty \/ changed # {})
  /\ Read(c[1])
  /\ UNCHANGED <<allocation, conns, pruned, order, best, readable, writable,
                 wasWritable, wasTimedOut, sending>>

\* "If timed out sending writability checks, start up again."
Restarted(c) ==
  IF c \notin pruned /\ wstate[c] = "timeout" THEN [wstate EXCEPT ![c] = "connect"]
  ELSE wstate

BindingRequest(c) ==
  /\ c \in conns /\ CanRead(c[1])
  /\ NewState(c, readables \cup {c}, Restarted(c))
  /\ UNCHANGED <<asked, unanswered, rtt>>

Data(c) ==
  /\ c \in readables /\ CanRead(c[1])
  /\ NewState(c, readables, Restarted(c))
  /\ UNCHANGED <<asked, unanswered, rtt>>

\* OnConnectionRequestResponse.
Response(c) ==
  /\ c \in asked /\ CanRead(c[1])
  /\ NewState(c, readables, [wstate EXCEPT ![c] = "writable"])
  /\ asked' = asked \ {c}
  /\ unanswered' = [unanswered EXCEPT ![c] = 0]
  /\ \E t \in Rtts : rtt' = [rtt EXCEPT ![c] = t]

\* OnConnectionRequestErrorResponse.
ErrorResponse(c) ==
  /\ c \in asked /\ CanRead(c[1])
  /\ \E recoverable \in BOOLEAN :
       NewState(c, readables, IF recoverable THEN wstate
                              ELSE [wstate EXCEPT ![c] = "timeout"])
  /\ asked' = asked \ {c}
  /\ UNCHANGED <<unanswered, rtt>>

\* CONNECTION_RESPONSE_TIMEOUT after a ping: its request is deleted.
RequestExpires(c) ==
  /\ c \in asked
  /\ Handle
  /\ asked' = asked \ {c}
  /\ UNCHANGED <<allocation, conns, readables, wstate, pruned, unanswered, rtt, order,
                 selection, queue, sending>>

-------------------------------------------------------------------------------
\* IsPingable and FindNextPingableConnection, in states r and w.  The pings are
\* ten seconds apart, longer than MAX_CURRENT_WRITABLE_DELAY: a writable best
\* connection is always past it.
Pingable(r, w) == {c \in conns : w[c] # "timeout" \/ (~writable /\ c \in r)}
NextPingable_Topmost(r, w) ==  \* Mutant: the top-most of them, not the oldest.
  FirstOf(w, Pingable(r, w))
NextPingable(r, w) ==
  LET able == Pingable(r, w)
      new  == able \ Range(order)
      old  == Keep(order, able)
  IN CASE best # None /\ w[best] = "writable" -> {best}
       [] ~(best # None /\ w[best] = "writable") /\ new # {} -> new
       [] OTHER -> IF old = <<>> THEN {} ELSE {Head(old)}

\* MSG_PING: OnPing, and Ping of the connection it finds.  The request of the last
\* ping has expired, CONNECTION_RESPONSE_TIMEOUT being half the delay.
OnPing ==
  /\ connecting /\ asked = {}
  /\ Handle
  /\ \E r \in Readings(readables, {}), w \in Writings :
       LET changed == Changed(readables, r, w)
           next    == NextPingable(r, w)
       IN
       /\ readables' = r
       /\ wstate' = w
       /\ \E msgs \in Posts(changed, sortDirty, r, w) : queue' = queue \o msgs
       /\ sortDirty' = (sortDirty \/ changed # {})
       /\ \/ /\ next = {}
             /\ UNCHANGED <<asked, unanswered, order>>
          \/ \E c \in next :
               /\ asked' = asked \cup {c}
               /\ unanswered' = [unanswered EXCEPT
                                   ![c] = IF @ < Failures THEN @ + 1 ELSE @]
               /\ order' = Append(Keep(order, Conns \ {c}), c)
  /\ UNCHANGED <<allocation, conns, pruned, rtt, best, readable, writable,
                 wasWritable, wasTimedOut, sending>>

\* MSG_SORT.
OnSort ==
  /\ queue # <<>> /\ Head(queue) = Sort
  /\ Handle
  /\ SortConnections(conns, readables, {}, sortDirty, gathering, Tail(queue))
  /\ UNCHANGED <<connecting, port, ports, remote, started, sessions, unanswered, rtt,
                 order, sending>>

\* Mutant: the best connection is not forgotten when it is destroyed.
BestWithout_Kept(c) == best
BestWithout(c) == IF best = c THEN None ELSE best

\* MSG_DELETE: the channel's and the port's OnConnectionDestroyed, and what the
\* destructor takes out of the queue.
OnDelete ==
  /\ queue # <<>> /\ Head(queue) # Sort
  /\ Handle
  /\ LET c       == Head(queue)
         left    == Keep(queue, (Conns \cup {Sort}) \ {c})
         request == best = c /\ ~sortDirty
         empty   == port[c[1]] = "old" /\ \A d \in conns \ {c} : d[1] # c[1]
     IN
     /\ conns' = conns \ {c}
     /\ readables' = readables \ {c}
     /\ pruned' = pruned \ {c}
     /\ asked' = asked \ {c}
     /\ wstate' = [wstate EXCEPT ![c] = "connect"]
     /\ unanswered' = [unanswered EXCEPT ![c] = 0]
     /\ rtt' = [rtt EXCEPT ![c] = DefaultRtt]
     /\ order' = Keep(order, Conns \ {c})
     /\ best' = BestWithout(c)
     /\ sortDirty' = (sortDirty \/ request)
     /\ queue' = IF request THEN Append(left, Sort) ELSE left
     /\ port' = [port EXCEPT ![c[1]] = IF empty THEN "gone" ELSE @]
     /\ ports' = IF empty THEN ports \ {c[1]} ELSE ports
  /\ UNCHANGED <<connecting, remote, started, waiting, allocTimer, gathering, sessions,
                 readable, writable, wasWritable, wasTimedOut, sending>>

\* SendPacket on another thread: it looks at best_connection_, then loads it again
\* and sends, while the worker thread goes on.
SendPacket ==
  /\ OtherThread
  /\ \/ /\ sending = None /\ best # None
        /\ sending' = Checked
     \/ /\ sending = Checked
        /\ sending' = IF best = None THEN Null ELSE best
     \/ /\ sending \in Conns
        /\ sending' = None
  /\ UNCHANGED <<allocation, connState, selection, queue, polled>>

Next ==
  \/ Connect \/ AllocateAgain \/ SignalingReady
  \/ \E p \in Ports : PortReady(p) \/ PortTimesOut(p)
  \/ \E a \in Candidates : RemoteCandidate(a) \/ RememberOnly(a)
  \/ \E p \in Ports, a \in Candidates : UnknownAddress(p, a)
  \/ \E c \in Conns :
       \/ BindingRequest(c) \/ Data(c)
       \/ Response(c) \/ ErrorResponse(c) \/ RequestExpires(c)
  \/ OnPing \/ OnSort \/ OnDelete
  \/ SendPacket

Spec == Init /\ [][Next]_vars

\* The delayed MSG_PING fires, and the requests expire.
PingSpec ==
  /\ Spec
  /\ WF_vars(OnPing)
  /\ WF_vars(\E c \in Conns : RequestExpires(c))

\* The worker thread also handles what it has posted.
FairSpec == PingSpec /\ WF_vars(OnSort \/ OnDelete)

-------------------------------------------------------------------------------
\* The types of the variables.  A timed-out connection or an erased port leaves no
\* state behind, and nothing waits for a connection that is gone.
TypeOK ==
  /\ \A b \in {connecting, readable, writable, sortDirty, wasWritable, wasTimedOut,
                started, waiting, allocTimer, gathering} : b \in BOOLEAN
  /\ port \in [Ports -> {"none", "live", "old", "gone"}]
  /\ ports \subseteq {p \in Ports : port[p] \in {"live", "old"}}
  /\ remote \subseteq Candidates
  /\ conns \subseteq {c \in Conns : port[c[1]] \in {"live", "old"} /\ c[2] \in remote}
  /\ readables \subseteq conns /\ pruned \subseteq conns /\ asked \subseteq conns
  /\ wstate \in [Conns -> {"writable", "connect", "timeout"}]
  /\ unanswered \in [Conns -> 0..Failures]
  /\ rtt \in [Conns -> Rtts \cup {DefaultRtt}]
  /\ Range(order) \subseteq conns /\ Cardinality(Range(order)) = Len(order)
  /\ best \in conns \cup {None}
  /\ sessions \in 0..MaxSessions
  /\ Range(queue) \subseteq conns \cup {Sort}
  /\ polled \subseteq {1, 2} \X Ports
  /\ sending \in Conns \cup {None, Checked, Null}

\* UpdateChannelState's ASSERT, between the handlers: once no sort is to come, the
\* channel is writable exactly when its best connection is, and no other connection
\* is writable while the best is not.
NothingStale ==
  Sort \notin Range(queue) =>
    /\ ~sortDirty
    /\ writable = (best # None /\ wstate[best] = "writable")
    /\ writable = \E c \in conns : wstate[c] = "writable"

\* A channel that is not writable is going to allocate ports again: it waits for the
\* signaling channel, or its MSG_ALLOCATE is pending.
AllocationComing == connecting /\ ~writable => waiting \/ allocTimer

\* While the channel is not writable, and no connection comes or goes, each one that
\* may be pinged is pinged again and again: the readable ones that were pruned too.
PingedInTurn ==
  <>[][UNCHANGED conns]_conns =>
    \A c \in Conns :
      <>[](/\ connecting /\ c \in Pingable(readables, wstate)
           /\ ~writable /\ (best # None => wstate[best] # "writable"))
        => []<>(c \in asked)

\* HandleWritable: "Stop further allocations."
AllocationsStop == writable => ~allocTimer /\ ~gathering

\* CheckTimeout: "If both read and write have timed out, then this connection can
\* contribute no more": no other connection is deleted.
DeletedWhenDead ==
  [][\A c \in conns \ conns' : c \notin readables /\ wstate[c] = "timeout"]_vars

\* kMinImprovement is "the minimum improvement in RTT that justifies a switch": a
\* switch to a connection that is no better otherwise brings that improvement.
SwitchWorthwhile ==
  [][LET a == best  b == best' IN
     a # None /\ b # None /\ a # b /\ a \in conns' /\ Pref[a] = Pref[b]
       /\ wstate'[a] = wstate'[b] => rtt[b] + MinImprovement <= rtt[a]]_vars

\* IsPingable: "If we are writable, then we only want to ping connections that could be
\* better than this one, i.e., the ones that were not pruned": such a one is pinged.
BetterTried ==
  <>[][UNCHANGED conns]_conns =>
    \A c \in Conns :
      <>[](connecting /\ writable /\ c \in conns \ pruned /\ wstate[c] = "connect")
        => []<>(c \in asked)

\* SendPacket: "This can get called on any thread that is convenient to write from!"
\* What it sends on is a connection that exists.
SendsOnLive == sending # Null /\ (sending \in Conns => sending \in conns)
===============================================================================
