# P2P-Libjingle in TLA+

The repository is an Android application (`src/jni/talk/mymolo`) on a copy of Google's
libjingle: threads and message queues (`talk/base`), an XMPP client (`talk/xmpp`), and
the peer-to-peer layer (`talk/p2p`) that negotiates sessions over XMPP and finds a UDP
path between two clients. This directory holds TLA+ models of its core, the TLC runs that
check them on small instances, and TLAPS proofs of what matters most.

| module | models | run | proofs |
|---|---|---|---|
| `ThreadSend` | `Thread::Send`, `ReceiveSends`, `Clear`, `Stop` over `MessageQueue` | `thread_send`, `thread_send_live` | `ThreadSendProofs` |
| `MessageQueue` | `MessageQueue` and `MessageQueueManager`: delayed messages, waits, locks, deletion | `message_queue` | `MessageQueueProofs` |
| `Mailbox` | what a message queue promises; `MessageQueue` implements it | `message_queue` | `MessageQueueProofs` |
| `Tasks` | `Task`, `TaskParent`, `TaskRunner` | `tasks` | `TasksProofs` |
| `SessionNegotiation` | `Session` and `SessionManager`, two or three clients and a server | `session_*` | `SessionNegotiationProofs` |
| `Transport` | `Transport` and the session's transport proxies, on two threads | `transport` | `P2PTransportProofs` |
| `P2PChannel` (`MCP2PChannel`) | `P2PTransportChannel` and the `Connection`s of its ports | `channel_*` | `P2PTransportProofs` |
| `PseudoTcp` (`MCPseudoTcp`) | two ends of `PseudoTcp` and a network | `pseudo_tcp` | `PseudoTcpProofs` |
| `XmppConnection` | `XmppPump`, `XmppClient`, `XmppSocket`, `XmppEngineImpl`, `XmppLoginTask` | `xmpp` | `XmppConnectionProofs` |
| `Lists` | what an erasing loop over a list, and a priority queue, leave; used by five of the above | | `ListsProofs` |

`PROJECT.json` maps every definition to the lines it translates. A definition named
`X_Something` just before a definition `X` is `X` with a plausible bug in it ("Mutant" in
its comment); no specification uses it, and each property is checked to fail when it takes
the place of `X`.

## 1. The system

Paths are relative to `src/jni/talk`.

| component | state | operations | hard behaviours | what makes it correct |
|---|---|---|---|---|
| Threads (`base/thread.cc`) | `sendlist_`, `has_sends_`, the `ready` flag on a sender's stack | `Send`, `ReceiveSends`, `Clear`, `Stop`, `Join` | sends in both directions at once, nested sends, wake-ups consumed by the wrong wait, a thread without a `Thread`, stopping | a send returns exactly when it has been handled; nobody sleeps through a wake-up |
| Message queue (`base/messagequeue.cc`) | `msgq_`, `dmsgq_`, `fStop_`, `fPeekKeep_` | `Post`, `PostDelayed`, `Get`, `Peek`, `Clear`, `Quit` | stopping against posting; delayed against immediate messages; the manager's lock against the queues' | a post is delivered, once, in order; nothing for a cleared handler |
| Socket server (`base/physicalsocketserver.cc`) | the signal pipe, the dispatchers | `Wait`, `WakeUp`, `Add`, `Remove` | a wake-up before the wait; dispatchers removed while iterating | no wake-up is lost |
| Signal thread (`base/signalthread.cc`) | `state_`, `refcount_` | `Start`, `Destroy`, `Release` | a release while the worker completes | destroyed once, not under the worker |
| Tasks (`base/task.cc`, `taskrunner.cc`) | `state_`, children, timeouts | `Start`, `Step`, `Wake`, `Abort` | aborts from a child, wake-ups while running | a blocked task that is woken runs |
| Session (`p2p/base/session.cc`) | `state_`, `remote_name_`, `initiate_acked_`, the transport proxies' held-back and sent candidates | `Initiate`, `Accept`, `Reject`, `Terminate`, one handler per stanza type, `OnMessage` | crossing stanzas, reordering by the server, redirects, time-outs, state changes handled late | the two sides agree; no candidate is lost; every session ends |
| Session manager (`p2p/base/sessionmanager.cc`) | `session_map_` | `CreateSession`, `DestroySession`, `OnIncomingMessage`, `OnIncomingResponse`, `OnFailedSend`, `TerminateAll` | answers for sessions that are gone or point elsewhere | an entry is never overwritten; entries go away |
| Session tasks (`p2p/client/sessionsendtask.h`) | the stanza sent | send, response, time-out | a late answer | one outcome per request |
| Transport (`p2p/base/transport.cc`) | `channels_`, `readable_`, `writable_`, `connect_requested_`, `ready_candidates_` | `CreateChannel`, `ConnectChannels`, `ResetChannels`, candidate and state signals | two threads posting to each other | the signaling side's view follows the worker's |
| P2P transport channel (`p2p/base/p2ptransportchannel.cc`) | `connections_`, `ports_`, `remote_candidates_`, `best_connection_`, the dirty and was-flags | port, candidate, packet and timer handlers, `SortConnections` | state changing while a sort is queued, connections destroyed under the best pointer, signaling answered late | the channel's state is its best connection's; it keeps pinging and allocating until writable |
| Ports and connections (`p2p/base/port.cc`, `stunrequest.cc`) | `read_state_`, `write_state_`, `pruned_`, outstanding pings, `lifetime_` | `Ping`, `UpdateState`, `Prune`, responses, deletion | deletion queued behind a packet that revives | only a dead connection is deleted |
| Port allocator (`p2p/client/basicportallocator.cc`, `portallocatorsessionproxy.cc`) | sequences, phases, ready ports | start, stop, configuration, ports ready | callbacks across threads; a muxed session shared by proxies | each port announced once |
| Relay, STUN, TCP, UDP ports (`p2p/base/*port.cc`) | relay entries, keep-alives | allocate, fail over | retransmission against late answers | an entry locked or given up |
| Pseudo-TCP (`p2p/base/pseudotcp.cc`) | sequence numbers, windows, timers | `Send`, `Recv`, `NotifyPacket`, `NotifyClock` | loss, reordering, duplication, wrap-around | what is received is a prefix of what was sent |
| XMPP engine (`xmpp/xmppengineimpl.cc`, `xmpplogintask.cc`) | engine and login state, IQ entries | connect, login, stanzas in and out | responses against stanza handlers that go away | login in order; an IQ answered once |
| Application (`mymolo/moloclient.cc`) | `channel`, `channel_is_not_work_` | `CreateChannel`, `SendData`, remote candidates, `DestroyChannel` | two threads on one channel | packets only through a channel that exists |

How they interact. A `Session` belongs to the signaling thread: it sends stanzas by a
signal that `SessionSendTask` turns into an IQ, gets stanzas from `SessionManager`, and
posts `MSG_STATE`, `MSG_ERROR` and the delayed `MSG_TIMEOUT` to its own thread. `Transport`
stands between it and the worker thread, with synchronous sends downwards (`Thread::Send`)
and posts upwards. `P2PTransportChannel` lives on the worker: its ports and connections
call it synchronously by signals, and it posts `MSG_SORT`, `MSG_PING`, `MSG_ALLOCATE` to
itself. The application makes a channel of its own, without a session, and sends its
candidates through its XMPP task.

Everything hard to test that we met is listed with its line under `hazards` in
`PROJECT.json`, with the properties that cover it.

## 2. The plan

1. `ThreadSend`: what every other component relies on. *Done, with proofs of its safety.*
2. `SessionNegotiation` and its proofs. *Done, with proofs of its safety.*
3. `P2PChannel` and its proofs. *Done, with proofs of its safety.*
4. `Transport`: the signaling and the worker thread around a transport's channels, and the
   session's transport proxies. *Done, with proofs of all it is checked for.*
5. `MessageQueue`: delayed messages, `MessageQueueManager` and its lock order; the mailbox
   it implements. *Done, with proofs, the refinement among them.*
6. `Tasks`, `XmppConnection` and `PseudoTcp`. *Done, with proofs of their safety.*
7. `BasicPortAllocator` with the session proxies, `StunRequest`'s retransmissions and
   `RelayPort`; `SignalThread`; `MoloClient` over `P2PChannel`. *Open.*
8. More abstract specifications: a rendezvous ("a call returns after its handler has run") that
   `ThreadSend` implements; a FIFO stream that `PseudoTcp` implements. *Open.*
9. More proofs: both streams of `PseudoTcp` in order in every execution, once the code lets it (section 5).
   *Done for those in which no data overtakes the connect message; open for the others.*

## 3. The models

### ThreadSend

A thread is a stack of frames. The bottom of a `Threads` member is the loop of
`Thread::Run` (`get_queue`, `get_stop`, `get_wait`: the three places of `MessageQueue::Get`
between which other threads can act); above it are the activations of `Send`
(`s_push` … `s_rewake`), of `ReceiveSends` (`rs_test`, `rs_ready`, `rs_wake`) and of
handlers (`run`). Handlers nest as in the code: a waiting `Send` runs `ReceiveSends`, which
runs a handler, which may send. What a handler does is open: it may `StartSend`,
`StartPost` or `Clear` any number of times, and `HandlerReturn`. `Outsiders` are operating
system threads without a `Thread` object, to which `Send` gives an `AutoThread` until it
returns; they also own the threads they may `Stop`.

A critical section is one step, except the one of `ReceiveSends` between `*ready = true`
and the end of its iteration, where the sender, which reads `ready` without the lock, can
run: `Free` says when the others must wait for it. `signaled` is the socket server's wake-up,
a byte in a pipe: setting it twice is the same as once.

Not modelled: `Peek`, priorities, the start of a thread, I/O in `Wait`. Delayed messages are in
`MessageQueue`.

### Lists

`Keep(s, K)` is what a loop over a `std::list` that erases leaves of it, `Ranked(S, R)` a set in the order in
which a priority queue gives it out. Both place each member by its rank, the number of members before it, and
are neither recursive nor choices of a whole sequence, so that what they return follows from the cardinalities of
finite sets.

### MessageQueue and Mailbox

A thread either runs code of its own or of a handler (`run`), in which it may post, clear, dispose,
delete a handler or stop a queue, or it is in the loop of `Get` (`scan`, `check`, `wait`). `cur`,
`next` and `until` are `msCurrent`, `cmsNext` and the end of the wait: the clock is read only where
the code reads it. A message's `Trigger` is a number of `TimeRange` values that wraps, as in
the code; `due` is the real time it stands for.

`Post`, `PostDelayed` and `Dispose` are several steps. Their first reads `fStop_`, and for a delayed message the
clock, without a lock (`post`); any time later `Enqueue` takes the queue's lock and puts the message in, or first
makes the queue active (`add`). `PostDelayed` computes the trigger time even before it looks at `fStop_`; since
`fStop_` only rises, a post that gets past it would have done so when the clock was read, and the two are one step.

Critical sections are one step but for three, in which a lock is held while another is asked for:
`Post` holds its queue's while it makes the queue active (`add`), `Get` and a queue's destructor hold
it while they delete a disposed handler (`dispose`), and `MessageQueueManager::Clear` holds the
manager's while it goes through the queues (`clear`). `WaitsFor` is who waits for whom there.

`Mailbox` is what the header promises: delivery at most once, not early, posted messages in order
and delayed ones by time and then in order, with one exception (`TooLate`): a delayed message that gets into the queue
when a later one is already due may come after it. `Get` may have moved that one to `msgq_`, and does not
sort there; a poster that is held up between the clock and the lock makes the case, and the stricter
`StrictlyByTime` is refuted (section 5). `MessageQueue` implements `Mailbox`
(`DeliversInOrder == Promise!Spec`): `pending` is `msgq_` and `dmsgq_` together, `due` what the
callers asked for, `since` when the message got into its queue, and a message counts from then on.

Not modelled: `Peek`, `PostAt` and `Get` with a time-out, which only tests call; that `Remove` deletes the manager
with its last queue (`messagequeue.cc:92`), which its comment expects at the program's end.

### Tasks

A task is a record of its members. The runner's loop is `at`, the index in `tasks_`; between two runs
and inside a task's `Process` (`busy`) any code may create, start, wake, fail and abort tasks. So
`Process` is two steps, `StepBegin` and one of the `End*`, with the calls between them. `posted`
is the message that `WakeTasks` leaves in the pump's queue. `Family` is what `Abort`
reaches: the least set with the task that holds the children of each member that is not busy.

Not modelled: `SuspendTimeout` and `AnyChildError`, which nothing calls; a task made or started
under a parent that is done already, or started twice, which the callers do not do, except where
section 5 says so.

### SessionNegotiation

A session of the `Initiator` with a responder; `Bare` are JIDs without a resource, for which
the server answers. One action is one handler of a signaling thread: `Initiate`, `Accept`,
`Reject`, `Terminate` and `TerminateAll` for the client's calls; `Deliver*` for
`OnIncomingMessage`; `ReceiveResult`, `ReceiveError`, `ReceiveRedirect` and `SendTimeout` for
what comes of a request; `CandidatesReady`, `TransportWritable`, `TransportUnwritable` for the
transport; `Dispatch*` for the messages that a session posts to itself, in order, in `queue`.
`timer` is the one delayed message: when it fires it is queued like the others.
`net` is a set: stanzas are reordered, delayed and, where fairness is not assumed, lost. A
`SessionSendTask` answers for one request, in `pending`: its time-out counts as an error, and an
answer that comes later is dropped (`Unwanted`).

Identical stanzas in flight are one element of `net`; they would be handled alike, and the second
refused or acknowledged. The server answers a stanza to a bare JID, and may refuse one to a peer
(`bounces`).

Not modelled: `session-info` and `description-info` (they change no state), muxing of
contents, several contents, candidates that do not verify, the `error_` value, and the hop of a
transport's writability from the worker to the signaling thread, which is one step here and
several in `Transport`. After a failed `ASSERT` the model goes on as a release build
does.

### Transport

The signaling thread calls the transport with `Send`, so that each of its calls is one step of both
threads; `signalQ` and `workQ` hold what is posted between them, in order. The worker takes a message and
handles it in two steps (`TakeSignalingReady`, `OnSignalingReady`). With one in its hands (`popped`) it serves
no `Send` and does nothing else, but the signaling thread runs, clears the queues and may delete the transport. A channel is a record with
its reference count, how often the transport's slots are connected to it (`wires`), and what it has
reported. `state` is how far the content's `TransportProxy` is: made, speculatively connecting, negotiated,
bundled; a channel proxy is `unset` while it has no channel of its own, `set` once it has. `timer` and
`error` are the session's `MSG_TIMEOUT` and `ERROR_TIME`. The end of a session is its
destructor, step by step (`stage`).

Not modelled: `ResetChannels`, which nothing calls; route changes; remote candidates; a bundled
content that has channels the first has not.

### P2PChannel

A connection is a pair of a port and a remote address. `queue` holds `MSG_SORT` and each
connection's `MSG_DELETE`, in order; the handlers of what comes from other threads or after a delay
may come between any two. `SortConnections` is one operator, used by the five handlers that sort:
it updates the states, chooses the best connection, prunes, and sets the channel's state, as the
code does without returning to its loop.

There is no clock. `UpdateState` may let a state time out whenever the code looks at it and the pings
that the time-out needs were sent (`Failing`). Two facts about times are used: a request expires
after 5 s and pings are 10 s apart (`p2ptransportchannel.cc:824`), so `OnPing` runs when no
request is outstanding; a worker thread that lags behind by more than 5 s is not modelled. Packets
are read only inside the socket server's `Wait`, which starts with an empty queue; after the first
post it completes the round of its sockets and makes at most one more (`polled`). That is how a
`MSG_DELETE` can find a connection that has come back to life.

`MoloClient` connects `SignalRequestSignaling` straight to `OnSignalingReady`: this is `Connect` (or
`AllocateAgain`) followed at once by `SignalingReady`, and a special case of the model, in which the
answer comes later as it does for sessions. It calls `RememberRemoteCandidate` itself
(`RememberOnly`) where sessions call `OnCandidate`.

Not modelled: `Reset`, `incoming_only_`, socket options, TCP's `connected_`, generations
(part of `Pref`), `SignalRouteChange`. `SendPacket` of another thread is two reads of
`best_connection_` and a use of it, interleaved with the worker.

### PseudoTcp

An end's control block is a record, with the names of the code; the functions of the code are
operators on it, and one action is one call from outside: `NotifyPacket`, `Send`, `Recv`,
`Connect`, `Close`, and one for each timer of `NotifyClock`. `net` is a sequence of packets for each
end. A position of a stream is its number, so that `InOrder` can tell which data was written where; what the
buffer has behind its data, `stash`, is kept as the code's buffer keeps it, with garbage in the gaps.
A loop of the code is a recursive function of the number of passes: a pass that finds the loop's condition false
changes nothing, and there are as many passes as the loop can have (`SendPasses`: one for each unit of the send
buffer; `FreePasses` and `RecoverPasses`: one for each member of the list).
Sequence numbers wrap at `SeqRange`; comparisons are the code's, which do not (`<=`).

There is no clock. A timer may fire when no packet is on its way and no acknowledgement delayed
(`Quiet`), or at any time, at the price of one of `MaxFaults`; so are losses, duplicates and
overtaking. Not modelled: path MTU discovery but for the refusal of a packet that is too large, options,
RST, the estimate of the round trip, `WR_FAIL`, and a clock that reads 0.

### XmppConnection

All of it is one thread. `pc` says where it is: outside, in a chunk of bytes (`input`), in the handlers
of a stanza (`stanza`) or in the callback for a new state (`told`). `Exit` is `~EnterExit`: it
writes the buffer, closes the socket and tells of the state, and only then does the application
have the thread again. `login` is the login task's `state_`; `server` what the server has
been asked and may rightly answer, and `Unexpected` and `StreamEnds` are what else it may send, at any
time. `Proceed` asks the socket for TLS, which it may refuse: it was made with `TLS_DISABLED` or built without
`FEATURE_ENABLE_SSL`, its adapter reports an error, or it has been asked before. The engine does not look
at the answer and goes on as if TLS were up. `sent` is history: the application's stanzas in the order in which they reach the socket.

Not modelled: the answers to IQs, which `SessionNegotiation` has as requests; `Disconnect` from
within a callback; a second `DoLogin`; an `XmppAuth` that is not done at once.

## 4. The runs

All runs say `CHECK_DEADLOCK FALSE`: each system may stop for good. In `ThreadSend`, `MessageQueue` and
`Tasks` the messages or calls are used up and every thread sleeps; in `SessionNegotiation`,
`Transport` and `XmppConnection` the session or connection ends; in `P2PChannel` a channel without ports or
with no session left has nothing to do, and in `PseudoTcp` everything has been sent.

| run | instance | shows |
|---|---|---|
| `thread_send` | 2 threads (one with code before its loop, one stoppable), 1 outsider, 3 messages | no lost wake-up, sends are synchronous |
| `thread_send_live` | 2 threads that both start with code of their own, 3 messages, fair | cyclic and nested sends return, posts are delivered |
| `message_queue` | a reader and another thread, 2 handlers of which one is disposed of, delays 1 and 2, 3 messages | a wait is never too long; nothing is left for a handler that is gone; which threads can deadlock; the mailbox is implemented, however late a poster gets the lock |
| `tasks` | 3 tasks, 1 time-out, 1 tick | tasks that are done are not stepped, their children stop, no pointer dangles, nobody is forgotten |
| `session_negotiation` | a bare JID, 2 responders with all four verdicts, a redirect, 1 candidate, `TerminateAll` of the initiator | agreement on accepts and rejects; nothing is held back after an accept; no initiate overwrites a session |
| `session_candidates` | 1 responder, 1 candidate on each side, fair delivery | candidates follow the initiate and arrive |
| `session_ends` | 1 responder with its timers, 1 refusal by the server, no fair delivery | the responder's session ends after the initiator's |
| `transport` | 2 channels, 2 proxies made, 2 reports | proxies hold channels; bits, timer, candidates and requests survive the hop between threads; a channel goes with its last proxy, and not before |
| `channel_allocation` | 1 connection, 3 allocator sessions, 2 failures, 2 round-trip times, a sending thread | an unwritable channel is always about to allocate |
| `channel_pings` | 1 port, 2 addresses, fair pings | types; nothing stale once no sort is queued, with pruning; every pingable connection is pinged again and again |
| `pseudo_tcp` | 5 and 1 units, windows of 4 scaled by 2, 1 fault, one end closes | what is read is what was written; segments match the buffer; no overrun, no deadlock; a close delivers |
| `xmpp` | 3 TLS options, 5 sets of features, 4 stanzas | stanzas keep their order; nothing is stuck; credentials wait for the server's consent to TLS and for the socket; the end is told once and the client goes |

The type invariants of the other modules, and `SenderBlockedWhileHandled`, `GivesUp` and
`DestroyedWithRunner`, hold in these instances too. All of these but `GivesUp` are proved.

**Bounds.** `MaxMsgs` of `ThreadSend` bounds how many sends and posts there are: three messages on two
threads are enough for a cycle of sends with one more nested in a handler, or a send, the post that its
wait consumes the wake-up of, and one more. In `MessageQueue` three messages are two delayed
ones of which the earlier gets the lock last and one posted between them, or a disposal, what it overtakes and
what overtakes it; `Span` lets both delays pass, and only one of the two handlers is posted to (`Busy`), the other
is disposed of. `MaxBounces`, `Verdicts`, `Watched`, `Ending` and `Candidates` switch on one source of trouble
each, since all of them together exceed what TLC can visit; each run enables those its
properties are about, and the proofs cover all of them at once. `Ports`, `Candidates` and
`MaxSessions` bound the channel; two connections are what sorting, pruning and the order of pings need,
since they compare connections pairwise. `Failures` stands for the code's 5 and is 1 or 2;
`DefaultRtt`, `Rtts` and `MinImprovement` are small numbers on both sides of the margin. In `Transport` two
reports are enough for a channel that becomes writable, and another, or the same one again, after it; the
proofs have no bound. In `PseudoTcp` the opener sends more than the other's buffer holds, so that the window
closes, and in chunks larger than a segment, so that segments are split; one fault is a loss, a late
packet, a duplicate or an early timer, each of which makes the retransmissions and duplicate
acknowledgements that recovery is made of; `MaxXmit` and `MaxProbes` are small so that an end can give up.
Three tasks are a parent, a child and a grandchild or a sibling; one call of `Wake` or `Error` meets every
state of the runner. Four stanzas are one before the login, one in the middle, one from a handler and one after
it; `MaxOutput` keeps a server from asking without an end.

**Fairness.** `ThreadSend!Fairness` is weak fairness of every actor's next step: the operating system
schedules every thread, and handlers return. The wake-up is level-triggered, so weak fairness is enough.
`LocalFairness` of `SessionNegotiation` is that each thread dispatches its own queue and its timers
fire, and that a transport whose peer has no session any more, and so gets no answers, in the end
stops being writable. `FairSpec` adds that the network delivers, for the one property that needs
it. A client's calls are never fair. `PingSpec` of `P2PChannel` has the delayed `MSG_PING`, which
`OnPing` always posts again, and the expiry of requests; `FairSpec` adds that posted messages are
handled. No packet need ever arrive. `FairSpec` of `XmppConnection` is that its thread leaves the engine,
returns from callbacks and dispatches the pump's message; neither the server nor the socket need do
anything. The other modules state safety only; `NobodyForgotten`, `NeverStuck`, `Watched`,
`SignalingComing` and `CandidatesGoOut` say in each state what will come next, so that what is fair about it
is one thread's message loop or timer.

## 5. Where the code and its comments differ

The modules also state what the repository says of itself, or what one would expect of it, and TLC
refutes. These are not among the runs, and nothing else depends on them; a cfg that names the property,
with the constants of the component's run except where the table says otherwise, shows it.

| property | said at | code | what happens |
|---|---|---|---|
| `SenderThreadExists` | `thread.cc:421` | `thread.cc:433` | `ReceiveSends` sets `ready`, the sender returns and destroys its `AutoThread`, and then is woken |
| `QuitDeliversPending` | `messagequeue.h:181` | `messagequeue.cc:229` | `Get` sees `fStop_` after a sender has found it clear: the send is never handled |
| `DeliversInOrder`, or `WakesInTime`, with `Start` = 14 | `messagequeue.h:153` | `messagequeue.h:163` | trigger times are compared as unsigned numbers: when the clock wraps, what is due later sorts first and holds up what is due |
| `StrictlyByTime` | `messagequeue.h:153` | `messagequeue.h:201` | the trigger time is computed before the lock is taken: a poster that is held up puts its message behind a later one that `Get` has already moved to `msgq_` |
| `OnlyDisposeDeadlocks`, with `FALSE` in place of its exception | `messagequeue.cc:99` | `relayserver.cc:557` | a thread deletes a disposed handler with its queue locked and waits for the manager; another clears a handler and waits for that queue |
| `ExpectedMessagesOnly` | `session.cc:1081` | `session.cc:1081` | an accept that crosses a terminate fails `ASSERT(state() == expected)` |
| `TerminateAllReturns`, with `FairSpec`, one responder, no bare JID and no candidate | `sessionmanager.h:84` | `sessionmanager.cc:126` | the loop waits for a removal that its own thread's messages would make |
| `AllResent` | `session.cc:1073` | `session.cc:1223` | after a redirect a candidate that was held back, then sent, is not sent anew |
| `CandidatesAfterInitiate`, in the instance of `session_negotiation` | `session.cc:729` | `session.cc:1075` | `initiate_acked_` is not reset, so candidates do not wait for the new initiate |
| `SessionsEnd`, with the verdict `bad_content` | `sessionmanager.cc:56` | `sessionmanager.cc:58` | the session made for it stays in `STATE_INIT` in the map |
| `ReadableIsOr` | `transport.h:127` | `transport.cc:183` | `DestroyChannel_w` has only the writable bit looked at again, so a transport stays readable without a readable channel |
| `FutureChannelsConnect` | `transport.h:151` | `transport.cc:194` | `ConnectChannels` of a transport without channels is forgotten |
| `NoneHandledLate` | `transport.cc:212` | `transport.cc:453` | `Clear` does not reach a `MSG_ONSIGNALINGREADY` that the worker has taken from its queue: it is handled on a transport that has been deleted |
| `AllocationsStop` | `p2ptransportchannel.cc:728` | `p2ptransportchannel.cc:978` | a late `OnSignalingReady` makes a session, gathers ports and posts `MSG_ALLOCATE` although the channel is writable |
| `SwitchWorthwhile`, with `Pref` the same for all, `Rtts` 5 and 6 and a `MinImprovement` of 2 | `p2ptransportchannel.cc:59` | `p2ptransportchannel.cc:161` | `rtt_b <= rtt_a + kMinImprovement` switches to a connection that may even be slower |
| `BetterTried` | `p2ptransportchannel.cc:836` | `p2ptransportchannel.cc:853` | pings are 10 s apart, so the writable best connection is always due and takes every one |
| `SendsOnLive` | `p2ptransportchannel.cc:529` | `p2ptransportchannel.cc:532` | the worker destroys the best connection while another thread sends on it |
| `DeletedWhenDead` | `port.cc:836` | `port.cc:846` | a connection is deleted although it has come back to life |
| `InOrder`, with 8 for `OtherSends`, `Chunk` and both buffers, `OpenerSends` 0, `WndUnit` 1 and no `Closers` | `pseudotcp_unittest.cc:254` | `pseudotcp.cc:892` | the responder's connect message is lost, and data behind it is kept as out of order; when the connect message is sent again, `m_rcv_nxt` passes it, but the buffer has nothing written for it, so that what was kept is read from the wrong place |
| `AcksDue` | `pseudotcp.cc:837` | `pseudotcp.cc:1090` | when Nagle's algorithm keeps data back, `attemptSend` returns without the acknowledgement that it was called with |
| `NextIsSoonest` | `taskrunner.h:78` | `taskrunner.cc:183` | the next task stays the next one when its own time-out is put off |
| `CredentialsUnderTls` | `xmpplogintask.cc:149` ("Error if TLS required but not present"), `xmppengine.h:244` ("under TLS") | `xmppengineimpl.cc:415` | the result of `StartTls` is not looked at: where the socket refuses (`xmppsocket.cc:227`; `xmppthread.cc:108` makes it with `TLS_DISABLED`, and `Android.mk` builds it without `FEATURE_ENABLE_SSL`) the login goes on in the clear although TLS is required |
| `CloseIsNoticed` | `xmppengineimpl.cc:118` | `xmppsocket.cc:119` | `SignalCloseEvent` has no slot, `XmppClient` listens to `SignalClosed`: a connection that the server closes is never noticed |

Read off the code while modelling it, without a property:

- *Sessions.* `DestroyChannel` of a channel proxy that is still speculatively connecting leaves the channel in
  the transport, and the next `CreateChannel` of its name fails the assertion at `session.cc:84`. Bundling
  connects the transport's slots to a channel twice (`wires`), so that everything is reported
  twice. `MaybeEnableMuxingSupport` before the negotiation is complete fails the one at `session.cc:446`.
- *Pseudo-TCP.* A peer that does not read but answers every probe is given up after about 31 s: the time
  since the last packet is compared when the probe is due, after its time-out has been doubled past
  15 s (`pseudotcp.cc:347`).
- *Tasks.* A task that wakes or fails itself inside its own `Process` and returns `STATE_BLOCKED` stays
  blocked. `XmppPump` never calls `PollTasks`, and its `CurrentTime` is in milliseconds where `Task`
  counts 100 ns: time-outs happen only when another task wakes the runner. A task that was never started is not
  deleted with the runner. A second `DoLogin` starts the client's task twice, which deletes it twice
  (`task.cc:76`).
- *XMPP.* `XmppSocket::Close` does nothing once TLS is
  up. `SendStanza` before `DoLogin` uses an engine that is not there, and `OnSocketRead` a socket that the
  input just handled may have deleted. `SignalDisconnected` is never emitted.
- *Application.* `channel` of `MoloClient` is not initialised, is replaced by every `MSG_CREATECHANNEL`
  (`moloclient.cc:250`), and candidates that come before it is made are never given to it. `Quit` posts to a
  worker thread that is not there when the connection closes before it has opened. `SendStanza` is called on
  the worker thread (`moloclient.cc:335`) and races with the engine on `output_`. `MoloXmppTask` is added
  twice to the engine's handlers and never started.

## 6. The proofs

Every safety property that a run checks is proved, for every value of the constants: those of `PseudoTcp` and two
of `MessageQueue` unless numbers wrap (`NoWrap`), one of `SessionNegotiation` without bare JIDs, and one of
`PseudoTcp` for the executions in which data does not overtake the connect message, as said below. The sections follow the modules; `P2PTransportProofs`
has two of them, `P2PChannel` and `Transport`, which are specifications of their own and share nothing. So that both can
be had by one module, `Transport` calls its specification `TransportSpec`, and its initial states, steps, types and
variables likewise.

**Lists.** `ListsProofs` says what `Keep` and `Ranked` return: a list of the members that were to be kept,
each as often as before (`KeepMembers`, `KeepNoRepeats`) and in the same order (`KeepOrder`), piece by piece of a
list (`KeepConcat`); a set in its order, each member once (`RankedLists`, `RankedUnique`).

**ThreadSend.** `ThreadSendProofs` proves, of any number of threads, outsiders and messages:

- `TypeCorrect`: `TypeOK`;
- `WakeUpsAreKept`: `NoLostWakeup`;
- `SenderWaits`: `SenderBlockedWhileHandled`;
- `SendsReturnLate`: the action property `SendIsSynchronous`.

The invariant is `SendInv`. Its first half follows a message: one frame makes it (`OneMaker`), it is in one list at
most (`Listed`), one frame handles it (`Runs`), and between the handler's start and `*ready = true` the sender's
frame is there (`Handled`); `fate` says which. A send can so return only by `ready`, which is set for what was
handled or cleared. Its second half is about sleep. `NoLostWakeup` is only about an actor that waits in its
innermost frame, and is not inductive: a wait further down the stack has its wake-up consumed by the wait above
it. `Waits` therefore speaks of every waiting frame: its wake-up is on its way, or a frame above it has consumed
one and will give it back (`Owed`, the `waited` of `Thread::Send`), or will still look at the send list
(`Looks`). `Sleeps` says the same of the bottom of the stack, `Get`.

**MessageQueue.** `MessageQueueProofs` proves, of any number of threads, queues, handlers and messages:

- `TypeCorrect`: `TypeOK`;
- `DeadGetNothing`: `NoneForDead`;
- `DeadlocksNeedDispose`: `OnlyDisposeDeadlocks`;
- `WaitsAreShort`: `WakesInTime`;
- `ImplementsMailbox`: `DeliversInOrder`, that every step of `MessageQueue` is one of `Mailbox` or a stutter.

The first three follow from `Held`. A message of a dead handler can be only where `MessageQueueManager::Clear` has
still to look (`Buried`). This needs that a queue the manager does not know is empty or has stopped (`Inactive`),
and so what holds in the middle of a `Post` (`PostOK`): the message is in no
queue yet, its handler lives, and its queue is active or empty. `ClearOK` and `EndOK` say what the holder of the manager's lock has to do, and
which threads can be in their end. `WaitsAreShort` adds `Waiting`: the property from the look at the empty queue
on, not only in the wait, because a post in between must leave a wake-up. `ImplementsMailbox` adds
`Ordered`: what is in `msgq_` is due, delayed and posted messages are each in order there, and no delayed message
in `dmsgq_` comes before one in `msgq_`, unless that one was due already when it got into the queue (`Comes`);
then the message that is taken is one that `Mailbox` would deliver.

These two assume `NoWrap`: the program does not run into the wrap of its 32-bit milliseconds, and its delays are
less than half of their range. Without it they are false (section 5). The run's instance satisfies it.

**Tasks.** `TasksProofs` proves, of any number of tasks, calls and time-outs:

- `TypeCorrect`: `TypeOK`;
- `DoneStaysBlocked`: `DoneIsBlocked`;
- `ChildrenStopToo`: `ChildrenStop`;
- `PointersHold`: `NothingDangling`;
- `EveryTaskHasARun`: `NobodyForgotten`;
- `RunnerTakesAll`: `DestroyedWithRunner`.

`DoneIsBlocked` is about each task by itself: whichever tasks `Abort` reaches, a busy one is only marked and any
other becomes done and blocked together (`Soundness`). The others need the tree. `Family` is defined as a least
closed set, so that what is proved of it is that it is closed (the children of what is reached are reached, except
below a busy task) and that a set which is closed contains it. Then an abort leaves no child that runs
under a parent that is done, except the one whose own `Process` goes on (`Stopped`), and no child without its
parent (`Rooted`). Tasks are deleted together at the end of a run; that a task which is left has its parent left
is `Rooted`, and that the destructor of the runner leaves nobody is an argument about the oldest survivor, whose
parent, made before it (`Aged`), would be one too. `Loop` is about the lists: what is before the runner's place in
`tasks_` is blocked unless a run has been posted (`Passed`), and `next_timeout_task_` is in the list, or nothing
there has a time-out (`Timed`).

**SessionNegotiation.** `SessionNegotiationProofs` proves, for any sets of peers, JIDs and candidates and any bounds:

- `TypeCorrect`: `Spec => []TypeOK`;
- `AcceptsAgree`, `RejectsAgree`: `AcceptAgreement` and `RejectAgreement`;
- `NoneHeldBack`: `NothingHeldBack`;
- `NoSessionOverwritten`: `InitiateFindsNoSession`;
- `CandidatesComeAfter`: `CandidatesAfterInitiate`, if there are no bare JIDs.

The first five follow from `Invariance`, `Spec => []Inv` with
`Inv == TypeOK /\ Quiet /\ Held /\ Core`. The properties are not inductive by themselves. `AcceptAgreement`
depends on which accepts can be in flight, and from whom: an accept is only sent by a responder that
has received the initiate and moved on to `SENTACCEPT`, and `FindSession` drops it if the initiator
points elsewhere. `Core` says this of the stanzas in `net`: `Senders` (only the initiator
initiates, and only the server redirects), `Uncalled` (as long as the call goes to no resource, or to a bare
JID, no responder has a session or an initiate on its way; this is why a redirect finds no session to
overwrite), `AcceptsTrue` and `RejectsTrue` (an accept or a reject in flight is still true of its
sender), and `Roles` (which states each side can be in). `Quiet` says that a session that does
not exist has no messages posted and no timer, and `Held` ties `acked` to the held-back candidates. The lemmas
`StillStep`, `EndStep`, `InitiateArrives` and `NewSessionStep` show that the four kinds of
step (no session changes, one ends, an initiate arrives, a session is made) preserve `Core`; `NextInv`
splits `Next` into its actions and sorts each into one of them.

`CandidatesComeAfter` has an invariant of its own, `Follows`: an initiator that believes its initiate acknowledged
talks to a responder that it has reached, and so has every acknowledgement of an initiate on its way. For a call to a bare
JID this is false: the server answers with a redirect, and `initiate_acked_` survives a redirect that comes
after an acknowledgement (section 5). So it assumes `Bare = {}`, a call to a full JID, as the run does.

**Transport.** `P2PTransportProofs` proves of any names and numbers of channels:

- `TransportTypeCorrect`: `TransportSpec => []TransportTypeOK`;
- `ProxiesHold`: `Held`, a channel that a proxy holds is there;
- `ChannelsGo`: the action property `GoesWithLast`, a channel goes with the last proxy that holds it.

They follow from `RefsInvariant`, with `RefInv == TransportTypeOK /\ (\A n \in Names : Entry(n))`. `Held`
alone is not inductive: `Entry` says what `ref_` counts in each stage of the negotiation. A channel that
was made before the negotiation was complete is counted although its proxy has not been given it yet;
no entry has a user more than that. So the last proxy to go takes the last count with it, in
whichever way it goes (`LastUser`), and a channel is never left without anybody who could destroy it.

It goes on from there to the messages that the worker has posted to the signaling thread:

- `CandidatesLeave`: `CandidatesGoOut`;
- `NoRequestForgotten`: `SignalingComing`.

Lemmas on the queue say that posting keeps what is there and that taking a message keeps those of the other
kinds. `QueueInv` adds `Wired`: a channel that waits or has an allocator session has a slot of the transport
connected to it. Otherwise a channel would ask and nobody would post; that a channel which `ConnectChannels`
finds is wired is what `Entry` knows of the stages before the negotiation.

And it relates the signaling thread's picture to the channels:

- `WritableAgrees`: `WritableIsOr`;
- `SessionWatched`: `Watched`.

The session starts and stops its timer by what it sees, `writable_`, which is late. So the invariant relates the
timer to that (`Timed`), `WritableIsOr` relates it to the channels, and `Watched` is the two together. `Bits`
adds that nothing is readable, allocated or announced before the transport connects, so that a message which
starts the timer is never one too early. `FirstAnnounced` is why a transport that connects already is never given
its first channel unannounced: only one is made at a time then.

**P2PChannel.** `P2PTransportProofs` proves, of any ports, candidates, preferences and bounds:

- `AllocationAlwaysComing`: `AllocationComing`;
- `TypeCorrect`: `TypeOK`;
- `ChannelSettled`: `NothingStale`.

The channel loses writability only in `ChannelUpdated`, and `was_writable_` and `was_timed_out_` decide there
whether it allocates: `AllocInv` adds to the property that `wasWritable = writable` and that a writable channel is
not marked as timed out. `NothingStale` follows from `SortInv`, the types and `Settled`. Its proof has two sides.
A sort that ends without having posted another leaves a best connection that is writable if any is: it is the
first in the order of `CompareConnections`, by write state before all else, or the old best one, which `ShouldSwitch`
keeps only if it is no worse (`BestWritable`); and a pruning that changes a write state posts another sort.
Every other handler that changes a write state, makes a connection or destroys the best one either sorts itself or
queues a `MSG_SORT`, unless one is there; to lose another connection does not matter, since the best one is
writable if any is. The types hold what could dangle: `best`, the sorted list and the queue refer to
connections that exist, these to ports that exist.

**PseudoTcp.** `PseudoTcpProofs` proves, of buffers, segment sizes and windows of every size and for any number of
lost, repeated and reordered packets and early timers, as long as sequence numbers do not wrap (`NoWrap`):

- `TypeCorrect`: `TypeOK`, by which unsigned numbers never pass 0;
- `SegmentsCover`: `SegmentsMatch`;
- `WindowsHold`: `NoOverrun`;
- `ClosesDelivered`: `CloseDelivers`;
- `StuckNever`: `NeverStuck`;
- `ResponderReadsInOrder`: what the opener writes is read in order;
- `StreamsInOrder`: `Spec /\ []ConnectFirst => []InOrder`, both streams are read in order, however long they are,
  if the opener never keeps data of the other end before that end's connect message has come.

All of them follow from `TcpInvHolds`. `TcpInv` has four layers. `Half` is what an end knows by itself: its segments
cover its send buffer without gaps, those that have been transmitted come first and end at `nxt`, and there is a timer
when something is in flight (`SndOK`); its receive window, what waits for the application and what is kept behind it
fit in the buffer (`RcvOK`). `Peered` relates it to its peer: what has been received ends where a segment of the
sender begins (`Points`; an acknowledgement can therefore never end within a segment), and what may be sent ends
before the edge of the window. `FromTo` says the same of every packet on its way, although it may be as old as the
connection: its acknowledgement and window were true once, and its data is what the sender's stream has at
that position. `Phase`, `Progress` and `Content` hold only between calls: the state and the positions of the
application, a reason for each wait, and what has been read and what is stored.

A packet's contents stay true because what it speaks of only grows: `Grows` orders the control blocks of an end
(what is received, the edge of its window and what is acknowledged go up, and a boundary of segments remains one), and
every function of the code is shown to respect it. So an action of one end needs to be looked at only at that end,
and the lemma that puts the two together (`NextSound`) is the same for all actions. The functions of `process` have
a lemma each, in their order; between them hold the parts of `Fine`, and the last, `attemptSend`, gives back
`Progress`, because it stops only when the window or Nagle's algorithm keeps it from going on.

The loops need induction. The library's theorems for it take an operator as a parameter, so it goes by the
least number: `Least` (from `WFMin` of `WellFoundedInduction`) gives the first pass after which something does not
hold, and the pass before it contradicts that. That the loops have ended after as many passes as they are given is
proved too, by what each pass uses up.

`InOrder` needs its hypothesis: the responder's data may overtake its connect message, and then the opener stores it one
unit off (section 5, where TLC shows the failure with a longer stream; in the run the second stream is one unit, for
which it does no harm). `ConnectFirst` rules out no more than that, a list of kept segments while nothing has been
received, and leaves every loss, duplicate and reordering that comes later, and those of the connect messages
themselves. The opener's data never overtakes its connect message, since the responder must have heard it to be
written to: `ResponderReadsInOrder` has no such hypothesis. So `TcpInv` has a parameter, whether it speaks of what the
opener reads, too (`Reads`), and it is proved both ways, `TcpInvHolds` without and `BothRead` with the hypothesis; the
rest, windows and closing among it, is the same for both, however much they write.

**XmppConnection.** `XmppConnectionProofs` proves, of any features of the server, TLS options and number of stanzas:

- `CredentialsWaitForProceed`: `AuthAfterProceed`;
- `EverythingWritten`: `NothingStuck`;
- `StatesToldOnce`: `ToldOnce`;
- `StanzasKept`: `KeptInOrder`;
- `StreamsStartFresh`: the action property `FreshStream`;
- `TypeCorrect`: `TypeOK`.

The first two follow from `Invariance`, with `IInv == Typed /\ TlsFirst /\ Flushed`. `TlsFirst`: until the server
has agreed to TLS, TLS that is required stays so, the login is not past the server's features and nothing
secret has been printed; `Proceed` is what sets `encrypted`, and no stream that starts over undoes it. That the
login also waits for the socket is `Upgrading`: as long as the socket sets TLS up the login is where `Proceed` has
left it. Whether there is TLS in the end the code does not know (`CredentialsUnderTls`, section 5), and so
nothing is proved of it.
`Flushed`: the output handler is there until the engine closes, so that every exit writes the
buffer, also the one that closes it.

`StatesToldOnce` needs `Linked`, which ties what was told last to where the thread is (the engine's state, or in a
chunk the state in which it was entered) and the client's task to the engine; a state that is told is then
a later one (`TellGrows`), because the engine's states only go forward. `StanzasKept` counts: what has been written,
what is in the buffer and what is queued are together the stanzas accepted, in order (`Counted`), and a login that
has ended leaves no queue behind, so that what is printed from then on does not overtake. That the stanzas of
two buffers together are those of each is `KeepConcat`. `StreamsStartFresh` rests on `Dropping`: while the start of
a stream is in the buffer `raised_reset_` is set, and so the rest of the chunk is dropped.

**What the proofs rest on.** The assumptions about constants in their modules, which state what the constants
are: `ThreadSendAssumption`, `MessageQueueAssumption`, `TasksAssumption` (at least one task),
`SessionAssumption`, `BoundsAssumption`, `P2PChannelAssumption`, `PseudoTcpAssumption` (the unit of the window is no
larger than the buffer, segment sizes descend to one that the path takes) and `ConstantsAssumption`; and `NoWrap`,
`Bare = {}` and `[]ConnectFirst` where a theorem says so.

**Only model-checked.** `GivesUp` of `PseudoTcp`, which counts faults against retransmissions, with the constants of
its run; and liveness, in all modules (`SendsReturn`, `PostsDelivered`, `CandidatesArrive`, `SessionsEnd`, `PingedInTurn`,
`ClosedIsDeleted`): fairness is made of `ENABLED`, which TLAPS does not reach. The proofs say of some of them
what will come next (`NoLostWakeup`, `NobodyForgotten`, `ToldOnce`, `AllocationComing`), and leave
that it comes to TLC.

## 7. What is not modelled

The components of `PROJECT.json` with status `not_modelled`: the port allocator, the kinds of ports,
`SignalThread` and the application, which the plan still has (7); and, for good, vendored libraries, wrappers
of sockets, files and TLS, the encodings of STUN and XML, the simulated networks and servers of the tests,
diagnostics, and the roster and chat-room modules, which the application does not use.
