----------------------------- MODULE MessageQueue -----------------------------
(***************************************************************************)
(* talk_base::MessageQueue and MessageQueueManager (base/messagequeue.cc): *)
(* posted and delayed messages, the clock that Get reads, the wait of its  *)
(* socket server, and what goes away with a MessageHandler or a queue.     *)
(* ThreadSend has the synchronous sends over the same queues.              *)
(*                                                                         *)
(* A reader owns a queue and alternates between code of its own or of a    *)
(* handler ("run") and the loop of Get; the other threads only run.  Times *)
(* are 32 bits wide and wrap; here they have TimeRange values, and now     *)
(* counts the milliseconds since the start without wrapping.  Peek and     *)
(* PostAt, which only tests call, Get with a time-out, and the deletion of *)
(* the manager with its last queue at the program's end are left out.      *)
(***************************************************************************)
EXTENDS Integers, Sequences, FiniteSets, SequencesExt, Lists

CONSTANTS Threads,
          Readers,      \* those that read a MessageQueue of their own
          Handlers,     \* MessageHandlers
          Disposables,  \* those that are given to Dispose (RelayServerBinding)
          Busy,         \* bound: those that messages are posted to
          Delays,       \* delays that are asked for
          TimeRange,    \* 2^32 in the code
          Start,        \* Time() when the program starts
          Span,         \* bound: how long it runs
          MaxMsgs,      \* bound: how many messages are posted
          None

ASSUME MessageQueueAssumption ==
  /\ IsFiniteSet(Threads)
  /\ Readers \subseteq Threads /\ Disposables \subseteq Handlers
  /\ Busy \subseteq Handlers
  /\ None \notin Threads \cup Handlers
  /\ (Handlers \cup {None}) \cap (1..MaxMsgs) = {}
  /\ Delays \subseteq Nat /\ Span \in Nat /\ MaxMsgs \in Nat
  /\ TimeRange \in Nat \ {0} /\ Start \in 0..TimeRange - 1

Msgs == 1..MaxMsgs   \* numbered as they are put into a queue;
                     \* dmsgq_next_num_ is the same order, in each queue

VARIABLES now,       \* real time
          msgq,      \* msgq_ of each thread's queue
          dmsgq,     \* dmsgq_
          fStop,     \* fStop_
          managed,   \* message_queues_, the queues that are active_
          signaled,  \* the pending wake-up of each socket server
          posting,   \* the message that each thread is in Post with
          post,      \* what each message is
          taken,     \* the messages that Get has returned
          alive,     \* the handlers that have not been destroyed
          pc,        \* what each thread is doing
          running,   \* the message whose handler it is in
          arg,       \* the handler, or the message that disposes of one, that
                     \* the operation is about
          todo,      \* the queues that MessageQueueManager::Clear has left
          cur,       \* msCurrent in Get
          next,      \* cmsNext
          until      \* when the thread's Wait times out

clock  == <<cur, next, until>>
queues == <<msgq, dmsgq, signaled, taken>>
vars   == <<now, msgq, dmsgq, fStop, managed, signaled, posting, post, taken,
            alive, pc, running, arg, todo, cur, next, until>>

(***************************************************************************)
(* scan, check, wait: the loop of Get.  run: a handler.  post: in Post,    *)
(* about to take the queue's lock.  add: in Post, about to make the queue  *)
(* active.  clear: in MessageQueueManager::Clear.  dispose: in Get,        *)
(* deleting a handler.  left, removed, gone: the end.                      *)
(***************************************************************************)
PCs == {"scan", "check", "wait", "run", "post", "add", "clear", "dispose",
        "left", "removed", "gone"}

Forever == -1

-------------------------------------------------------------------------------
\* Times (base/timeutils.cc).

Time(t) == (Start + t) % TimeRange

\* later - earlier as a signed number of the same width.
TimeDiff(later, earlier) ==
  LET d == (later - earlier) % TimeRange
  IN  IF 2 * d < TimeRange THEN d ELSE d - TimeRange

TimeIsLater(earlier, later) == TimeDiff(later, earlier) > 0

Trigger(m) == Time(post[m].due)

\* Mutant: of two messages with the same time, the later one first.
Sooner_Backwards(m, n) ==
  Trigger(m) < Trigger(n) \/ (Trigger(m) = Trigger(n) /\ m > n)

\* DelayedMessage::operator<, soonest first.
Sooner(m, n) == Trigger(m) < Trigger(n) \/ (Trigger(m) = Trigger(n) /\ m < n)

\* The order of dmsgq_ on the messages D.
InTime(D) == {p \in D \X D : Sooner(p[1], p[2])}

Top(D) == CHOOSE m \in D : \A n \in D \ {m} : Sooner(m, n)

\* What the first loop of Get moves to msgq_: it stops at the first message
\* that is not due.
Triggered(D, t) ==
  {m \in D : \A n \in D : (n = m \/ Sooner(n, m)) =>
                            ~TimeIsLater(Time(t), Trigger(n))}

-------------------------------------------------------------------------------
\* Locks.  crit_ of a queue is held by a thread that makes it active, and by
\* its owner while that deletes a disposed handler; the manager's is held
\* throughout Clear.  All other critical sections are one step.

HoldsManager(t) == pc[t] = "clear"

HoldsQueue(t, q) ==
  \/ pc[t] = "add" /\ posting[t].q = q
  \/ pc[t] = "dispose" /\ q = t
  \/ pc[t] = "clear" /\ arg[t] \in Msgs /\ q = t

ManagerFree  == \A t \in Threads : ~HoldsManager(t)
QueueFree(q, t) == \A u \in Threads \ {t} : ~HoldsQueue(u, q)

Goto(t, label) == pc' = [pc EXCEPT ![t] = label]

\* arg is the handler to clear, or the message whose disposal destroys it.
Cleared(t) == IF arg[t] \in Msgs THEN post[arg[t]].doomed ELSE arg[t]

-------------------------------------------------------------------------------
Init ==
  /\ now = 0
  /\ msgq = [q \in Readers |-> <<>>]
  /\ dmsgq = [q \in Readers |-> {}]
  /\ fStop = [q \in Readers |-> FALSE]
  /\ managed = <<>>
  /\ signaled = [q \in Readers |-> FALSE]
  /\ posting = [t \in Threads |-> None]
  /\ post = <<>>
  /\ taken = {}
  /\ alive = Handlers
  /\ pc = [t \in Threads |-> "run"]
  /\ running = [t \in Threads |-> None]
  /\ arg = [t \in Threads |-> None]
  /\ todo = <<>>
  /\ cur = [t \in Readers |-> 0]
  /\ next = [t \in Readers |-> 0]
  /\ until = [t \in Readers |-> Forever]

\* Bound: the clock stops at Span.
Tick ==
  /\ now < Span
  /\ now' = now + 1
  /\ UNCHANGED <<queues, fStop, managed, posting, post, alive, pc, running, arg,
                 todo, clock>>

Posters == {u \in Threads : pc[u] \in {"post", "add"}}

\* Post and DoDelayPost up to the lock.  A stopped queue accepts nothing; the
\* flag is read without the lock.
\* Bound: MaxMsgs messages, those that are still to be put into a queue included.
StartPost(t, p) ==
  /\ pc[t] = "run" /\ pc[p.q] \notin {"left", "removed", "gone"}
  /\ Len(post) + Cardinality(Posters) < MaxMsgs
  /\ ~fStop[p.q]
  /\ posting' = [posting EXCEPT ![t] = p]
  /\ Goto(t, "post")
  /\ UNCHANGED <<now, queues, fStop, managed, post, alive, running, arg, todo,
                 clock>>

\* Of a delayed message, due is msTrigger_ and at the time when it gets into the
\* queue.
Posting(q, h, delayed, due, doomed) ==
  [q |-> q, h |-> h, delayed |-> delayed, due |-> due, doomed |-> doomed,
   at |-> 0]

Post(t, q, h) ==
  h \in alive \cap Busy /\ StartPost(t, Posting(q, h, FALSE, 0, None))

\* PostDelayed reads the clock and then DoDelayPost reads fStop_.  fStop_ only
\* rises: a post that gets past the second read would also have got past it at
\* the time of the first.  The push may come any time later.
\* Bound: what is due after Span is not posted.
PostDelayed(t, q, h, delay) ==
  /\ h \in alive \cap Busy /\ now + delay <= Span
  /\ StartPost(t, Posting(q, h, TRUE, now + delay, None))

\* None stands for an object that is not a MessageHandler.
Doomed == {post[m].doomed : m \in DOMAIN post}
            \cup {posting[u].doomed : u \in Posters}

Dispose(t, q, h) ==
  /\ h = None \/ (h \in alive \ Doomed)
  /\ StartPost(t, Posting(q, None, FALSE, 0, h))

Stamped(p) == [p EXCEPT !.at = IF p.delayed THEN now ELSE 0]

\* Mutant: a delayed message does not wake the reader.
Push_DelayedQuietly(t, p) ==
  /\ post' = Append(post, Stamped(p))
  /\ IF p.delayed
     THEN /\ dmsgq' = [dmsgq EXCEPT ![p.q] = @ \cup {Len(post')}]
          /\ UNCHANGED <<msgq, signaled>>
     ELSE /\ msgq' = [msgq EXCEPT ![p.q] = Append(@, Len(post'))] /\ UNCHANGED dmsgq
          /\ signaled' = [signaled EXCEPT ![p.q] = TRUE]
  /\ posting' = [posting EXCEPT ![t] = None]
  /\ Goto(t, "run")

\* Put the message into its queue, at this time, wake the reader and return.
Push(t, p) ==
  /\ post' = Append(post, Stamped(p))
  /\ IF p.delayed
     THEN /\ dmsgq' = [dmsgq EXCEPT ![p.q] = @ \cup {Len(post')}]
          /\ UNCHANGED msgq
     ELSE /\ msgq' = [msgq EXCEPT ![p.q] = Append(@, Len(post'))]
          /\ UNCHANGED dmsgq
  /\ signaled' = [signaled EXCEPT ![p.q] = TRUE]
  /\ posting' = [posting EXCEPT ![t] = None]
  /\ Goto(t, "run")

\* Mutant: every Post adds its queue to the manager's.
Enqueue_AddsAlways(t) ==
  /\ pc[t] = "post" /\ QueueFree(posting[t].q, t)
  /\ Goto(t, "add") /\ UNCHANGED <<msgq, dmsgq, signaled, posting, post>>
  /\ UNCHANGED <<now, fStop, managed, taken, alive, running, arg, todo, clock>>

\* The critical section of Post.  The first message of a queue makes it active,
\* for which Post takes the manager's lock within the queue's own.
Enqueue(t) ==
  /\ pc[t] = "post" /\ QueueFree(posting[t].q, t)
  /\ IF posting[t].q \in ToSet(managed)
     THEN Push(t, posting[t])
     ELSE Goto(t, "add") /\ UNCHANGED <<msgq, dmsgq, signaled, posting, post>>
  /\ UNCHANGED <<now, fStop, managed, taken, alive, running, arg, todo, clock>>

EnsureActive(t) ==
  /\ pc[t] = "add" /\ ManagerFree
  /\ managed' = Append(managed, posting[t].q)
  /\ Push(t, posting[t])
  /\ UNCHANGED <<now, fStop, taken, alive, running, arg, todo, clock>>

-------------------------------------------------------------------------------
\* Mutant: the delayed messages are forgotten.
ClearQueue_MsgqOnly(q, h) ==
  /\ msgq' = [msgq EXCEPT ![q] =
                Keep(@, {m \in DOMAIN post : h # None /\ post[m].h # h})]
  /\ UNCHANGED <<dmsgq, signaled, taken>>

\* Remove the messages of h from queue q; None removes all of them.
ClearQueue(q, h) ==
  LET others == {m \in DOMAIN post : h # None /\ post[m].h # h}
  IN  /\ msgq' = [msgq EXCEPT ![q] = Keep(@, others)]
      /\ dmsgq' = [dmsgq EXCEPT ![q] = @ \cap others]
      /\ UNCHANGED <<signaled, taken>>

\* A handler's messages are removed from one queue.
Clear(t, q, h) ==
  /\ pc[t] = "run" /\ pc[q] \notin {"left", "removed", "gone"}
  /\ h \in alive /\ QueueFree(q, t)
  /\ ClearQueue(q, h)
  /\ UNCHANGED <<now, fStop, managed, posting, post, alive, running, pc, arg,
                 todo, clock>>

\* Another thread is using h: calling it, or posting to it.
InUse(h, t) ==
  \E u \in Threads \ {t} :
    \/ running[u] # None /\ post[running[u]].h = h
    \/ u \in Posters /\ posting[u].h = h

\* MessageHandler::~MessageHandler.  Nobody deletes a handler that another
\* thread is using, or that is to be disposed of.
Destroy(t, h) ==
  /\ pc[t] = "run" /\ h \in alive \ Doomed /\ ~InUse(h, t)
  /\ ManagerFree
  /\ alive' = alive \ {h}
  /\ Goto(t, "clear")
  /\ arg' = [arg EXCEPT ![t] = h]
  /\ todo' = managed
  /\ UNCHANGED <<now, running, queues, fStop, managed, posting, post, clock>>

\* A queue deletes a disposed handler with its own lock held.
DestroyDisposed(t) ==
  /\ pc[t] = "dispose" /\ ManagerFree
  /\ ~InUse(post[arg[t]].doomed, t)
  /\ alive' = alive \ {post[arg[t]].doomed}
  /\ Goto(t, "clear")
  /\ todo' = managed
  /\ UNCHANGED <<now, running, queues, fStop, managed, posting, post, arg,
                 clock>>

ClearNext(t) ==
  /\ pc[t] = "clear" /\ todo # <<>> /\ QueueFree(Head(todo), t)
  /\ ClearQueue(Head(todo), Cleared(t))
  /\ todo' = Tail(todo)
  /\ UNCHANGED <<now, fStop, managed, posting, post, alive, running, pc, arg,
                 clock>>

ClearDone(t) ==
  /\ pc[t] = "clear" /\ todo = <<>>
  /\ Goto(t, IF arg[t] \in Handlers THEN "run"
             ELSE IF t \in ToSet(managed) THEN "scan" ELSE "removed")
  /\ arg' = [arg EXCEPT ![t] = None]
  /\ UNCHANGED <<now, queues, fStop, managed, posting, post, alive, running,
                 todo, clock>>

-------------------------------------------------------------------------------
\* Get.

\* The handler returns and its thread's loop calls Get, which reads the clock.
HandlerReturn(t) ==
  /\ pc[t] = "run"
  /\ Goto(t, "scan")
  /\ running' = [running EXCEPT ![t] = None]
  /\ cur' = [cur EXCEPT ![t] = now]
  /\ UNCHANGED <<now, queues, fStop, managed, posting, post, alive, arg, todo,
                 next, until>>

\* What Get does with the first message: return it, or delete what it disposes
\* of and look at the next one.
Take(t, q, m) ==
  /\ msgq' = [msgq EXCEPT ![t] = Tail(q)]
  /\ taken' = taken \cup {m}
  /\ IF post[m].h # None
     THEN /\ Goto(t, "run")
          /\ running' = [running EXCEPT ![t] = m]
          /\ cur' = [cur EXCEPT ![t] = 0]
          /\ UNCHANGED arg
     ELSE /\ IF post[m].doomed # None
             THEN Goto(t, "dispose") /\ arg' = [arg EXCEPT ![t] = m]
             ELSE UNCHANGED <<pc, arg>>
          /\ UNCHANGED <<running, cur>>
  /\ UNCHANGED next

NothingReady(t, rest) ==
  /\ next' = [next EXCEPT ![t] =
                IF rest = {} THEN Forever
                ELSE TimeDiff(Trigger(Top(rest)), Time(cur[t]))]
  /\ Goto(t, "check")
  /\ UNCHANGED <<msgq, taken, arg, running, cur>>

\* One critical section of Get.
Scan(t) ==
  LET moved == Triggered(dmsgq[t], cur[t])
      q     == msgq[t] \o Ranked(moved, InTime(moved))
  IN  /\ pc[t] = "scan" /\ QueueFree(t, t)
      /\ dmsgq' = [dmsgq EXCEPT ![t] = @ \ moved]
      /\ IF q = <<>> THEN NothingReady(t, dmsgq[t] \ moved)
                     ELSE Take(t, q, Head(q))
      /\ UNCHANGED <<now, signaled, fStop, managed, posting, post, alive, todo,
                     until>>

\* fStop_ is read without the lock.
CheckStop(t) ==
  /\ pc[t] = "check"
  /\ IF fStop[t] THEN Goto(t, "left") /\ UNCHANGED until
     ELSE /\ Goto(t, "wait")
          /\ until' = [until EXCEPT ![t] =
                         IF next[t] = Forever THEN Forever ELSE now + next[t]]
  /\ UNCHANGED <<now, queues, fStop, managed, posting, post, alive, running,
                 arg, todo, cur, next>>

\* Bound: a wait that would end after Span ends at Span.
TimedOut(t) == until[t] # Forever /\ (now >= until[t] \/ now = Span)

WaitReturns(t) ==
  /\ pc[t] = "wait" /\ (signaled[t] \/ TimedOut(t))
  /\ signaled' = [signaled EXCEPT ![t] = FALSE]
  /\ cur' = [cur EXCEPT ![t] = now]
  /\ next' = [next EXCEPT ![t] = 0]
  /\ until' = [until EXCEPT ![t] = Forever]
  /\ Goto(t, "scan")
  /\ UNCHANGED <<now, msgq, dmsgq, taken, fStop, managed, posting, post, alive,
                 running, arg, todo>>

Quit(t, q) ==
  /\ pc[t] = "run" /\ pc[q] \notin {"left", "removed", "gone"} /\ ~fStop[q]
  /\ fStop' = [fStop EXCEPT ![q] = TRUE]
  /\ signaled' = [signaled EXCEPT ![q] = TRUE]
  /\ UNCHANGED <<now, msgq, dmsgq, taken, managed, posting, post, alive,
                 running, pc, arg, todo, clock>>

\* MessageQueue::~MessageQueue, first its Remove, then its Clear.  Nobody is
\* using the queue any more.
RemoveQueue(t) ==
  /\ pc[t] = "left" /\ ManagerFree
  /\ \A u \in Posters : posting[u].q # t
  /\ managed' = Keep(managed, Readers \ {t})
  /\ Goto(t, "removed")
  /\ UNCHANGED <<now, queues, fStop, posting, post, alive, running, arg, todo,
                 clock>>

\* Clear(NULL) deletes what is to be disposed of, too.
ClearAll(t) ==
  LET doomed == {m \in ToSet(msgq[t]) : post[m].doomed # None}
  IN  /\ pc[t] = "removed"
      /\ IF doomed = {}
         THEN /\ ClearQueue(t, None)
              /\ Goto(t, "gone")
              /\ UNCHANGED arg
         ELSE \E m \in doomed :
                /\ msgq' = [msgq EXCEPT ![t] = Keep(@, Msgs \ {m})]
                /\ Goto(t, "dispose")
                /\ arg' = [arg EXCEPT ![t] = m]
                /\ UNCHANGED <<dmsgq, signaled, taken>>
      /\ UNCHANGED <<now, fStop, managed, posting, post, alive, running, todo,
                     clock>>

-------------------------------------------------------------------------------
Next ==
  \/ Tick
  \/ \E t \in Threads :
       \/ Enqueue(t) \/ EnsureActive(t)
       \/ DestroyDisposed(t) \/ ClearNext(t) \/ ClearDone(t)
       \/ \E h \in Handlers : Destroy(t, h)
       \/ \E q \in Readers :
            \/ Quit(t, q)
            \/ \E h \in Handlers :
                 \/ Post(t, q, h) \/ Clear(t, q, h)
                 \/ \E d \in Delays : PostDelayed(t, q, h, d)
            \/ \E h \in Disposables \cup {None} : Dispose(t, q, h)
  \/ \E t \in Readers :
       \/ HandlerReturn(t) \/ Scan(t) \/ CheckStop(t) \/ WaitReturns(t)
       \/ RemoveQueue(t) \/ ClearAll(t)

Spec == Init /\ [][Next]_vars

-------------------------------------------------------------------------------
Postings == [q : Readers, h : Handlers \cup {None}, delayed : BOOLEAN,
             due : 0..Span, doomed : Disposables \cup {None}, at : 0..Span]

TypeOK ==
  /\ now \in 0..Span
  /\ msgq \in [Readers -> Seq(Msgs)]
  /\ dmsgq \in [Readers -> SUBSET Msgs]
  /\ fStop \in [Readers -> BOOLEAN] /\ signaled \in [Readers -> BOOLEAN]
  /\ managed \in Seq(Readers) /\ todo \in Seq(Readers)
  /\ posting \in [Threads -> Postings \cup {None}] /\ post \in Seq(Postings)
  /\ taken \subseteq DOMAIN post /\ alive \subseteq Handlers
  /\ pc \in [Threads -> PCs]
  /\ running \in [Threads -> DOMAIN post \cup {None}]
  /\ arg \in [Threads -> DOMAIN post \cup Handlers \cup {None}]
  /\ cur \in [Readers -> 0..Span]
  /\ next \in [Readers -> Int] /\ until \in [Readers -> Int]

In(q) == ToSet(msgq[q]) \cup dmsgq[q]

\* A thread that waits, with no wake-up on its way, has nothing to deliver, and
\* its wait is not longer than its first delayed message needed when Get last
\* looked at the clock (Get's cmsDelayNext, DoDelayPost's WakeUp).
WakesInTime ==
  \A t \in Readers : pc[t] = "wait" /\ ~signaled[t] =>
    /\ msgq[t] = <<>>
    /\ \A m \in dmsgq[t] : next[t] # Forever /\ cur[t] + next[t] <= post[m].due

\* Once ~MessageHandler has returned no queue that is still read has a message
\* for the handler, on whatever thread it was posted or made its queue active.
NoneForDead ==
  \A h \in Handlers \ alive :
    (\A t \in Threads : ~(pc[t] = "clear" /\ Cleared(t) = h)) =>
       \A q \in Readers : q \in ToSet(managed) \/ ~fStop[q] =>
                           \A m \in In(q) : post[m].h # h

\* The thread that t waits for in the middle of a critical section of its own.
WaitsFor(t) ==
  {u \in Threads \ {t} :
     \/ pc[t] \in {"add", "dispose"} /\ HoldsManager(u)
     \/ pc[t] = "clear" /\ todo # <<>> /\ HoldsQueue(u, Head(todo))}

\* The manager's lock and the queues' are taken in both orders; the only two
\* threads that can wait for each other are one that deletes a disposed handler
\* with its queue locked and one that destroys another handler.
OnlyDisposeDeadlocks ==
  \A t, u \in Threads : u \in WaitsFor(t) /\ t \in WaitsFor(u) =>
    \/ pc[t] = "dispose" \/ pc[u] = "dispose"

Promise == INSTANCE Mailbox WITH
  Queues  <- Readers,
  due     <- [m \in Msgs |-> IF m \in DOMAIN post THEN post[m].due ELSE 0],
  since   <- [m \in Msgs |-> IF m \in DOMAIN post THEN post[m].at ELSE 0],
  delayed <- {m \in DOMAIN post : post[m].delayed},
  pending <- [q \in Readers |-> In(q)]

\* Get delivers what was posted as messagequeue.h promises: once, not early,
\* and in order, except that a delayed message which reaches the queue when a
\* later one is already due may come after it.
DeliversInOrder == Promise!Spec

\* No delayed message is delivered before one that is due earlier and is in the
\* queue (DelayedMessage is sorted by trigger time).
StrictlyByTime ==
  [][\A q \in Readers : \A m \in taken' \cap In(q), n \in In(q) :
       post[m].delayed /\ post[n].delayed => post[m].due <= post[n].due]_vars
===============================================================================
