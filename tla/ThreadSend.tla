------------------------------ MODULE ThreadSend ------------------------------
(***************************************************************************)
(* The cross-thread calls of talk_base: Thread::Send, ReceiveSends, Clear  *)
(* and Stop (base/thread.cc) over MessageQueue's Get, Post and Quit        *)
(* (base/messagequeue.cc), with the wake-up of the socket server that a    *)
(* thread sleeps on (base/physicalsocketserver.cc).                        *)
(*                                                                         *)
(* Each thread has a stack of frames: the Get loop of Thread::Run at the   *)
(* bottom, above it the calls in progress.  A frame is one C++ activation; *)
(* its pc is the next statement that another thread can tell apart.  What  *)
(* a message handler does is left open: it may Send, Post and Clear as     *)
(* often as unused messages allow, and then it returns.                    *)
(***************************************************************************)
EXTENDS Naturals, Sequences, FiniteSets, SequencesExt, Lists

CONSTANTS Threads,    \* threads that run Thread::Run
          Starters,   \* those that run code of their own before it
          Outsiders,  \* operating system threads with no Thread object:
                      \* each Send gives them an AutoThread for its duration
          Stoppable,  \* the threads an outsider owns and may Stop
          MaxMsgs,    \* bound: how many messages are sent or posted
          None

ASSUME ThreadSendAssumption ==
  /\ Threads \cap Outsiders = {}
  /\ Starters \subseteq Threads
  /\ Stoppable \subseteq Threads
  /\ MaxMsgs \in Nat
  /\ None \notin Threads \cup Outsiders \cup (1..MaxMsgs)

Actors == Threads \cup Outsiders
Msgs   == 1..MaxMsgs    \* numbered in the order in which they are made

VARIABLES sendlist,  \* sendlist_ of each thread
          hasSends,  \* has_sends_
          msgq,      \* msgq_
          fStop,     \* fStop_
          signaled,  \* the pending wake-up of the actor's socket server
          ready,     \* the messages whose Send has its local `ready' true
          stack,     \* the calls in progress, innermost last
          fate       \* what became of each message

vars == <<sendlist, hasSends, msgq, fStop, signaled, ready, stack, fate>>

Fates == {"unused", "refused", "sending", "sent", "posted", "running", "done",
          "cleared"}

(***************************************************************************)
(* Frames.  get_*, the loop of Thread::Run; s_*, Thread::Send; rs_*,       *)
(* ReceiveSends; run, a handler; join, Thread::Stop waiting in Join.       *)
(* peer is the other party of the call: the target of a Send, Post or      *)
(* Stop, the sender whose message ReceiveSends is handling.                *)
(***************************************************************************)
PCs == {"get_queue", "get_stop", "get_wait", "exited",
        "s_push", "s_wakeup", "s_check", "s_wait", "s_rewake",
        "rs_test", "rs_ready", "rs_wake",
        "run", "p_push", "join"}

Frame(pc, m, peer, w) == [pc |-> pc, m |-> m, peer |-> peer, waited |-> w]
Handler(m)   == Frame("run", m, None, FALSE)
Receiving    == Frame("rs_test", None, None, FALSE)
LoopAt(pc)   == Frame(pc, None, None, FALSE)
Loop         == <<LoopAt("get_queue"), Receiving>>   \* the head of Get's loop

Top(a)    == Last(stack[a])
At(a, pc) == stack[a] # <<>> /\ Top(a).pc = pc
Goto(a, f)  == stack' = [stack EXCEPT ![a] = Append(Front(@), f)]
Call(a, fs) == stack' = [stack EXCEPT ![a] = Front(@) \o fs]
Return(a)   == stack' = [stack EXCEPT ![a] = Front(@)]

\* crit_ of q is held across two steps only between `*ready = true' and the
\* end of that iteration of ReceiveSends; every other critical section is one
\* step.
Free(q) == ~At(q, "rs_wake")

\* The actor whose code a message handler or an outsider's own code is.
Running(a) == IF a \in Outsiders THEN stack[a] = <<>> ELSE At(a, "run")

InSend(a, m) == \E i \in DOMAIN stack[a] :
                  stack[a][i].pc \in {"s_wakeup", "s_check", "s_wait",
                                      "s_rewake"} /\ stack[a][i].m = m

\* The message that a new Send or Post makes.
Fresh(m) == fate[m] = "unused" /\ \A n \in 1..(m - 1) : fate[n] # "unused"

Init ==
  /\ sendlist = [q \in Threads |-> <<>>]
  /\ hasSends = [q \in Threads |-> FALSE]
  /\ msgq = [q \in Threads |-> <<>>]
  /\ fStop = [q \in Threads |-> FALSE]
  /\ signaled = [a \in Actors |-> FALSE]
  /\ ready = {}
  /\ stack = [a \in Actors |-> IF a \in Threads
                               THEN Loop \o (IF a \in Starters
                                             THEN <<Handler(None)>> ELSE <<>>)
                               ELSE <<>>]
  /\ fate = [m \in Msgs |-> "unused"]

-------------------------------------------------------------------------------
\* smsg.thread->socketserver()->WakeUp() for the sends S.  The Thread of an
\* outsider is gone once its Send returned.
Gone(s) == s.thread \in Outsiders /\ ~InSend(s.thread, s.m)
WakeSenders(S) ==
  signaled' = [a \in Actors |-> signaled[a] \/
                 \E s \in S : s.thread = a /\ ~Gone(s)]

(***************************************************************************)
(* Thread::Send.  A stopped thread refuses, the own thread runs the        *)
(* handler in place, any other gets the message in its send list.          *)
(***************************************************************************)
StartSend(a, q, m) ==
  /\ Running(a)
  /\ Fresh(m)
  /\ IF fStop[q]
     THEN fate' = [fate EXCEPT ![m] = "refused"] /\ UNCHANGED stack
     ELSE IF a = q
     THEN /\ fate' = [fate EXCEPT ![m] = "running"]
          /\ stack' = [stack EXCEPT ![a] = Append(@, Handler(m))]
     ELSE /\ fate' = [fate EXCEPT ![m] = "sending"]
          /\ stack' = [stack EXCEPT ![a] =
                         Append(@, Frame("s_push", m, q, FALSE))]
  /\ UNCHANGED <<sendlist, hasSends, msgq, fStop, signaled, ready>>

SendPush(a) ==
  /\ At(a, "s_push")
  /\ LET m == Top(a).m  q == Top(a).peer IN
       /\ Free(q)
       /\ sendlist' = [sendlist EXCEPT ![q] = Append(@, [m |-> m, thread |-> a])]
       /\ hasSends' = [hasSends EXCEPT ![q] = TRUE]
       /\ fate' = [fate EXCEPT ![m] = "sent"]
  /\ Goto(a, [Top(a) EXCEPT !.pc = "s_wakeup"])
  /\ UNCHANGED <<msgq, fStop, signaled, ready>>

SendWakeUp(a) ==
  /\ At(a, "s_wakeup")
  /\ signaled' = [signaled EXCEPT ![Top(a).peer] = TRUE]
  /\ Goto(a, Frame("s_check", Top(a).m, None, FALSE))
  /\ UNCHANGED <<sendlist, hasSends, msgq, fStop, ready, fate>>

\* Mutant: the loop without ReceiveSends.
SendCheck_NoReceive(a) ==
  /\ At(a, "s_check")
  /\ LET f == Top(a) IN
       IF f.m \notin ready
       THEN Goto(a, [f EXCEPT !.pc = "s_wait"])
       ELSE Goto(a, [f EXCEPT !.pc = "s_rewake"])
  /\ UNCHANGED <<sendlist, hasSends, msgq, fStop, signaled, ready, fate>>

\* while (!ready) { current_thread->ReceiveSends(); Wait(kForever, false); }
\* An AutoThread is known to nobody else, so its ReceiveSends finds nothing,
\* and its socket server goes with it.
SendCheck(a) ==
  /\ At(a, "s_check")
  /\ LET f == Top(a) IN
       IF f.m \notin ready
       THEN /\ Call(a, <<[f EXCEPT !.pc = "s_wait"]>> \o
                       (IF a \in Threads THEN <<Receiving>> ELSE <<>>))
            /\ UNCHANGED <<signaled, ready>>
       ELSE IF f.waited
       THEN Goto(a, [f EXCEPT !.pc = "s_rewake"]) /\ UNCHANGED <<signaled, ready>>
       ELSE /\ Return(a)
            /\ signaled' = [signaled EXCEPT ![a] = @ /\ a \in Threads]
            /\ ready' = ready \ {f.m}
  /\ UNCHANGED <<sendlist, hasSends, msgq, fStop, fate>>

\* Mutant: any wake-up ends the Send.
SendWait_AnyWakeUp(a) ==
  /\ At(a, "s_wait")
  /\ signaled[a]
  /\ signaled' = [signaled EXCEPT ![a] = FALSE]
  /\ Return(a)
  /\ UNCHANGED <<sendlist, hasSends, msgq, fStop, ready, fate>>

SendWait(a) ==
  /\ At(a, "s_wait")
  /\ signaled[a]
  /\ signaled' = [signaled EXCEPT ![a] = FALSE]
  /\ Goto(a, Frame("s_check", Top(a).m, None, TRUE))
  /\ UNCHANGED <<sendlist, hasSends, msgq, fStop, ready, fate>>

\* Mutant: the consumed wake-ups are not given back.
SendRewake_Dropped(a) ==
  /\ At(a, "s_rewake")
  /\ ready' = ready \ {Top(a).m}
  /\ Return(a)
  /\ UNCHANGED <<sendlist, hasSends, msgq, fStop, signaled, fate>>

\* "when we exit this loop, we need to issue another WakeUp"
SendRewake(a) ==
  /\ At(a, "s_rewake")
  /\ signaled' = [signaled EXCEPT ![a] = a \in Threads]
  /\ ready' = ready \ {Top(a).m}
  /\ Return(a)
  /\ UNCHANGED <<sendlist, hasSends, msgq, fStop, fate>>

(***************************************************************************)
(* Thread::ReceiveSends.  The lock is given up while a handler runs.       *)
(***************************************************************************)
\* while (!sendlist_.empty()) ... has_sends_ = false, up to the next handler
TakeNextSend(a) ==
  IF sendlist[a] = <<>>
  THEN /\ hasSends' = [hasSends EXCEPT ![a] = FALSE]
       /\ Return(a)
       /\ UNCHANGED <<sendlist, fate>>
  ELSE LET s == Head(sendlist[a]) IN
       /\ sendlist' = [sendlist EXCEPT ![a] = Tail(@)]
       /\ fate' = [fate EXCEPT ![s.m] = "running"]
       /\ Call(a, <<Frame("rs_ready", s.m, s.thread, FALSE), Handler(s.m)>>)
       /\ UNCHANGED hasSends

\* has_sends_ is read without the lock, but only this thread resets it, so the
\* test and taking the lock are one step.
ReceiveTest(a) ==
  /\ At(a, "rs_test")
  /\ IF hasSends[a] THEN TakeNextSend(a)
     ELSE Return(a) /\ UNCHANGED <<sendlist, hasSends, fate>>
  /\ UNCHANGED <<msgq, fStop, signaled, ready>>

ReceiveReady(a) ==
  /\ At(a, "rs_ready")
  /\ ready' = ready \cup {Top(a).m}
  /\ Goto(a, [Top(a) EXCEPT !.pc = "rs_wake"])
  /\ UNCHANGED <<sendlist, hasSends, msgq, fStop, signaled, fate>>

ReceiveWake(a) ==
  /\ At(a, "rs_wake")
  /\ WakeSenders({[m |-> Top(a).m, thread |-> Top(a).peer]})
  /\ TakeNextSend(a)
  /\ UNCHANGED <<msgq, fStop, ready>>

(***************************************************************************)
(* MessageQueue::Post.  fStop_ is tested before the lock is taken.         *)
(***************************************************************************)
StartPost(a, q, m) ==
  /\ Running(a)
  /\ Fresh(m)
  /\ IF fStop[q]
     THEN fate' = [fate EXCEPT ![m] = "refused"] /\ UNCHANGED stack
     ELSE /\ fate' = [fate EXCEPT ![m] = "sending"]
          /\ stack' = [stack EXCEPT ![a] =
                         Append(@, Frame("p_push", m, q, FALSE))]
  /\ UNCHANGED <<sendlist, hasSends, msgq, fStop, signaled, ready>>

\* Mutant: the wake-up test inverted, none for an empty queue.
PostPush_Quiet(a) ==
  /\ At(a, "p_push")
  /\ LET m == Top(a).m  q == Top(a).peer IN
       /\ Free(q)
       /\ msgq' = [msgq EXCEPT ![q] = Append(@, m)]
       /\ signaled' = [signaled EXCEPT ![q] = @ \/ msgq[q] # <<>>]
       /\ fate' = [fate EXCEPT ![m] = "posted"]
  /\ Return(a)
  /\ UNCHANGED <<sendlist, hasSends, fStop, ready>>

PostPush(a) ==
  /\ At(a, "p_push")
  /\ LET m == Top(a).m  q == Top(a).peer IN
       /\ Free(q)
       /\ msgq' = [msgq EXCEPT ![q] = Append(@, m)]
       /\ signaled' = [signaled EXCEPT ![q] = TRUE]
       /\ fate' = [fate EXCEPT ![m] = "posted"]
  /\ Return(a)
  /\ UNCHANGED <<sendlist, hasSends, fStop, ready>>

(***************************************************************************)
(* MessageQueue::Get in Thread::Run, and Dispatch of what it returns.      *)
(***************************************************************************)
GetQueue(a) ==
  /\ At(a, "get_queue")
  /\ IF msgq[a] = <<>>
     THEN Goto(a, LoopAt("get_stop")) /\ UNCHANGED <<msgq, fate>>
     ELSE LET m == Head(msgq[a]) IN
          /\ msgq' = [msgq EXCEPT ![a] = Tail(@)]
          /\ fate' = [fate EXCEPT ![m] = "running"]
          /\ Call(a, Loop \o <<Handler(m)>>)
  /\ UNCHANGED <<sendlist, hasSends, fStop, signaled, ready>>

GetStop(a) ==
  /\ At(a, "get_stop")
  /\ Goto(a, LoopAt(IF fStop[a] THEN "exited" ELSE "get_wait"))
  /\ UNCHANGED <<sendlist, hasSends, msgq, fStop, signaled, ready, fate>>

GetWait(a) ==
  /\ At(a, "get_wait")
  /\ signaled[a]
  /\ signaled' = [signaled EXCEPT ![a] = FALSE]
  /\ Call(a, Loop)
  /\ UNCHANGED <<sendlist, hasSends, msgq, fStop, ready, fate>>

\* The end of phandler->OnMessage, or of the code before Run.
HandlerReturn(a) ==
  /\ At(a, "run")
  /\ fate' = [m \in Msgs |-> IF m = Top(a).m THEN "done" ELSE fate[m]]
  /\ Return(a)
  /\ UNCHANGED <<sendlist, hasSends, msgq, fStop, signaled, ready>>

(***************************************************************************)
(* Thread::Clear: the matching messages leave the queues of q, and the     *)
(* senders among theirs are released.                                      *)
(***************************************************************************)
RemoveFrom(q, S) ==
  LET sends == {s \in ToSet(sendlist[q]) : s.m \in S}
      gone  == {s.m : s \in sends} \cup (ToSet(msgq[q]) \cap S)
  IN /\ sendlist' = [sendlist EXCEPT ![q] =
                       Keep(@, [m : Msgs \ S, thread : Actors])]
     /\ msgq' = [msgq EXCEPT ![q] = Keep(@, Msgs \ S)]
     /\ ready' = ready \cup {s.m : s \in sends}
     /\ fate' = [m \in Msgs |-> IF m \in gone THEN "cleared" ELSE fate[m]]
     /\ WakeSenders(sends)

Clear(a, q, S) ==
  /\ Running(a)
  /\ Free(q)
  /\ RemoveFrom(q, S)
  /\ UNCHANGED <<hasSends, fStop, stack>>

(***************************************************************************)
(* Thread::~Thread by the owner: Quit and Join, then Clear(NULL).          *)
(***************************************************************************)
Stop(o, q) ==
  /\ stack[o] = <<>>
  /\ ~fStop[q]
  /\ fStop' = [fStop EXCEPT ![q] = TRUE]
  /\ signaled' = [signaled EXCEPT ![q] = TRUE]
  /\ stack' = [stack EXCEPT ![o] = <<Frame("join", None, q, FALSE)>>]
  /\ UNCHANGED <<sendlist, hasSends, msgq, ready, fate>>

Joined(o) ==
  /\ At(o, "join")
  /\ At(Top(o).peer, "exited")
  /\ RemoveFrom(Top(o).peer, Msgs)
  /\ Return(o)
  /\ UNCHANGED <<hasSends, fStop>>

-------------------------------------------------------------------------------
\* The steps an actor takes by itself once it is in the library's code.
Advance(a) ==
  \/ SendPush(a) \/ SendWakeUp(a) \/ SendCheck(a) \/ SendWait(a)
  \/ SendRewake(a)
  \/ PostPush(a)
  \/ /\ a \in Threads
     /\ \/ ReceiveTest(a) \/ ReceiveReady(a) \/ ReceiveWake(a)
        \/ GetQueue(a) \/ GetStop(a) \/ GetWait(a) \/ HandlerReturn(a)
  \/ a \in Outsiders /\ Joined(a)

Next ==
  \/ \E a \in Actors : Advance(a)
  \/ \E a \in Actors, q \in Threads, m \in Msgs :
       StartSend(a, q, m) \/ StartPost(a, q, m)
  \/ \E a \in Actors, q \in Threads, S \in (SUBSET Msgs) \ {{}} :
       Clear(a, q, S)
  \/ \E o \in Outsiders, q \in Stoppable : Stop(o, q)

Spec == Init /\ [][Next]_vars

\* The operating system runs every thread, and handlers return.
Fairness == \A a \in Actors : WF_vars(Advance(a))
FairSpec == Spec /\ Fairness

-------------------------------------------------------------------------------
\* The types of the variables: each entry of a send list names the thread to wake.
TypeOK ==
  /\ sendlist \in [Threads -> Seq([m : Msgs, thread : Actors])]
  /\ hasSends \in [Threads -> BOOLEAN]
  /\ msgq \in [Threads -> Seq(Msgs)]
  /\ fStop \in [Threads -> BOOLEAN]
  /\ signaled \in [Actors -> BOOLEAN]
  /\ ready \in SUBSET Msgs
  /\ stack \in [Actors -> Seq([pc : PCs, m : Msgs \cup {None},
                               peer : Actors \cup {None}, waited : BOOLEAN])]
  /\ fate \in [Msgs -> Fates]

\* A wake-up of actor a is pending, or about to be given.
WakeComing(a) ==
  \/ signaled[a]
  \/ \E b \in Actors : At(b, "s_wakeup") /\ Top(b).peer = a
  \/ \E b \in Actors : At(b, "rs_wake") /\ Top(b).peer = a

\* No actor sleeps on something that has already happened: a sender whose
\* message is finished, a thread with a send to receive, a loop with a message
\* to dispatch or asked to stop always has a wake-up on its way
\* (Thread::Send's Wait loop and its final WakeUp; MessageQueue::Get).
NoLostWakeup ==
  \A a \in Actors :
    /\ At(a, "s_wait") /\ (Top(a).m \in ready \/
                           (a \in Threads /\ sendlist[a] # <<>>))
         => WakeComing(a)
    /\ At(a, "get_wait") /\ (sendlist[a] # <<>> \/ msgq[a] # <<>> \/ fStop[a])
         => WakeComing(a)

\* A handler that runs on behalf of a Send runs while its sender is still
\* inside that Send, which is what lets callers pass the address of a local
\* variable as the message's data (Thread::ReceiveSends).
SenderBlockedWhileHandled ==
  \A q \in Threads : \A i \in DOMAIN stack[q] :
    stack[q][i].pc = "rs_ready" => InSend(stack[q][i].peer, stack[q][i].m)

\* Send returns only when its message has been handled or cleared.
SendIsSynchronous ==
  [][\A a \in Actors, m \in Msgs :
       InSend(a, m) /\ ~InSend(a, m)' => fate[m] \in {"done", "cleared"}]_vars

\* Every Send returns, also when threads send to each other in a cycle or from
\* inside the handlers of each other's sends: the Wait loop keeps receiving.
Sending(m)  == \E a \in Actors : InSend(a, m)
SendsReturn == \A m \in Msgs : Sending(m) ~> ~Sending(m)

\* A posted message is dispatched or cleared, although the wake-up it gave may
\* have been used up by a Send waiting in the same thread.
PostsDelivered == \A m \in Msgs : fate[m] = "posted" ~> fate[m] \in {"done", "cleared"}

\* messagequeue.h:180-185: a stopped queue refuses further Posts and Sends, and
\* delivers the pending ones before Get returns false.
QuitDeliversPending ==
  \A q \in Threads : At(q, "exited") => sendlist[q] = <<>> /\ msgq[q] = <<>>

\* thread.cc:421-422: "thread sending exits: We don't allow this": the Thread that
\* ReceiveSends is about to wake still exists.
SenderThreadExists ==
  \A q \in Threads : At(q, "rs_wake") =>
    ~Gone([m |-> Top(q).m, thread |-> Top(q).peer])
===============================================================================
