-------------------------- MODULE ThreadSendProofs --------------------------
(***************************************************************************)
(* Thread::Send is synchronous and loses no wake-up, for any number of     *)
(* threads, outsiders and messages.  The invariant follows a message from  *)
(* the frame that makes it to a list and to the frame that handles it, and *)
(* says who still owes a sleeping actor a wake-up: a frame further up its  *)
(* stack that has consumed one, or has still to look at the send list.     *)
(***************************************************************************)
EXTENDS ThreadSend, ListsProofs

Frames   == [pc : PCs, m : Msgs \cup {None}, peer : Actors \cup {None}, waited : BOOLEAN]
Entries  == [m : Msgs, thread : Actors]
Makers   == {"s_push", "s_wakeup", "s_check", "s_wait", "s_rewake", "p_push"}
Loops    == {"get_queue", "get_stop", "get_wait", "exited"}
Receives == {"rs_test", "rs_ready", "rs_wake"}

FrameOK(f) ==
  /\ f.pc \in Makers => f.m \in Msgs
  /\ f.pc \in {"s_push", "s_wakeup", "p_push", "join"} => f.peer \in Threads
  /\ f.pc \in {"rs_ready", "rs_wake"} => f.m \in Msgs /\ f.peer \in Actors
  /\ f.waited => f.pc \in {"s_check", "s_wait", "s_rewake"}

\* The loop of Thread::Run is at the bottom of a thread's stack; an outsider only
\* makes one call at a time.
Shape ==
  /\ \A a \in Actors : \A i \in 1..Len(stack[a]) : FrameOK(stack[a][i])
  /\ \A a \in Outsiders :
       /\ Len(stack[a]) <= 1
       /\ \A i \in 1..Len(stack[a]) : stack[a][i].pc \in Makers \cup {"join"}
  /\ \A a \in Threads :
       /\ Len(stack[a]) >= 1
       /\ stack[a][1].pc \in Loops
       /\ Len(stack[a]) > 1 => stack[a][1].pc = "get_queue"
       /\ Len(stack[a]) > 1 => stack[a][2].pc \in Receives
       /\ \A i \in 2..Len(stack[a]) : stack[a][i].pc \notin Loops \cup {"join"}

\* One frame sends or posts a message, and it stays until `ready' when it sends.
OneMaker ==
  /\ \A a, b \in Actors : \A i \in 1..Len(stack[a]), j \in 1..Len(stack[b]) :
       /\ stack[a][i].pc \in Makers /\ stack[b][j].pc \in Makers
       /\ stack[a][i].m = stack[b][j].m
       => a = b /\ i = j
  /\ \A a \in Actors : \A i \in 1..Len(stack[a]) :
       /\ stack[a][i].pc \in Makers => fate[stack[a][i].m] # "unused"
       /\ stack[a][i].pc \in {"s_push", "p_push"} => fate[stack[a][i].m] = "sending"
       /\ stack[a][i].pc = "s_rewake" => stack[a][i].m \in ready

\* A message is in one list at most, and its fate says in which.
EntryOK(q, i) ==
  /\ fate[sendlist[q][i].m] = "sent"
  /\ InSend(sendlist[q][i].thread, sendlist[q][i].m)

SentOnce ==
  /\ \A q \in Threads : \A i \in 1..Len(sendlist[q]) : EntryOK(q, i)
  /\ \A q, r \in Threads : \A i \in 1..Len(sendlist[q]), j \in 1..Len(sendlist[r]) :
       sendlist[q][i].m = sendlist[r][j].m => q = r /\ i = j

PostedOnce ==
  /\ \A q \in Threads : \A i \in 1..Len(msgq[q]) : fate[msgq[q][i]] = "posted"
  /\ \A q, r \in Threads : \A i \in 1..Len(msgq[q]), j \in 1..Len(msgq[r]) :
       msgq[q][i] = msgq[r][j] => q = r /\ i = j

Listed == SentOnce /\ PostedOnce

\* ReceiveSends: between the handler's call and *ready = true, the sender still waits.
HandlingOK(a, i) ==
  LET f == stack[a][i] IN
  /\ fate[f.m] \in {"running", "done"} /\ f.m \notin ready
  /\ InSend(f.peer, f.m)
  /\ i = Len(stack[a]) => fate[f.m] = "done"
  /\ i < Len(stack[a]) => stack[a][i + 1].pc = "run" /\ stack[a][i + 1].m = f.m

Handled ==
  /\ \A m \in ready : fate[m] \in {"done", "cleared"}
  /\ \A a \in Actors : \A i \in 1..Len(stack[a]) :
       stack[a][i].pc = "rs_ready" => HandlingOK(a, i)
  /\ \A a, b \in Actors : \A i \in 1..Len(stack[a]), j \in 1..Len(stack[b]) :
       /\ stack[a][i].pc = "rs_ready" /\ stack[b][j].pc = "rs_ready"
       /\ stack[a][i].m = stack[b][j].m
       => a = b /\ i = j

\* One handler runs for a message.
Runs ==
  /\ \A a \in Actors : \A i \in 1..Len(stack[a]) :
       stack[a][i].pc = "run" /\ stack[a][i].m \in Msgs => fate[stack[a][i].m] = "running"
  /\ \A a, b \in Actors : \A i \in 1..Len(stack[a]), j \in 1..Len(stack[b]) :
       /\ stack[a][i].pc = "run" /\ stack[b][j].pc = "run"
       /\ stack[a][i].m = stack[b][j].m /\ stack[a][i].m \in Msgs
       => a = b /\ i = j

\* A wake-up of a that will be given: that of a finished sender may be withheld.
Woken(a) ==
  \/ signaled[a]
  \/ \E b \in Actors : At(b, "s_wakeup") /\ Top(b).peer = a
  \/ \E b \in Actors : /\ At(b, "rs_wake") /\ Top(b).peer = a
                       /\ ~Gone([m |-> Top(b).m, thread |-> a])

\* Above frame i, one that gives a wake-up back, or that looks at the send list.
Owed(a, i)  == \E j \in (i + 1)..Len(stack[a]) : stack[a][j].waited
Looks(a, i) == \E j \in (i + 1)..Len(stack[a]) : stack[a][j].pc \in Receives


\* has_sends_ is never false while the send list has a member.
Known == \A q \in Threads : sendlist[q] # <<>> => hasSends[q]

\* What a frame in Thread::Send's Wait, innermost or not, may count on.
WaitOK(a, i) ==
  stack[a][i].pc = "s_wait" =>
    /\ stack[a][i].m \in ready => Woken(a) \/ Owed(a, i)
    /\ a \in Threads /\ sendlist[a] # <<>> => Woken(a) \/ Owed(a, i) \/ Looks(a, i)

Waits == \A a \in Actors : \A i \in 1..Len(stack[a]) : WaitOK(a, i)

\* What a thread in Get's loop, on its way to the Wait, may count on.
SleepOK(a) ==
  Len(stack[a]) = 1 =>
    /\ stack[a][1].pc # "exited" /\ sendlist[a] # <<>> => Woken(a)
    /\ stack[a][1].pc \in {"get_stop", "get_wait"} /\ msgq[a] # <<>> => Woken(a)
    /\ stack[a][1].pc = "get_wait" /\ fStop[a] => Woken(a)

Sleeps == \A a \in Threads : SleepOK(a)

SendInv ==
  /\ TypeOK /\ Shape /\ OneMaker /\ Listed
  /\ Handled /\ Runs /\ Known /\ Waits /\ Sleeps

-------------------------------------------------------------------------------
(***************************************************************************)
(* What a step does to the stacks: actor a keeps k frames and has n after  *)
(* it; nobody else's stack changes.                                        *)
(***************************************************************************)
Becomes(a, k, n) ==
  /\ stack' \in [Actors -> Seq(Frames)]
  /\ k \in Nat /\ n \in Nat /\ k <= Len(stack[a]) /\ k <= n /\ Len(stack'[a]) = n
  /\ \A i \in 1..k : stack'[a][i] = stack[a][i]
  /\ \A b \in Actors \ {a} : stack'[b] = stack[b]

\* The frames of the calls in progress, for one stack.
LEMMA FrontProps ==
  ASSUME NEW E, NEW s \in Seq(E), s # <<>>
  PROVE  /\ Len(s) \in Nat \ {0} /\ Front(s) \in Seq(E) /\ Len(Front(s)) = Len(s) - 1
         /\ \A i \in 1..(Len(s) - 1) : Front(s)[i] = s[i]
         /\ Last(s) = s[Len(s)] /\ Last(s) \in E
<1>1. Len(s) \in Nat \ {0} /\ \A i \in 1..Len(s) : s[i] \in E
  BY LenProperties, ElementOfSeq, EmptySeq
<1>2. /\ Front(s) \in Seq(E) /\ Len(Front(s)) = Len(s) - 1
      /\ \A i \in 1..(Len(s) - 1) : Front(s)[i] = s[i]
  <2>1. PICK n \in Nat : n = Len(s) - 1
    BY <1>1
  <2>2. n \in Int /\ 1 \in Int /\ \A i \in 1..n : s[i] \in E
    BY <1>1, <2>1
  <2>3. /\ Front(s) \in Seq(E) /\ Len(Front(s)) = IF 1 <= n THEN n - 1 + 1 ELSE 0
        /\ \A i \in 1..(n - 1 + 1) : Front(s)[i] = s[1 + i - 1]
    BY <2>1, <2>2, SubSeqProperties DEF Front
  <2>4. n - 1 + 1 = n /\ (IF 1 <= n THEN n - 1 + 1 ELSE 0) = n
    OBVIOUS
  <2>5. ASSUME NEW i \in 1..n PROVE Front(s)[i] = s[i]
    <3>1. 1 + i - 1 = i
      OBVIOUS
    <3> QED
      BY <2>3, <2>4, <3>1
  <2> QED
    BY <2>1, <2>3, <2>4, <2>5
<1> QED
  BY <1>1, <1>2 DEF Last

LEMMA GotoBecomes ==
  ASSUME stack \in [Actors -> Seq(Frames)], NEW a \in Actors, stack[a] # <<>>,
         NEW f \in Frames, Goto(a, f)
  PROVE  /\ Len(stack[a]) \in Nat \ {0}
         /\ Becomes(a, Len(stack[a]) - 1, Len(stack[a])) /\ stack'[a][Len(stack[a])] = f
<1> DEFINE s == stack[a]
           t == Append(Front(s), f)
<1>1. s \in Seq(Frames) /\ stack' = [stack EXCEPT ![a] = t]
  BY DEF Goto
<1> HIDE DEF s
<1>2. /\ Len(s) \in Nat \ {0} /\ Front(s) \in Seq(Frames) /\ Len(Front(s)) = Len(s) - 1
      /\ \A i \in 1..(Len(s) - 1) : Front(s)[i] = s[i]
  BY <1>1, FrontProps DEF s
<1>3. /\ t \in Seq(Frames) /\ Len(t) = Len(s) /\ t[Len(s)] = f
      /\ \A i \in 1..(Len(s) - 1) : t[i] = s[i]
  BY <1>2, AppendProperties
<1> HIDE DEF t
<1>4. /\ stack' \in [Actors -> Seq(Frames)] /\ stack'[a] = t
      /\ \A b \in Actors \ {a} : stack'[b] = stack[b]
  BY <1>1, <1>3
<1> QED
  BY <1>2, <1>3, <1>4 DEF Becomes, s

LEMMA ReturnBecomes ==
  ASSUME stack \in [Actors -> Seq(Frames)], NEW a \in Actors, stack[a] # <<>>, Return(a)
  PROVE  /\ Len(stack[a]) \in Nat \ {0}
         /\ Becomes(a, Len(stack[a]) - 1, Len(stack[a]) - 1)
<1> DEFINE s == stack[a]
           t == Front(s)
<1>1. s \in Seq(Frames) /\ stack' = [stack EXCEPT ![a] = t]
  BY DEF Return
<1>2. /\ Len(s) \in Nat \ {0} /\ t \in Seq(Frames) /\ Len(t) = Len(s) - 1
      /\ \A i \in 1..(Len(s) - 1) : t[i] = s[i]
  BY <1>1, FrontProps
<1> HIDE DEF t
<1>3. /\ stack' \in [Actors -> Seq(Frames)] /\ stack'[a] = t
      /\ \A b \in Actors \ {a} : stack'[b] = stack[b]
  BY <1>1, <1>2
<1> QED
  BY <1>2, <1>3 DEF Becomes

LEMMA PushBecomes ==
  ASSUME stack \in [Actors -> Seq(Frames)], NEW a \in Actors, NEW f \in Frames,
         stack' = [stack EXCEPT ![a] = Append(@, f)]
  PROVE  /\ Len(stack[a]) \in Nat
         /\ Becomes(a, Len(stack[a]), Len(stack[a]) + 1)
         /\ stack'[a][Len(stack[a]) + 1] = f
<1> DEFINE s == stack[a]
           t == Append(s, f)
<1>1. s \in Seq(Frames) /\ stack' = [stack EXCEPT ![a] = t]
  OBVIOUS
<1>2. /\ Len(s) \in Nat /\ t \in Seq(Frames) /\ Len(t) = Len(s) + 1 /\ t[Len(s) + 1] = f
      /\ \A i \in 1..Len(s) : t[i] = s[i]
  BY <1>1, AppendProperties, LenProperties
<1> HIDE DEF t
<1>3. /\ stack' \in [Actors -> Seq(Frames)] /\ stack'[a] = t
      /\ \A b \in Actors \ {a} : stack'[b] = stack[b]
  BY <1>1, <1>2
<1> QED
  BY <1>2, <1>3 DEF Becomes

\* Call replaces the innermost frame by several.
LEMMA CallBecomes ==
  ASSUME stack \in [Actors -> Seq(Frames)], NEW a \in Actors, stack[a] # <<>>,
         NEW fs \in Seq(Frames), Call(a, fs)
  PROVE  /\ Len(stack[a]) \in Nat \ {0} /\ Len(fs) \in Nat
         /\ Becomes(a, Len(stack[a]) - 1, Len(stack[a]) - 1 + Len(fs))
         /\ \A i \in 1..Len(fs) : stack'[a][Len(stack[a]) - 1 + i] = fs[i]
<1> DEFINE s == stack[a]
           h == Front(s)
           t == h \o fs
<1>1. s \in Seq(Frames) /\ stack' = [stack EXCEPT ![a] = t]
  BY DEF Call
<1>2. /\ Len(s) \in Nat \ {0} /\ h \in Seq(Frames) /\ Len(h) = Len(s) - 1
      /\ \A i \in 1..(Len(s) - 1) : h[i] = s[i]
  BY <1>1, FrontProps
<1> HIDE DEF h
<1>3. /\ Len(fs) \in Nat /\ t \in Seq(Frames) /\ Len(t) = Len(s) - 1 + Len(fs)
      /\ \A i \in 1..Len(s) - 1 + Len(fs) :
           t[i] = IF i <= Len(s) - 1 THEN h[i] ELSE fs[i - (Len(s) - 1)]
  <2>1. /\ t \in Seq(Frames) /\ Len(t) = Len(h) + Len(fs) /\ Len(fs) \in Nat
        /\ \A i \in 1..Len(h) + Len(fs) :
             t[i] = IF i <= Len(h) THEN h[i] ELSE fs[i - Len(h)]
    BY <1>2, ConcatProperties, LenProperties
  <2> QED
    BY <1>2, <2>1
<1>4. /\ \A i \in 1..(Len(s) - 1) : t[i] = s[i]
      /\ \A i \in 1..Len(fs) : t[Len(s) - 1 + i] = fs[i]
  BY <1>2, <1>3
<1> HIDE DEF t
<1>5. /\ stack' \in [Actors -> Seq(Frames)] /\ stack'[a] = t
      /\ \A b \in Actors \ {a} : stack'[b] = stack[b]
  BY <1>1, <1>3
<1> QED
  BY <1>2, <1>3, <1>4, <1>5 DEF Becomes

-------------------------------------------------------------------------------
\* One of several lists gets longer, shorter, or loses members in between.
LEMMA AppendTo ==
  ASSUME NEW T, NEW E, NEW s \in [T -> Seq(E)], NEW q \in T, NEW x \in E,
         NEW t, t = [s EXCEPT ![q] = Append(@, x)]
  PROVE  /\ t \in [T -> Seq(E)] /\ t[q] # <<>> /\ \A r \in T \ {q} : t[r] = s[r]
         /\ Len(s[q]) \in Nat /\ Len(t[q]) = Len(s[q]) + 1 /\ t[q][Len(s[q]) + 1] = x
         /\ \A i \in 1..Len(s[q]) : t[q][i] = s[q][i]
<1> DEFINE u == Append(s[q], x)
<1>1. /\ u \in Seq(E) /\ u # <<>> /\ Len(s[q]) \in Nat /\ Len(u) = Len(s[q]) + 1
      /\ u[Len(s[q]) + 1] = x /\ \A i \in 1..Len(s[q]) : u[i] = s[q][i]
  <2>1. s[q] \in Seq(E)
    OBVIOUS
  <2> QED
    BY <2>1, AppendProperties, LenProperties
<1>2. t = [s EXCEPT ![q] = u]
  OBVIOUS
<1> HIDE DEF u
<1>3. t \in [T -> Seq(E)] /\ t[q] = u /\ \A r \in T \ {q} : t[r] = s[r]
  BY <1>1, <1>2
<1> QED
  BY <1>1, <1>3

LEMMA TailOf ==
  ASSUME NEW T, NEW E, NEW s \in [T -> Seq(E)], NEW q \in T, s[q] # <<>>,
         NEW t, t = [s EXCEPT ![q] = Tail(@)]
  PROVE  /\ t \in [T -> Seq(E)] /\ \A r \in T \ {q} : t[r] = s[r]
         /\ Len(s[q]) \in Nat \ {0} /\ Len(t[q]) = Len(s[q]) - 1
         /\ Head(s[q]) = s[q][1] /\ Head(s[q]) \in E
         /\ \A i \in 1..(Len(s[q]) - 1) : t[q][i] = s[q][i + 1]
<1> DEFINE u == Tail(s[q])
<1>1. s[q] \in Seq(E)
  OBVIOUS
<1>2. /\ u \in Seq(E) /\ Len(s[q]) \in Nat \ {0} /\ Len(u) = Len(s[q]) - 1
      /\ Head(s[q]) = s[q][1] /\ Head(s[q]) \in E
      /\ \A i \in 1..(Len(s[q]) - 1) : u[i] = s[q][i + 1]
  <2>1. Head(s[q]) \in E /\ u \in Seq(E) /\ Len(s[q]) \in Nat
    BY <1>1, HeadTailProperties, LenProperties
  <2>2. Head(s[q]) = s[q][1] /\ Len(s[q]) # 0
    BY <1>1, EmptySeq
  <2> QED
    BY <1>1, <2>1, <2>2, HeadTailProperties
<1>3. t = [s EXCEPT ![q] = u]
  OBVIOUS
<1> HIDE DEF u
<1>4. t \in [T -> Seq(E)] /\ t[q] = u /\ \A r \in T \ {q} : t[r] = s[r]
  BY <1>2, <1>3
<1> QED
  BY <1>2, <1>4

\* The members of t are members of s, in their order.
Within(t, s) ==
  /\ Len(t) \in Nat /\ Len(s) \in Nat
  /\ \A i \in 1..Len(t) : \E p \in 1..Len(s) : t[i] = s[p]
  /\ \A i, j \in 1..Len(t) : i < j =>
       \E p, r \in 1..Len(s) : p < r /\ t[i] = s[p] /\ t[j] = s[r]

LEMMA WithinSame ==
  ASSUME NEW E, NEW s \in Seq(E)
  PROVE  Within(s, s)
BY LenProperties DEF Within

LEMMA WithinTail ==
  ASSUME NEW T, NEW E, NEW s \in [T -> Seq(E)], NEW q \in T, s[q] # <<>>,
         NEW t, t = [s EXCEPT ![q] = Tail(@)]
  PROVE  \A r \in T : Within(t[r], s[r])
<1>1. /\ \A r \in T \ {q} : t[r] = s[r]
      /\ Len(s[q]) \in Nat \ {0} /\ Len(t[q]) = Len(s[q]) - 1
      /\ \A i \in 1..(Len(s[q]) - 1) : t[q][i] = s[q][i + 1]
  BY TailOf
<1>2. ASSUME NEW r \in T \ {q} PROVE Within(t[r], s[r])
  BY <1>1, WithinSame
<1>3. Within(t[q], s[q])
  <2> PICK k \in Nat \ {0} : k = Len(s[q])
    BY <1>1
  <2>1. ASSUME NEW i \in 1..(k - 1)
        PROVE  i + 1 \in 1..k /\ t[q][i] = s[q][i + 1]
    BY <1>1
  <2> QED
    BY <1>1, <2>1 DEF Within
<1> QED
  BY <1>2, <1>3

LEMMA WithinKeep ==
  ASSUME NEW E, NEW w \in Seq(E), NEW K
  PROVE  /\ Keep(w, K) \in Seq(E) /\ Within(Keep(w, K), w)
         /\ \A i \in 1..Len(Keep(w, K)) : Keep(w, K)[i] \in K
<1> DEFINE u == Keep(w, K)
<1>1. /\ u \in Seq(E)
      /\ \A i \in 1..Len(u) : u[i] \in K /\ \E p \in 1..Len(w) : w[p] = u[i]
      /\ \A i, j \in 1..Len(u) : i < j =>
           \E p, r \in 1..Len(w) : p < r /\ w[p] = u[i] /\ w[r] = u[j]
  <2>1. u \in Seq(E)
    BY KeepType
  <2>2. \A i \in 1..Len(u) : u[i] \in K /\ \E p \in 1..Len(w) : w[p] = u[i]
    BY KeepMembers
  <2>3. \A i, j \in 1..Len(u) : i < j =>
           \E p, r \in 1..Len(w) : p < r /\ w[p] = u[i] /\ w[r] = u[j]
    BY KeepOrder
  <2> QED
    BY <2>1, <2>2, <2>3
<1>2. u \in Seq(E)
  BY <1>1
<1> HIDE DEF u
<1>3. Len(u) \in Nat /\ Len(w) \in Nat
  BY <1>2, LenProperties
<1>4. Within(u, w)
  BY <1>1, <1>3 DEF Within
<1> QED
  BY <1>1, <1>4 DEF u

\* The types, and the innermost frame of an actor at pc.
LEMMA Typed ==
  ASSUME TypeOK
  PROVE  /\ sendlist \in [Threads -> Seq(Entries)]
         /\ hasSends \in [Threads -> BOOLEAN] /\ msgq \in [Threads -> Seq(Msgs)]
         /\ fStop \in [Threads -> BOOLEAN] /\ signaled \in [Actors -> BOOLEAN]
         /\ ready \in SUBSET Msgs /\ stack \in [Actors -> Seq(Frames)]
         /\ fate \in [Msgs -> Fates]
BY DEF TypeOK, Frames, Entries

LEMMA TopFrame ==
  ASSUME TypeOK, NEW a \in Actors, NEW pc, At(a, pc)
  PROVE  /\ stack[a] # <<>> /\ Len(stack[a]) \in Nat \ {0}
         /\ Top(a) = stack[a][Len(stack[a])] /\ Top(a) \in Frames
         /\ stack[a][Len(stack[a])].pc = pc
<1>1. stack[a] \in Seq(Frames) /\ stack[a] # <<>>
  BY Typed DEF At
<1> QED
  BY <1>1, FrontProps DEF At, Top

LEMMA FrameMoves ==
  ASSUME NEW f \in Frames, NEW pc \in PCs
  PROVE  \E g \in Frames : /\ g = [f EXCEPT !.pc = pc] /\ g.pc = pc /\ g.m = f.m
                           /\ g.peer = f.peer /\ g.waited = f.waited
<1> DEFINE g == [f EXCEPT !.pc = pc]
<1>1. g \in Frames /\ g.pc = pc /\ g.m = f.m /\ g.peer = f.peer /\ g.waited = f.waited
  BY DEF Frames
<1> QED
  BY <1>1

LEMMA FrameMade ==
  ASSUME NEW pc \in PCs, NEW m \in Msgs \cup {None}, NEW peer \in Actors \cup {None},
         NEW w \in BOOLEAN
  PROVE  \E g \in Frames : /\ g = Frame(pc, m, peer, w) /\ g.pc = pc /\ g.m = m
                           /\ g.peer = peer /\ g.waited = w
<1> DEFINE g == Frame(pc, m, peer, w)
<1>1. g \in Frames /\ g.pc = pc /\ g.m = m /\ g.peer = peer /\ g.waited = w
  BY DEF Frames, Frame
<1> QED
  BY <1>1

\* A thread in a call has Get's loop below it; an outsider has nothing.
LEMMA Below ==
  ASSUME TypeOK, Shape, NEW a \in Actors, NEW pc, At(a, pc), pc \notin Loops
  PROVE  /\ a \in Threads =>
              Len(stack[a]) >= 2 /\ stack[a][1].pc = "get_queue" /\ pc # "join"
         /\ a \in Outsiders => Len(stack[a]) = 1 /\ pc \in Makers \cup {"join"}
<1> DEFINE n == Len(stack[a])
<1>1. n \in Nat \ {0} /\ stack[a][n].pc = pc
  BY TopFrame
<1> HIDE DEF n
<1>2. CASE a \in Threads
  <2>1. /\ stack[a][1].pc \in Loops /\ (n > 1 => stack[a][1].pc = "get_queue")
        /\ \A i \in 2..n : stack[a][i].pc \notin Loops \cup {"join"}
    BY <1>2 DEF Shape, n
  <2>2. n # 1
    BY <1>1, <2>1
  <2>3. n \in 2..n /\ n > 1
    BY <1>1, <2>2
  <2> QED
    BY <1>1, <2>1, <2>3, <1>2, ThreadSendAssumption DEF n
<1>3. CASE a \in Outsiders
  <2>1. n <= 1 /\ \A i \in 1..n : stack[a][i].pc \in Makers \cup {"join"}
    BY <1>3 DEF Shape, n
  <2>2. n = 1
    BY <1>1, <2>1
  <2> QED
    BY <1>1, <2>1, <2>2, <1>3, ThreadSendAssumption DEF n
<1> QED
  BY <1>2, <1>3 DEF Actors

\* A step inside a call keeps the shape.
LEMMA ShapeKept ==
  ASSUME TypeOK, Shape, NEW a \in Actors, NEW pc, At(a, pc), pc \notin Loops,
         NEW n, Becomes(a, Len(stack[a]) - 1, n),
         \A i \in Len(stack[a])..n :
           /\ FrameOK(stack'[a][i]) /\ stack'[a][i].pc \notin Loops \cup {"join"}
           /\ a \in Outsiders => stack'[a][i].pc \in Makers,
         pc \in Receives /\ Len(stack[a]) <= n => stack'[a][Len(stack[a])].pc \in Receives,
         a \in Outsiders => n <= 1
  PROVE  Shape'
<1> DEFINE k == Len(stack[a]) - 1
<1>1. /\ k \in Nat /\ n \in Nat /\ k <= n /\ Len(stack[a]) = k + 1 /\ Len(stack'[a]) = n
      /\ \A i \in 1..k : stack'[a][i] = stack[a][i]
      /\ \A b \in Actors \ {a} : stack'[b] = stack[b]
  BY TopFrame DEF Becomes
<1> HIDE DEF k
<1>2. \A i \in (k + 1)..n :
        /\ FrameOK(stack'[a][i]) /\ stack'[a][i].pc \notin Loops \cup {"join"}
        /\ a \in Outsiders => stack'[a][i].pc \in Makers
  BY <1>1
<1>3. /\ \A b \in Actors : \A i \in 1..Len(stack[b]) : FrameOK(stack[b][i])
      /\ \A b \in Outsiders :
           /\ Len(stack[b]) <= 1
           /\ \A i \in 1..Len(stack[b]) : stack[b][i].pc \in Makers \cup {"join"}
      /\ \A b \in Threads :
           /\ Len(stack[b]) >= 1
           /\ stack[b][1].pc \in Loops
           /\ Len(stack[b]) > 1 => stack[b][1].pc = "get_queue"
           /\ Len(stack[b]) > 1 => stack[b][2].pc \in Receives
           /\ \A i \in 2..Len(stack[b]) : stack[b][i].pc \notin Loops \cup {"join"}
  BY DEF Shape
<1>4. ASSUME NEW b \in Actors, NEW i \in 1..Len(stack'[b]) PROVE FrameOK(stack'[b][i])
  <2>1. CASE b # a
    BY <1>1, <1>3, <2>1
  <2>2. CASE b = a /\ i <= k
    BY <1>1, <1>3, <2>2
  <2>3. CASE b = a /\ i > k
    BY <1>1, <1>2, <2>3
  <2> QED
    BY <1>1, <2>1, <2>2, <2>3
<1>5. ASSUME NEW b \in Outsiders
      PROVE  /\ Len(stack'[b]) <= 1
             /\ \A i \in 1..Len(stack'[b]) : stack'[b][i].pc \in Makers \cup {"join"}
  <2>1. CASE b # a
    BY <1>1, <1>3, <2>1 DEF Actors
  <2>2. CASE b = a
    <3>1. k = 0
      <4>1. a \in Outsiders => Len(stack[a]) = 1
        BY Below
      <4> QED
        BY <1>1, <2>2, <4>1
    <3>2. a \in Outsiders /\ n \in 0..1
      BY <1>1, <2>2
    <3>3. ASSUME NEW i \in 1..n PROVE stack'[a][i].pc \in Makers
      BY <1>1, <1>2, <3>1, <3>2
    <3> QED
      BY <1>1, <2>2, <3>2, <3>3
  <2> QED
    BY <2>1, <2>2
<1>6. ASSUME NEW b \in Threads
      PROVE  /\ Len(stack'[b]) >= 1
             /\ stack'[b][1].pc \in Loops
             /\ Len(stack'[b]) > 1 => stack'[b][1].pc = "get_queue"
             /\ Len(stack'[b]) > 1 => stack'[b][2].pc \in Receives
             /\ \A i \in 2..Len(stack'[b]) : stack'[b][i].pc \notin Loops \cup {"join"}
  <2>1. CASE b # a
    BY <1>1, <1>3, <2>1 DEF Actors
  <2>2. CASE b = a
    <3>1. k >= 1 /\ stack[a][1].pc = "get_queue"
      BY <1>1, <2>2, Below
    <3>2. stack'[a][1].pc = "get_queue"
      BY <1>1, <3>1
    <3>3. ASSUME NEW i \in 2..n PROVE stack'[a][i].pc \notin Loops \cup {"join"}
      <4>1. CASE i <= k
        <5>1. i \in 1..k /\ i \in 2..Len(stack[a])
          BY <1>1, <4>1
        <5>2. stack[a][i].pc \notin Loops \cup {"join"}
          BY <1>3, <2>2, <5>1
        <5> QED
          BY <1>1, <5>1, <5>2
      <4>2. CASE i > k
        BY <1>1, <1>2, <4>2
      <4> QED
        BY <1>1, <4>1, <4>2
    <3>4. ASSUME n > 1 PROVE stack'[a][2].pc \in Receives
      <4>1. CASE k = 1
        <5>1. stack[a][2].pc = pc /\ stack[a][2].pc \in Receives /\ Len(stack[a]) = 2
          BY <1>1, <1>3, <2>2, <4>1, TopFrame
        <5> QED
          BY <1>1, <3>4, <4>1, <5>1
      <4>2. CASE k > 1
        <5>1. 2 \in 1..k /\ Len(stack[a]) > 1
          BY <1>1, <4>2
        <5> QED
          BY <1>1, <1>3, <2>2, <5>1
      <4> QED
        BY <1>1, <3>1, <4>1, <4>2
    <3> QED
      BY <1>1, <2>2, <3>1, <3>2, <3>3, <3>4 DEF Loops
  <2> QED
    BY <2>1, <2>2
<1> QED
  BY <1>4, <1>5, <1>6 DEF Shape

\* The frames that make messages stay or are replaced in place.
LEMMA MakerKept ==
  ASSUME TypeOK, OneMaker, NEW a \in Actors, NEW k, NEW n, Becomes(a, k, n),
         \A i \in (k + 1)..n : stack'[a][i].pc \in Makers =>
           /\ i <= Len(stack[a]) /\ stack[a][i].pc \in Makers
           /\ stack'[a][i].m = stack[a][i].m
           /\ stack'[a][i].pc \notin {"s_push", "p_push"}
           /\ stack'[a][i].pc = "s_rewake" => stack[a][i].m \in ready',
         \A b \in Actors : \A i \in 1..Len(stack[b]) : stack[b][i].pc \in Makers =>
           /\ fate'[stack[b][i].m] # "unused"
           /\ b # a \/ i <= k =>
                /\ stack[b][i].pc \in {"s_push", "p_push"} => fate'[stack[b][i].m] = "sending"
                /\ stack[b][i].pc = "s_rewake" => stack[b][i].m \in ready'
  PROVE  OneMaker'
<1>1. /\ k \in Nat /\ n \in Nat /\ k <= n /\ k <= Len(stack[a]) /\ Len(stack'[a]) = n
      /\ \A i \in 1..k : stack'[a][i] = stack[a][i]
      /\ \A b \in Actors \ {a} : stack'[b] = stack[b]
      /\ Len(stack[a]) \in Nat
  BY Typed, LenProperties DEF Becomes
<1>2. ASSUME NEW b \in Actors, NEW i \in 1..Len(stack'[b]), stack'[b][i].pc \in Makers
      PROVE  /\ i \in 1..Len(stack[b]) /\ stack[b][i].pc \in Makers
             /\ stack'[b][i].m = stack[b][i].m
             /\ fate'[stack'[b][i].m] # "unused"
             /\ stack'[b][i].pc \in {"s_push", "p_push"} => fate'[stack'[b][i].m] = "sending"
             /\ stack'[b][i].pc = "s_rewake" => stack'[b][i].m \in ready'
  <2>1. CASE b # a
    BY <1>1, <1>2, <2>1
  <2>2. CASE b = a /\ i <= k
    <3>1. i \in 1..k /\ i \in 1..Len(stack[a]) /\ stack'[a][i] = stack[a][i]
      BY <1>1, <2>2
    <3> QED
      BY <1>2, <2>2, <3>1
  <2>3. CASE b = a /\ i > k
    <3>1. i \in (k + 1)..n
      BY <1>1, <2>3
    <3>2. i \in 1..Len(stack[a])
      BY <1>1, <1>2, <2>3, <3>1
    <3> QED
      BY <1>2, <2>3, <3>1, <3>2
  <2> QED
    BY <1>1, <2>1, <2>2, <2>3
<1>3. ASSUME NEW b \in Actors, NEW c \in Actors,
             NEW i \in 1..Len(stack'[b]), NEW j \in 1..Len(stack'[c]),
             stack'[b][i].pc \in Makers, stack'[c][j].pc \in Makers,
             stack'[b][i].m = stack'[c][j].m
      PROVE  b = c /\ i = j
  BY <1>2, <1>3 DEF OneMaker
<1>4. ASSUME NEW b \in Actors, NEW i \in 1..Len(stack'[b])
      PROVE  /\ stack'[b][i].pc \in Makers => fate'[stack'[b][i].m] # "unused"
             /\ stack'[b][i].pc \in {"s_push", "p_push"} => fate'[stack'[b][i].m] = "sending"
             /\ stack'[b][i].pc = "s_rewake" => stack'[b][i].m \in ready'
  BY <1>2 DEF Makers
<1> QED
  BY <1>3, <1>4 DEF OneMaker

\* A Send in progress goes on unless its own frame returns.
Senders == {"s_wakeup", "s_check", "s_wait", "s_rewake"}

LEMMA InSendKept ==
  ASSUME TypeOK, NEW a \in Actors, NEW k, NEW n, Becomes(a, k, n),
         NEW b \in Actors, NEW m, InSend(b, m),
         b = a => \A i \in (k + 1)..Len(stack[a]) :
                    stack[a][i].pc \in Senders /\ stack[a][i].m = m =>
                      i <= n /\ stack'[a][i].pc \in Senders /\ stack'[a][i].m = m
  PROVE  InSend(b, m)'
<1>1. /\ k \in Nat /\ n \in Nat /\ k <= n /\ k <= Len(stack[a]) /\ Len(stack'[a]) = n
      /\ \A i \in 1..k : stack'[a][i] = stack[a][i]
      /\ \A c \in Actors \ {a} : stack'[c] = stack[c]
      /\ Len(stack[a]) \in Nat /\ DOMAIN stack[a] = 1..Len(stack[a])
      /\ DOMAIN stack'[a] = 1..n
  BY Typed, LenProperties DEF Becomes
<1>2. PICK i \in DOMAIN stack[b] : stack[b][i].pc \in Senders /\ stack[b][i].m = m
  BY DEF InSend, Senders
<1>3. CASE b # a
  BY <1>1, <1>2, <1>3 DEF InSend, Senders
<1>4. CASE b = a
  <2>1. i \in 1..n /\ stack'[a][i].pc \in Senders /\ stack'[a][i].m = m
    BY <1>1, <1>2, <1>4
  <2> QED
    BY <1>1, <1>4, <2>1 DEF InSend, Senders
<1> QED
  BY <1>3, <1>4

\* A wake-up on its way is given, or stays on its way.
LEMMA WokenKept ==
  ASSUME TypeOK, NEW a \in Actors, NEW k, NEW n, Becomes(a, k, n),
         NEW b \in Actors, Woken(b), signaled[b] => signaled'[b],
         At(a, "s_wakeup") /\ Top(a).peer = b => signaled'[b],
         At(a, "rs_wake") /\ Top(a).peer = b
           /\ ~Gone([m |-> Top(a).m, thread |-> b]) => signaled'[b],
         \A m : InSend(b, m) /\ b \in Outsiders => InSend(b, m)'
  PROVE  Woken(b)'
<1>1. \A c \in Actors \ {a} : stack'[c] = stack[c]
  BY DEF Becomes
<1>2. CASE signaled[b]
  BY <1>2 DEF Woken
<1>3. ASSUME NEW c \in Actors, At(c, "s_wakeup"), Top(c).peer = b PROVE Woken(b)'
  <2>1. CASE c = a
    BY <1>3, <2>1 DEF Woken
  <2>2. CASE c # a
    BY <1>1, <1>3, <2>2 DEF Woken, At, Top
  <2> QED
    BY <2>1, <2>2
<1>4. ASSUME NEW c \in Actors, At(c, "rs_wake"), Top(c).peer = b,
             ~Gone([m |-> Top(c).m, thread |-> b])
      PROVE  Woken(b)'
  <2>1. CASE c = a
    BY <1>4, <2>1 DEF Woken
  <2>2. CASE c # a
    <3>1. stack'[c] = stack[c]
      BY <1>1, <2>2
    <3>2. At(c, "rs_wake")' /\ Top(c)' = Top(c)
      BY <1>4, <3>1 DEF At, Top
    <3>3. b \notin Outsiders \/ InSend(b, Top(c).m)
      BY <1>4 DEF Gone
    <3>4. b \notin Outsiders \/ InSend(b, Top(c).m)'
      BY <3>2, <3>3
    <3>5. ~Gone([m |-> Top(c).m, thread |-> b])'
      BY <3>4 DEF Gone
    <3> QED
      BY <1>4, <3>2, <3>5 DEF Woken
  <2> QED
    BY <2>1, <2>2
<1> QED
  BY <1>2, <1>3, <1>4 DEF Woken

\* The waiting frames, when a wake-up that is consumed is owed by the frame that did.
LEMMA WaitsKept ==
  ASSUME TypeOK, Waits, NEW a \in Actors, NEW k, NEW n, Becomes(a, k, n),
         \A i \in (k + 1)..n : WaitOK(a, i)',
         \A b \in Actors : Woken(b) =>
           Woken(b)' \/ (b = a /\ (k = 0 \/ \E j \in (k + 1)..n : stack'[a][j].waited)),
         \A j \in (k + 1)..Len(stack[a]) : stack[a][j].waited =>
           Woken(a)' \/ k = 0 \/ \E h \in (k + 1)..n : stack'[a][h].waited,
         \A j \in (k + 1)..Len(stack[a]) : stack[a][j].pc \in Receives =>
           \/ sendlist'[a] = <<>> \/ Woken(a)'
           \/ \E h \in (k + 1)..n : stack'[a][h].pc \in Receives \/ stack'[a][h].waited,
         \A b \in Actors : \A i \in 1..Len(stack[b]) :
           stack[b][i].pc = "s_wait" /\ stack[b][i].m \in ready' \ ready => Woken(b)',
         \A q \in Threads : sendlist'[q] # <<>> => sendlist[q] # <<>> \/ Woken(q)'
  PROVE  Waits'
<1>1. /\ k \in Nat /\ n \in Nat /\ k <= n /\ k <= Len(stack[a]) /\ Len(stack'[a]) = n
      /\ \A i \in 1..k : stack'[a][i] = stack[a][i]
      /\ \A b \in Actors \ {a} : stack'[b] = stack[b]
      /\ Len(stack[a]) \in Nat
  BY Typed, LenProperties DEF Becomes
<1> SUFFICES ASSUME NEW b \in Actors, NEW i \in 1..Len(stack'[b]), stack'[b][i].pc = "s_wait"
             PROVE  WaitOK(b, i)'
  BY DEF Waits, WaitOK
<1>2. CASE b # a
  <2>1. stack'[b] = stack[b] /\ i \in 1..Len(stack[b]) /\ stack[b][i].pc = "s_wait"
    BY <1>1, <1>2
  <2>2. WaitOK(b, i)
    BY <2>1 DEF Waits
  <2>3. (Owed(b, i) => Owed(b, i)') /\ (Looks(b, i) => Looks(b, i)')
    BY <2>1 DEF Owed, Looks
  <2>4. Woken(b) => Woken(b)'
    BY <1>2
  <2> QED
    BY <2>1, <2>2, <2>3, <2>4 DEF WaitOK
<1>3. CASE b = a /\ i <= k
  <2>1. i \in 1..k /\ i \in 1..Len(stack[a]) /\ stack'[a][i] = stack[a][i]
    BY <1>1, <1>3
  <2>2. WaitOK(a, i) /\ stack[a][i].pc = "s_wait"
    BY <1>3, <2>1 DEF Waits
  <2>3. ASSUME NEW h \in (k + 1)..n PROVE h \in (i + 1)..Len(stack'[a])
    BY <1>1, <2>1
  <2>4. Woken(a) => Woken(a)' \/ Owed(a, i)'
    BY <1>1, <2>1, <2>3 DEF Owed
  <2>5. Owed(a, i) => Woken(a)' \/ Owed(a, i)'
    <3> SUFFICES ASSUME NEW j \in (i + 1)..Len(stack[a]), stack[a][j].waited
                 PROVE  Woken(a)' \/ Owed(a, i)'
      BY DEF Owed
    <3>1. CASE j <= k
      <4>1. j \in 1..k /\ j \in (i + 1)..Len(stack'[a])
        BY <1>1, <2>1, <3>1
      <4> QED
        BY <1>1, <4>1 DEF Owed
    <3>2. CASE j > k
      <4>1. j \in (k + 1)..Len(stack[a])
        BY <1>1, <2>1, <3>2
      <4> QED
        BY <1>1, <2>1, <2>3, <4>1 DEF Owed
    <3> QED
      BY <1>1, <2>1, <3>1, <3>2
  <2>6. Looks(a, i) => sendlist'[a] = <<>> \/ Woken(a)' \/ Looks(a, i)' \/ Owed(a, i)'
    <3> SUFFICES ASSUME NEW j \in (i + 1)..Len(stack[a]), stack[a][j].pc \in Receives
                 PROVE  sendlist'[a] = <<>> \/ Woken(a)' \/ Looks(a, i)' \/ Owed(a, i)'
      BY DEF Looks
    <3>1. CASE j <= k
      <4>1. j \in 1..k /\ j \in (i + 1)..Len(stack'[a])
        BY <1>1, <2>1, <3>1
      <4> QED
        BY <1>1, <4>1 DEF Looks
    <3>2. CASE j > k
      <4>1. j \in (k + 1)..Len(stack[a])
        BY <1>1, <2>1, <3>2
      <4> QED
        BY <2>3, <4>1 DEF Owed, Looks
    <3> QED
      BY <1>1, <2>1, <3>1, <3>2
  <2>7. stack[a][i].m \in ready' => Woken(a)' \/ Owed(a, i)'
    BY <2>1, <2>2, <2>4, <2>5 DEF WaitOK
  <2>8. a \in Threads /\ sendlist'[a] # <<>> => Woken(a)' \/ Owed(a, i)' \/ Looks(a, i)'
    BY <2>1, <2>2, <2>4, <2>5, <2>6 DEF WaitOK
  <2> QED
    BY <1>3, <2>1, <2>7, <2>8 DEF WaitOK
<1>4. CASE b = a /\ i > k
  <2>1. i \in (k + 1)..n
    BY <1>1, <1>4
  <2> QED
    BY <1>4, <2>1
<1> QED
  BY <1>1, <1>2, <1>3, <1>4

\* The other threads in Get's loop.
LEMMA SleepsKept ==
  ASSUME TypeOK, Sleeps, NEW a \in Actors, NEW k, NEW n, Becomes(a, k, n),
         a \in Threads => SleepOK(a)',
         \A b \in Threads \ {a} : Woken(b) => Woken(b)',
         \A b \in Threads \ {a} :
           /\ sendlist'[b] # <<>> => sendlist[b] # <<>> \/ Woken(b)'
           /\ msgq'[b] # <<>> => msgq[b] # <<>> \/ Woken(b)'
           /\ fStop'[b] => fStop[b] \/ Woken(b)'
  PROVE  Sleeps'
<1> SUFFICES ASSUME NEW b \in Threads, b # a PROVE SleepOK(b)'
  BY DEF Sleeps
<1>1. stack'[b] = stack[b]
  BY DEF Becomes, Actors
<1>2. SleepOK(b)
  BY DEF Sleeps
<1> QED
  BY <1>1, <1>2 DEF SleepOK

\* The messages that are being handled.
LEMMA HandledKept ==
  ASSUME TypeOK, Handled, NEW a \in Actors, NEW k, NEW n, Becomes(a, k, n),
         \A b \in Actors : \A i \in 1..Len(stack[b]) : FrameOK(stack[b][i]),
         \A m \in ready' : fate'[m] \in {"done", "cleared"},
         \A m \in Msgs : fate[m] \in {"running", "done"} =>
           fate'[m] \in {"running", "done"} /\ (fate[m] = "done" => fate'[m] = "done"),
         \A b \in Actors : \A i \in 1..Len(stack[b]) :
           stack[b][i].pc = "rs_ready" /\ (b # a \/ i <= k) =>
             stack[b][i].m \notin ready' /\ InSend(stack[b][i].peer, stack[b][i].m)',
         \A i \in (k + 1)..n : stack'[a][i].pc = "rs_ready" =>
           /\ HandlingOK(a, i)'
           /\ \A j \in (k + 1)..n : stack'[a][j].pc = "rs_ready" => i = j
           /\ \A b \in Actors : \A j \in 1..Len(stack[b]) :
                stack[b][j].pc = "rs_ready" => stack[b][j].m # stack'[a][i].m,
         k < Len(stack[a]) /\ k < n => stack[a][k + 1].pc # "run",
         k = Len(stack[a]) /\ 0 < k /\ k < n => stack[a][k].pc # "rs_ready",
         k = n /\ k < Len(stack[a]) /\ stack[a][k + 1].pc = "run" /\ stack[a][k + 1].m \in Msgs
           => fate'[stack[a][k + 1].m] = "done"
  PROVE  Handled'
<1>1. /\ k \in Nat /\ n \in Nat /\ k <= n /\ k <= Len(stack[a]) /\ Len(stack'[a]) = n
      /\ \A i \in 1..k : stack'[a][i] = stack[a][i]
      /\ \A b \in Actors \ {a} : stack'[b] = stack[b]
      /\ Len(stack[a]) \in Nat /\ \A b \in Actors : Len(stack[b]) \in Nat
  BY Typed, LenProperties DEF Becomes
\* An old frame.
<1>2. ASSUME NEW b \in Actors, NEW i \in 1..Len(stack[b]), i \in 1..Len(stack'[b]),
             stack[b][i].pc = "rs_ready", b # a \/ i <= k
      PROVE  stack'[b][i] = stack[b][i] /\ HandlingOK(b, i)'
  <2>1. stack'[b][i] = stack[b][i]
    BY <1>1, <1>2
  <2>2. HandlingOK(b, i)
    BY <1>2 DEF Handled
  <2>3. stack[b][i].m \in Msgs
    BY <1>2 DEF FrameOK
  <2>4. /\ fate'[stack[b][i].m] \in {"running", "done"}
        /\ stack[b][i].m \notin ready' /\ InSend(stack[b][i].peer, stack[b][i].m)'
    BY <1>2, <2>2, <2>3 DEF HandlingOK
  <2>5. i = Len(stack'[b]) => fate'[stack[b][i].m] = "done"
    <3>1. CASE i = Len(stack[b])
      BY <2>2, <2>3, <3>1 DEF HandlingOK
    <3>2. CASE i < Len(stack[b]) /\ i = Len(stack'[b])
      <4>1. b = a /\ i = k /\ k = n
        BY <1>1, <1>2, <3>2
      <4>2. stack[a][k + 1].pc = "run" /\ stack[a][k + 1].m = stack[b][i].m
        BY <2>2, <3>2, <4>1 DEF HandlingOK
      <4> QED
        BY <2>3, <3>2, <4>1, <4>2
    <3> QED
      BY <1>1, <3>1, <3>2
  <2>6. i < Len(stack'[b]) => stack'[b][i + 1].pc = "run" /\ stack'[b][i + 1].m = stack[b][i].m
    <3> SUFFICES ASSUME i < Len(stack'[b])
                 PROVE  stack'[b][i + 1].pc = "run" /\ stack'[b][i + 1].m = stack[b][i].m
      OBVIOUS
    <3>1. CASE b # a
      BY <1>1, <2>2, <3>1 DEF HandlingOK
    <3>2. CASE b = a /\ i < k
      <4>1. i + 1 \in 1..k /\ i < Len(stack[a])
        BY <1>1, <3>2
      <4> QED
        BY <1>1, <2>2, <3>2, <4>1 DEF HandlingOK
    <3>3. CASE b = a /\ i = k
      <4>1. CASE k = Len(stack[a])
        BY <1>1, <1>2, <3>3, <4>1
      <4>2. CASE k < Len(stack[a])
        BY <1>1, <1>2, <2>2, <3>3, <4>2 DEF HandlingOK
      <4> QED
        BY <1>1, <4>1, <4>2
    <3> QED
      BY <1>1, <1>2, <3>1, <3>2, <3>3
  <2> QED
    BY <2>1, <2>4, <2>5, <2>6 DEF HandlingOK
\* Every frame is an old or a new one.
<1>3. ASSUME NEW b \in Actors, NEW i \in 1..Len(stack'[b])
      PROVE  \/ i \in 1..Len(stack[b]) /\ (b # a \/ i <= k) /\ stack'[b][i] = stack[b][i]
             \/ b = a /\ i \in (k + 1)..n
  BY <1>1
<1>4. \A b \in Actors : \A i \in 1..Len(stack'[b]) :
        stack'[b][i].pc = "rs_ready" => HandlingOK(b, i)'
  BY <1>2, <1>3
<1>5. ASSUME NEW b \in Actors, NEW c \in Actors,
             NEW i \in 1..Len(stack'[b]), NEW j \in 1..Len(stack'[c]),
             stack'[b][i].pc = "rs_ready", stack'[c][j].pc = "rs_ready",
             stack'[b][i].m = stack'[c][j].m
      PROVE  b = c /\ i = j
  <2>1. CASE b = a /\ i \in (k + 1)..n
    BY <1>3, <1>5, <2>1
  <2>2. CASE c = a /\ j \in (k + 1)..n
    <3>1. CASE b = a /\ i \in (k + 1)..n
      BY <1>5, <2>2, <3>1
    <3>2. CASE i \in 1..Len(stack[b]) /\ stack'[b][i] = stack[b][i]
      <4>1. stack[b][i].pc = "rs_ready" /\ stack[b][i].m = stack'[a][j].m
        BY <1>5, <2>2, <3>2
      <4> QED
        BY <1>5, <2>2, <3>2, <4>1
    <3> QED
      BY <1>3, <3>1, <3>2
  <2>3. CASE /\ i \in 1..Len(stack[b]) /\ stack'[b][i] = stack[b][i]
             /\ j \in 1..Len(stack[c]) /\ stack'[c][j] = stack[c][j]
    BY <1>5, <2>3 DEF Handled
  <2> QED
    BY <1>3, <2>1, <2>2, <2>3
<1> QED
  BY <1>4, <1>5 DEF Handled

\* The handlers: a new one is for a message that none runs for, and a return ends one.
LEMMA RunsKept ==
  ASSUME TypeOK, Runs, NEW a \in Actors, NEW k, NEW n, Becomes(a, k, n),
         \A m \in Msgs : fate[m] = "running" =>
           \/ fate'[m] = "running"
           \/ \E i \in (k + 1)..Len(stack[a]) : stack[a][i].pc = "run" /\ stack[a][i].m = m,
         \A i \in (k + 1)..n : stack'[a][i].pc = "run" =>
           /\ stack'[a][i].m \in Msgs =>
                fate'[stack'[a][i].m] = "running" /\ fate[stack'[a][i].m] # "running"
           /\ \A j \in (k + 1)..n : stack'[a][j].pc = "run" => i = j
  PROVE  Runs'
<1>1. /\ k \in Nat /\ n \in Nat /\ k <= n /\ k <= Len(stack[a]) /\ Len(stack'[a]) = n
      /\ \A i \in 1..k : stack'[a][i] = stack[a][i]
      /\ \A b \in Actors \ {a} : stack'[b] = stack[b]
      /\ Len(stack[a]) \in Nat
  BY Typed, LenProperties DEF Becomes
<1>2. ASSUME NEW b \in Actors, NEW i \in 1..Len(stack'[b]), stack'[b][i].pc = "run"
      PROVE  \/ /\ i \in 1..Len(stack[b]) /\ (b # a \/ i <= k)
                /\ stack'[b][i] = stack[b][i] /\ stack[b][i].pc = "run"
             \/ b = a /\ i \in (k + 1)..n
  BY <1>1, <1>2
<1>3. ASSUME NEW b \in Actors, NEW i \in 1..Len(stack'[b]),
             stack'[b][i].pc = "run", stack'[b][i].m \in Msgs
      PROVE  fate'[stack'[b][i].m] = "running"
  <2>1. CASE /\ i \in 1..Len(stack[b]) /\ (b # a \/ i <= k)
             /\ stack'[b][i] = stack[b][i] /\ stack[b][i].pc = "run"
    <3>1. fate[stack[b][i].m] = "running"
      BY <1>3, <2>1 DEF Runs
    <3>2. ASSUME NEW j \in (k + 1)..Len(stack[a]), stack[a][j].pc = "run",
                 stack[a][j].m = stack[b][i].m
          PROVE  FALSE
      <4>1. j \in 1..Len(stack[a]) /\ j > k
        BY <1>1
      <4> QED
        BY <1>1, <1>3, <2>1, <3>2, <4>1 DEF Runs
    <3> QED
      BY <1>3, <2>1, <3>1, <3>2
  <2>2. CASE b = a /\ i \in (k + 1)..n
    BY <1>3, <2>2
  <2> QED
    BY <1>2, <1>3, <2>1, <2>2
<1>4. ASSUME NEW b \in Actors, NEW c \in Actors,
             NEW i \in 1..Len(stack'[b]), NEW j \in 1..Len(stack'[c]),
             stack'[b][i].pc = "run", stack'[c][j].pc = "run",
             stack'[b][i].m = stack'[c][j].m, stack'[b][i].m \in Msgs
      PROVE  b = c /\ i = j
  <2>1. CASE b = a /\ i \in (k + 1)..n
    <3>1. fate[stack'[b][i].m] # "running"
      BY <1>4, <2>1
    <3>2. ~(/\ j \in 1..Len(stack[c]) /\ stack'[c][j] = stack[c][j] /\ stack[c][j].pc = "run")
      BY <1>4, <3>1 DEF Runs
    <3>3. c = a /\ j \in (k + 1)..n
      BY <1>2, <1>4, <3>2
    <3> QED
      BY <1>4, <2>1, <3>3
  <2>2. CASE c = a /\ j \in (k + 1)..n
    <3>1. fate[stack'[c][j].m] # "running"
      BY <1>4, <2>2
    <3>2. ~(/\ i \in 1..Len(stack[b]) /\ stack'[b][i] = stack[b][i] /\ stack[b][i].pc = "run")
      BY <1>4, <3>1 DEF Runs
    <3>3. b = a /\ i \in (k + 1)..n
      BY <1>2, <1>4, <3>2
    <3> QED
      BY <1>4, <2>2, <3>3
  <2>3. CASE /\ i \in 1..Len(stack[b]) /\ stack'[b][i] = stack[b][i] /\ stack[b][i].pc = "run"
             /\ j \in 1..Len(stack[c]) /\ stack'[c][j] = stack[c][j] /\ stack[c][j].pc = "run"
    BY <1>4, <2>3 DEF Runs
  <2> QED
    BY <1>2, <1>4, <2>1, <2>2, <2>3
<1> QED
  BY <1>3, <1>4 DEF Runs

\* The lists, when members leave them or none does.
LEMMA SentShrinks ==
  ASSUME SentOnce, \A q \in Threads : Within(sendlist'[q], sendlist[q]),
         \A q \in Threads : \A i \in 1..Len(sendlist'[q]) : EntryOK(q, i)'
  PROVE  SentOnce'
<1> SUFFICES ASSUME NEW q \in Threads, NEW r \in Threads,
                    NEW i \in 1..Len(sendlist'[q]), NEW j \in 1..Len(sendlist'[r]),
                    sendlist'[q][i].m = sendlist'[r][j].m
             PROVE  q = r /\ i = j
  BY DEF SentOnce
<1>1. q = r
  <2>1. PICK p \in 1..Len(sendlist[q]), o \in 1..Len(sendlist[r]) :
          sendlist'[q][i] = sendlist[q][p] /\ sendlist'[r][j] = sendlist[r][o]
    BY DEF Within
  <2> QED
    BY <2>1 DEF SentOnce
<1>2. Len(sendlist'[q]) \in Nat /\ Len(sendlist[q]) \in Nat
  BY DEF Within
<1>3. ASSUME NEW g \in 1..Len(sendlist'[q]), NEW h \in 1..Len(sendlist'[q]), g < h
      PROVE  sendlist'[q][g].m # sendlist'[q][h].m
  <2>1. PICK p \in 1..Len(sendlist[q]), o \in 1..Len(sendlist[q]) :
          p < o /\ sendlist'[q][g] = sendlist[q][p] /\ sendlist'[q][h] = sendlist[q][o]
    BY <1>3 DEF Within
  <2>2. p # o
    BY <1>2, <2>1
  <2> QED
    BY <2>1, <2>2 DEF SentOnce
<1>4. ~(i < j) /\ ~(j < i)
  BY <1>1, <1>3
<1> QED
  BY <1>1, <1>2, <1>4

LEMMA PostedShrinks ==
  ASSUME PostedOnce, \A q \in Threads : Within(msgq'[q], msgq[q]),
         \A q \in Threads : \A i \in 1..Len(msgq'[q]) : fate'[msgq'[q][i]] = "posted"
  PROVE  PostedOnce'
<1> SUFFICES ASSUME NEW q \in Threads, NEW r \in Threads,
                    NEW i \in 1..Len(msgq'[q]), NEW j \in 1..Len(msgq'[r]),
                    msgq'[q][i] = msgq'[r][j]
             PROVE  q = r /\ i = j
  BY DEF PostedOnce
<1>1. q = r
  <2>1. PICK p \in 1..Len(msgq[q]), o \in 1..Len(msgq[r]) :
          msgq'[q][i] = msgq[q][p] /\ msgq'[r][j] = msgq[r][o]
    BY DEF Within
  <2>2. msgq[q][p] = msgq[r][o]
    BY <2>1
  <2> QED
    BY <2>2 DEF PostedOnce
<1>2. Len(msgq'[q]) \in Nat /\ Len(msgq[q]) \in Nat
  BY DEF Within
<1>3. ASSUME NEW g \in 1..Len(msgq'[q]), NEW h \in 1..Len(msgq'[q]), g < h
      PROVE  msgq'[q][g] # msgq'[q][h]
  <2>1. PICK p \in 1..Len(msgq[q]), o \in 1..Len(msgq[q]) :
          p < o /\ msgq'[q][g] = msgq[q][p] /\ msgq'[q][h] = msgq[q][o]
    BY <1>3 DEF Within
  <2>2. p # o
    BY <1>2, <2>1
  <2> QED
    BY <2>1, <2>2 DEF PostedOnce
<1>4. ~(i < j) /\ ~(j < i)
  BY <1>1, <1>3
<1> QED
  BY <1>1, <1>2, <1>4

\* A step that leaves the lists alone.
LEMMA ListedKept ==
  ASSUME TypeOK, Listed, UNCHANGED <<sendlist, msgq>>,
         \A m \in Msgs : fate[m] \in {"sent", "posted"} => fate'[m] = fate[m],
         \A b \in Actors : \A m : InSend(b, m) /\ m \notin ready => InSend(b, m)',
         \A m \in ready : fate[m] # "sent"
  PROVE  Listed'
<1>1. sendlist \in [Threads -> Seq(Entries)] /\ msgq \in [Threads -> Seq(Msgs)]
  BY Typed
<1>2. ASSUME NEW q \in Threads
      PROVE  Within(sendlist'[q], sendlist[q]) /\ Within(msgq'[q], msgq[q])
  <2>1. sendlist[q] \in Seq(Entries) /\ msgq[q] \in Seq(Msgs)
    BY <1>1
  <2> QED
    BY <2>1, WithinSame
<1>3. ASSUME NEW q \in Threads, NEW i \in 1..Len(sendlist'[q])
      PROVE  EntryOK(q, i)'
  <2>1. sendlist[q][i] \in Entries
    <3>1. sendlist[q] \in Seq(Entries) /\ i \in 1..Len(sendlist[q])
      BY <1>1
    <3> QED
      BY <3>1, ElementOfSeq
  <2>2. sendlist[q][i].m \in Msgs /\ sendlist[q][i].thread \in Actors
    BY <2>1 DEF Entries
  <2>3. EntryOK(q, i)
    BY DEF Listed, SentOnce
  <2>4. PICK b \in Actors, m \in Msgs : b = sendlist[q][i].thread /\ m = sendlist[q][i].m
    BY <2>2
  <2>5. fate'[m] = "sent" /\ InSend(b, m)'
    BY <2>3, <2>4 DEF EntryOK
  <2>6. b = sendlist'[q][i].thread /\ m = sendlist'[q][i].m
    BY <2>4
  <2> QED
    BY <2>5, <2>6 DEF EntryOK, InSend
<1>4. ASSUME NEW q \in Threads, NEW i \in 1..Len(msgq'[q])
      PROVE  fate'[msgq'[q][i]] = "posted"
  <2>1. msgq[q][i] \in Msgs
    BY <1>1
  <2> QED
    BY <2>1 DEF Listed, PostedOnce
<1> QED
  BY <1>2, <1>3, <1>4, SentShrinks, PostedShrinks DEF Listed

\* The innermost frame f of an actor at pc, the n-th, and what the invariant says of it.
Innermost(a, pc, n, f) ==
  /\ n \in Nat \ {0} /\ n = Len(stack[a]) /\ f = Top(a) /\ f = stack[a][n]
  /\ f \in Frames /\ f.pc = pc /\ FrameOK(f)
  /\ stack \in [Actors -> Seq(Frames)] /\ stack[a] # <<>> /\ At(a, pc)

Parts ==
  /\ TypeOK /\ Shape /\ OneMaker /\ Listed /\ Handled /\ Runs /\ Known /\ Waits /\ Sleeps
  /\ \A b \in Actors : Len(stack[b]) \in Nat /\ \A i \in 1..Len(stack[b]) : FrameOK(stack[b][i])

LEMMA PartsHold == SendInv => Parts
<1> SUFFICES ASSUME SendInv PROVE Parts
  OBVIOUS
<1>1. \A b \in Actors : Len(stack[b]) \in Nat
  BY Typed, LenProperties DEF SendInv
<1> QED
  BY <1>1 DEF SendInv, Parts, Shape

LEMMA InnermostIs ==
  ASSUME Parts, NEW a \in Actors, NEW pc, At(a, pc)
  PROVE  \E n \in Nat \ {0}, f \in Frames : Innermost(a, pc, n, f)
<1>1. TypeOK /\ \A i \in 1..Len(stack[a]) : FrameOK(stack[a][i])
  BY DEF Parts
<1>2. /\ stack[a] # <<>> /\ Len(stack[a]) \in Nat \ {0}
      /\ Top(a) = stack[a][Len(stack[a])] /\ Top(a) \in Frames
      /\ stack[a][Len(stack[a])].pc = pc /\ stack \in [Actors -> Seq(Frames)]
  BY <1>1, TopFrame, Typed
<1>3. FrameOK(Top(a)) /\ Top(a).pc = pc
  BY <1>1, <1>2
<1> QED
  BY <1>2, <1>3 DEF Innermost

\* Replacing it, or returning from it.
LEMMA GotoStep ==
  ASSUME NEW a \in Actors, NEW pc, NEW n, NEW f, Innermost(a, pc, n, f),
         NEW g \in Frames, Goto(a, g)
  PROVE  Becomes(a, n - 1, n) /\ stack'[a][n] = g
BY GotoBecomes DEF Innermost

LEMMA ReturnStep ==
  ASSUME NEW a \in Actors, NEW pc, NEW n, NEW f, Innermost(a, pc, n, f), Return(a)
  PROVE  Becomes(a, n - 1, n - 1)
BY ReturnBecomes DEF Innermost

\* The innermost frame after a step.
LEMMA TopAfter ==
  ASSUME NEW a \in Actors, NEW k, NEW n, Becomes(a, k, n), n > 0
  PROVE  Top(a)' = stack'[a][n] /\ \A pc : At(a, pc)' <=> stack'[a][n].pc = pc
<1>1. stack'[a] \in Seq(Frames) /\ Len(stack'[a]) = n /\ n \in Nat
  BY DEF Becomes
<1>2. stack'[a] # <<>>
  BY <1>1
<1>3. Top(a)' = stack'[a][n]
  BY <1>1 DEF Top, Last
<1> QED
  BY <1>2, <1>3 DEF At

\* A Send whose message is not finished goes on.
SendsGoOn == \A b \in Actors : \A m : InSend(b, m) /\ m \notin ready => InSend(b, m)'

\* What is left to show of a step, given the types, the shape and the lists after it.
LEMMA Keeps ==
  ASSUME Parts, NEW a \in Actors, NEW k, NEW n, Becomes(a, k, n),
         TypeOK', Shape', OneMaker', Listed', Known', Runs',
         \A m \in Msgs : fate[m] \in {"running", "done"} =>
           fate'[m] \in {"running", "done"} /\ (fate[m] = "done" => fate'[m] = "done"),
         \A m \in ready' : fate'[m] \in {"done", "cleared"},
         \A b \in Actors : \A i \in 1..Len(stack[b]) :
           /\ stack[b][i].m \in ready' \ ready
           => /\ stack[b][i].pc = "s_wait" => Woken(b)'
              /\ stack[b][i].pc = "rs_ready" => b = a /\ i > k,
         SendsGoOn,
         \A i \in (k + 1)..n :
           /\ WaitOK(a, i)'
           /\ stack'[a][i].pc = "rs_ready" =>
                /\ HandlingOK(a, i)'
                /\ \A j \in (k + 1)..n : stack'[a][j].pc = "rs_ready" => i = j
                /\ \A b \in Actors : \A j \in 1..Len(stack[b]) :
                     stack[b][j].pc = "rs_ready" => stack[b][j].m # stack'[a][i].m,
         k < Len(stack[a]) /\ k < n => stack[a][k + 1].pc # "run",
         k = Len(stack[a]) /\ 0 < k /\ k < n => stack[a][k].pc # "rs_ready",
         k = n /\ k < Len(stack[a]) /\ stack[a][k + 1].pc = "run" /\ stack[a][k + 1].m \in Msgs
           => fate'[stack[a][k + 1].m] = "done",
         \A b \in Actors : Woken(b) =>
           Woken(b)' \/ (b = a /\ (k = 0 \/ \E j \in (k + 1)..n : stack'[a][j].waited)),
         \A j \in (k + 1)..Len(stack[a]) :
           /\ stack[a][j].waited =>
                Woken(a)' \/ k = 0 \/ \E h \in (k + 1)..n : stack'[a][h].waited
           /\ stack[a][j].pc \in Receives =>
                \/ sendlist'[a] = <<>> \/ Woken(a)'
                \/ \E h \in (k + 1)..n : stack'[a][h].pc \in Receives \/ stack'[a][h].waited,
         \A q \in Threads :
           /\ sendlist'[q] # <<>> => sendlist[q] # <<>> \/ Woken(q)'
           /\ msgq'[q] # <<>> => msgq[q] # <<>> \/ Woken(q)'
           /\ fStop'[q] => fStop[q] \/ Woken(q)',
         a \in Threads => SleepOK(a)'
  PROVE  SendInv' /\ SendsGoOn
<1>1. TypeOK /\ Handled /\ Waits /\ Sleeps
  BY DEF Parts
<1>2. ASSUME NEW b \in Actors, NEW i \in 1..Len(stack[b]),
             stack[b][i].pc = "rs_ready", b # a \/ i <= k
      PROVE  stack[b][i].m \notin ready' /\ InSend(stack[b][i].peer, stack[b][i].m)'
  <2>1. HandlingOK(b, i) /\ FrameOK(stack[b][i])
    BY <1>2 DEF Parts, Handled
  <2>2. PICK c \in Actors, m \in Msgs : c = stack[b][i].peer /\ m = stack[b][i].m
    BY <1>2, <2>1 DEF FrameOK
  <2>3. m \notin ready /\ InSend(c, m)
    BY <2>1, <2>2 DEF HandlingOK
  <2>4. InSend(c, m)'
    BY <2>3 DEF SendsGoOn
  <2>5. i > k => b # a
    BY <1>2, Typed, LenProperties DEF Parts, Becomes
  <2>6. m \notin ready'
    BY <1>2, <2>2, <2>3, <2>5
  <2>7. stack'[b][i] = stack[b][i]
    <3>1. i > k => b # a
      BY <1>2, Typed, LenProperties DEF Parts, Becomes
    <3>2. b = a => i \in 1..k
      BY <1>2, <3>1 DEF Becomes
    <3> QED
      BY <3>2 DEF Becomes
  <2>8. c = stack'[b][i].peer /\ m = stack'[b][i].m
    BY <2>2, <2>7
  <2> QED
    BY <2>2, <2>4, <2>6, <2>8 DEF InSend
<1>3. /\ \A b \in Actors : \A i \in 1..Len(stack[b]) : FrameOK(stack[b][i])
      /\ \A i \in (k + 1)..n : stack'[a][i].pc = "rs_ready" =>
           /\ HandlingOK(a, i)'
           /\ \A j \in (k + 1)..n : stack'[a][j].pc = "rs_ready" => i = j
           /\ \A b \in Actors : \A j \in 1..Len(stack[b]) :
                stack[b][j].pc = "rs_ready" => stack[b][j].m # stack'[a][i].m
  BY DEF Parts
<1>4. Handled'
  BY <1>1, <1>2, <1>3, HandledKept
<1>5. /\ \A i \in (k + 1)..n : WaitOK(a, i)'
      /\ \A j \in (k + 1)..Len(stack[a]) : stack[a][j].waited =>
           Woken(a)' \/ k = 0 \/ \E h \in (k + 1)..n : stack'[a][h].waited
      /\ \A j \in (k + 1)..Len(stack[a]) : stack[a][j].pc \in Receives =>
           \/ sendlist'[a] = <<>> \/ Woken(a)'
           \/ \E h \in (k + 1)..n : stack'[a][h].pc \in Receives \/ stack'[a][h].waited
      /\ \A b \in Actors : \A i \in 1..Len(stack[b]) :
           stack[b][i].pc = "s_wait" /\ stack[b][i].m \in ready' \ ready => Woken(b)'
      /\ \A q \in Threads : sendlist'[q] # <<>> => sendlist[q] # <<>> \/ Woken(q)'
  OBVIOUS
<1>6. Waits'
  BY <1>1, <1>5, WaitsKept
<1>7. /\ \A b \in Threads \ {a} : Woken(b) => Woken(b)'
      /\ \A b \in Threads \ {a} :
           /\ sendlist'[b] # <<>> => sendlist[b] # <<>> \/ Woken(b)'
           /\ msgq'[b] # <<>> => msgq[b] # <<>> \/ Woken(b)'
           /\ fStop'[b] => fStop[b] \/ Woken(b)'
  BY DEF Actors
<1>8. Sleeps'
  BY <1>1, <1>7, SleepsKept
<1> QED
  BY <1>4, <1>6, <1>8 DEF SendInv

\* A step by which only the innermost frame, `ready' and the wake-ups change.
NewFrames(a, pc, n, f, p) ==
  /\ \A i \in n..p :
       /\ FrameOK(stack'[a][i])
       /\ stack'[a][i].pc \notin Loops \cup {"join", "run", "rs_ready", "s_push", "p_push"}
       /\ a \in Outsiders => stack'[a][i].pc \in Makers
       /\ stack'[a][i].pc \in Makers =>
            /\ i = n /\ pc \in Makers /\ stack'[a][i].m = f.m
            /\ stack'[a][i].pc = "s_rewake" => f.m \in ready'
       /\ stack'[a][i].pc = "s_wait" =>
            /\ f.m \notin ready'
            /\ a \in Threads => i < p /\ stack'[a][p].pc \in Receives
  /\ pc \in Receives /\ n <= p => stack'[a][n].pc \in Receives
  /\ a \in Outsiders => p <= 1

SendReturns(a, pc, n, f, p) ==
  /\ \A m \in ready : m \in ready' \/ (m = f.m /\ pc \in Senders)
  /\ pc \in Senders =>
       \/ f.m \in ready /\ p = n - 1
       \/ n <= p /\ stack'[a][n].pc \in Senders /\ stack'[a][n].m = f.m

SendReady(a, pc, n, f, p) ==
  /\ \A m \in ready' : m \in ready \/ (m = f.m /\ pc = "rs_ready")
  /\ pc = "rs_ready" => /\ p = n /\ stack'[a][n].pc = "rs_wake"
                        /\ stack'[a][n].m = f.m /\ stack'[a][n].peer = f.peer

WakeUps(a, pc, n, f, p) ==
  /\ \A b \in Actors : signaled[b] =>
       \/ signaled'[b]
       \/ b = a /\ (p = 0 \/ \E j \in n..p : stack'[a][j].waited)
  /\ pc = "s_wakeup" => signaled'[f.peer]
  /\ pc = "rs_wake" => signaled'[f.peer] \/ Gone([m |-> f.m, thread |-> f.peer])
  /\ f.waited => signaled'[a] \/ p = 0 \/ \E j \in n..p : stack'[a][j].waited
  /\ pc \in Receives => sendlist[a] = <<>> \/ \E h \in n..p : stack'[a][h].pc \in Receives

LEMMA Quiet ==
  ASSUME Parts, NEW a \in Actors, NEW pc, NEW n \in Nat \ {0}, NEW f \in Frames,
         Innermost(a, pc, n, f), NEW p, Becomes(a, n - 1, p),
         pc \notin Loops, pc \notin {"run", "join"},
         UNCHANGED <<sendlist, msgq, fStop, fate>>,
         hasSends' \in [Threads -> BOOLEAN], Known',
         signaled' \in [Actors -> BOOLEAN], ready' \in SUBSET Msgs,
         NewFrames(a, pc, n, f, p), SendReturns(a, pc, n, f, p),
         SendReady(a, pc, n, f, p), WakeUps(a, pc, n, f, p)
  PROVE  SendInv' /\ SendsGoOn
<1>0. PICK k \in Nat : k = n - 1
  OBVIOUS
<1>21. n \in Nat /\ n = k + 1 /\ k < n
  BY <1>0
<1>1. /\ k \in Nat /\ k + 1 = n /\ n = Len(stack[a]) /\ p \in Nat /\ Len(stack'[a]) = p
      /\ k <= p /\ k < n /\ n \in 1..Len(stack[a])
      /\ f = stack[a][n] /\ f = Top(a) /\ f.pc = pc /\ At(a, pc) /\ Becomes(a, k, p)
  BY <1>0 DEF Innermost, Becomes
<1>20. ASSUME NEW i \in (k + 1)..Len(stack[a]) PROVE i = n
  BY <1>1
<1>22. n = Len(stack[a]) /\ n \in 1..Len(stack[a]) /\ k < Len(stack[a])
  BY <1>1
<1>2. TypeOK /\ Shape /\ OneMaker /\ Handled /\ Listed /\ Known /\ Waits /\ Sleeps
  BY DEF Parts
<1>3. TypeOK'
  BY <1>1, <1>2 DEF Becomes, TypeOK, Frames
<1>4. Shape'
  <2>1. \A i \in Len(stack[a])..p :
           /\ FrameOK(stack'[a][i]) /\ stack'[a][i].pc \notin Loops \cup {"join"}
           /\ a \in Outsiders => stack'[a][i].pc \in Makers
    BY <1>1 DEF NewFrames
  <2>2. pc \in Receives /\ Len(stack[a]) <= p => stack'[a][Len(stack[a])].pc \in Receives
    BY <1>1 DEF NewFrames
  <2>4. a \in Outsiders => p <= 1
    BY DEF NewFrames
  <2>3. Becomes(a, Len(stack[a]) - 1, p)
    BY <1>0, <1>1
  <2> QED
    BY <1>1, <1>2, <2>1, <2>2, <2>3, <2>4, ShapeKept
<1>5. OneMaker'
  <2>1. \A i \in (k + 1)..p : stack'[a][i].pc \in Makers =>
           /\ i <= Len(stack[a]) /\ stack[a][i].pc \in Makers
           /\ stack'[a][i].m = stack[a][i].m
           /\ stack'[a][i].pc \notin {"s_push", "p_push"}
           /\ stack'[a][i].pc = "s_rewake" => stack[a][i].m \in ready'
    <3> SUFFICES ASSUME NEW i \in n..p, stack'[a][i].pc \in Makers
                 PROVE  /\ i <= Len(stack[a]) /\ stack[a][i].pc \in Makers
                        /\ stack'[a][i].m = stack[a][i].m
                        /\ stack'[a][i].pc \notin {"s_push", "p_push"}
                        /\ stack'[a][i].pc = "s_rewake" => stack[a][i].m \in ready'
      BY <1>1
    <3>1. /\ i = n /\ pc \in Makers /\ stack'[a][i].m = f.m
          /\ stack'[a][i].pc = "s_rewake" => f.m \in ready'
          /\ stack'[a][i].pc \notin {"s_push", "p_push"}
      BY DEF NewFrames
    <3>2. i \in Nat /\ i <= i
      OBVIOUS
    <3> QED
      BY <1>1, <3>1, <3>2
  <2>2. ASSUME NEW b \in Actors, NEW i \in 1..Len(stack[b]), stack[b][i].pc \in Makers
        PROVE  /\ fate'[stack[b][i].m] # "unused"
               /\ b # a \/ i <= k =>
                    /\ stack[b][i].pc \in {"s_push", "p_push"} => fate'[stack[b][i].m] = "sending"
                    /\ stack[b][i].pc = "s_rewake" => stack[b][i].m \in ready'
    <3>1. /\ fate[stack[b][i].m] # "unused"
          /\ stack[b][i].pc \in {"s_push", "p_push"} => fate[stack[b][i].m] = "sending"
          /\ stack[b][i].pc = "s_rewake" => stack[b][i].m \in ready
      BY <1>2, <2>2 DEF OneMaker
    <3>2. pc \in Senders /\ (b # a \/ i <= k) => stack[b][i].m # f.m
      <4>1. i <= k => i # n
        BY <1>21
      <4>2. pc \in Senders => stack[a][n].pc \in Makers /\ stack[a][n].m = f.m
        BY <1>1 DEF Senders, Makers
      <4> QED
        BY <1>22, <1>2, <2>2, <4>1, <4>2 DEF OneMaker
    <3> QED
      BY <3>1, <3>2 DEF SendReturns
  <2> QED
    BY <1>1, <1>2, <2>1, <2>2, MakerKept
<1>6. ASSUME NEW b \in Actors, NEW m, InSend(b, m), b # a \/ m \notin ready \/ p # k
      PROVE  InSend(b, m)'
  <2>1. b = a => \A i \in (k + 1)..Len(stack[a]) :
           stack[a][i].pc \in Senders /\ stack[a][i].m = m =>
             i <= p /\ stack'[a][i].pc \in Senders /\ stack'[a][i].m = m
    BY <1>0, <1>1, <1>6, <1>20 DEF SendReturns
  <2> QED
    BY <1>1, <1>2, <1>6, <2>1, InSendKept
<1>7. SendsGoOn
  BY <1>6 DEF SendsGoOn
<1>8. Listed' /\ Known'
  <2>1. \A m \in ready : fate[m] # "sent"
    BY <1>2 DEF Handled
  <2>2. Listed'
    BY <1>2, <1>7, <2>1, ListedKept DEF SendsGoOn
  <2> QED
    BY <2>2
<1>9. ASSUME NEW b \in Actors, Woken(b)
      PROVE  Woken(b)' \/ (b = a /\ (k = 0 \/ \E j \in (k + 1)..p : stack'[a][j].waited))
  <2>0. p = 0 => k = 0
    BY <1>1
  <2>1. SUFFICES ASSUME ~(b = a /\ (k = 0 \/ \E j \in (k + 1)..p : stack'[a][j].waited))
                 PROVE  Woken(b)'
    OBVIOUS
  <2>2. signaled[b] => signaled'[b]
    BY <1>1, <2>0, <2>1 DEF WakeUps
  <2>3. ASSUME NEW m, InSend(b, m), b \in Outsiders PROVE InSend(b, m)'
    <3>1. b = a => p # k
      <4>1. b = a => n = 1
        BY <1>1, <1>2, <2>3, Below
      <4>2. b = a => k = 0
        BY <1>21, <4>1
      <4> QED
        BY <2>1, <4>2
    <3> QED
      BY <1>6, <2>3, <3>1
  <2>4. At(a, "s_wakeup") /\ Top(a).peer = b => signaled'[b]
    BY <1>1 DEF At, WakeUps
  <2>5. At(a, "rs_wake") /\ Top(a).peer = b
          /\ ~Gone([m |-> Top(a).m, thread |-> b]) => signaled'[b]
    BY <1>1 DEF At, WakeUps
  <2> QED
    BY <1>1, <1>2, <1>9, <2>2, <2>3, <2>4, <2>5, WokenKept
<1>10. \A m \in ready' : fate'[m] \in {"done", "cleared"}
  <2>1. pc = "rs_ready" => fate[f.m] = "done"
    <3>1. pc = "rs_ready" => HandlingOK(a, n)
      BY <1>1, <1>2 DEF Handled
    <3> QED
      BY <1>1, <3>1 DEF HandlingOK
  <2> QED
    BY <1>2, <2>1 DEF Handled, SendReady
<1>11. ASSUME NEW b \in Actors, NEW i \in 1..Len(stack[b]), stack[b][i].m \in ready' \ ready
       PROVE  /\ stack[b][i].pc = "s_wait" => Woken(b)'
              /\ stack[b][i].pc = "rs_ready" => b = a /\ i > k
  <2>1. pc = "rs_ready" /\ stack[b][i].m = f.m
    BY <1>11 DEF SendReady
  <2>2. HandlingOK(a, n)
    BY <1>1, <1>2, <2>1 DEF Handled
  <2>3. f.m \in Msgs /\ f.peer \in Actors /\ InSend(f.peer, f.m)
    BY <1>1, <2>1, <2>2 DEF HandlingOK, Innermost, FrameOK
  <2>4. stack[b][i].pc = "rs_ready" => b = a /\ i > k
    <3>1. stack[b][i].pc = "rs_ready" => b = a /\ i = n
      <4>1. stack[a][n].pc = "rs_ready" /\ stack[a][n].m = stack[b][i].m
        BY <1>1, <2>1
      <4> QED
        BY <1>1, <1>2, <4>1 DEF Handled
    <3> QED
      BY <1>1, <3>1
  <2>5. ASSUME stack[b][i].pc = "s_wait" PROVE Woken(b)'
    <3>1. PICK c \in Actors : c = f.peer /\ InSend(c, f.m)
      BY <2>3
    <3>2. b = f.peer
      <4>1. DOMAIN stack[c] = 1..Len(stack[c])
        BY <1>2, Typed, LenProperties
      <4>2. PICK h \in 1..Len(stack[c]) : stack[c][h].pc \in Senders /\ stack[c][h].m = f.m
        BY <3>1, <4>1 DEF InSend, Senders
      <4> QED
        BY <1>2, <2>1, <2>5, <3>1, <4>2 DEF OneMaker, Makers, Senders
    <3>3. At(a, "rs_wake")' /\ Top(a)'.peer = b /\ Top(a)'.m = f.m
      BY <1>1, <2>1, <3>2, TopAfter DEF SendReady
    <3>4. InSend(b, f.m)'
      BY <1>1, <1>6, <1>11, <2>1, <2>3, <3>2
    <3>5. ~Gone([m |-> Top(a).m, thread |-> b])'
      BY <3>3, <3>4 DEF Gone
    <3> QED
      BY <3>3, <3>5 DEF Woken
  <2> QED
    BY <2>4, <2>5
<1>12. \A i \in (k + 1)..p : WaitOK(a, i)' /\ stack'[a][i].pc # "rs_ready"
  <2> SUFFICES ASSUME NEW i \in n..p PROVE WaitOK(a, i)' /\ stack'[a][i].pc # "rs_ready"
    BY <1>1
  <2>1. stack'[a][i].pc # "rs_ready"
    BY DEF NewFrames
  <2>2. stack'[a][i].pc = "s_wait" => stack'[a][i].m \notin ready'
    BY DEF Makers, NewFrames
  <2>3. stack'[a][i].pc = "s_wait" /\ a \in Threads => Looks(a, i)'
    BY <1>1 DEF Looks, NewFrames
  <2> QED
    BY <2>1, <2>2, <2>3 DEF WaitOK
<1>13. a \in Threads => SleepOK(a)'
  <2> SUFFICES ASSUME a \in Threads, Len(stack'[a]) = 1 PROVE SleepOK(a)'
    BY DEF SleepOK
  <2>1. n >= 2 /\ stack[a][1].pc = "get_queue"
    BY <1>1, <1>2, Below
  <2>6. p = 1 /\ k <= p
    BY <1>1
  <2>2. p = 1 /\ n = 2 /\ k = 1
    BY <1>21, <2>1, <2>6
  <2>4. stack'[a][1].pc = "get_queue"
    BY <1>1, <2>1, <2>2 DEF Becomes
  <2>3. pc \in Receives
    <3>1. Len(stack[a]) > 1 => stack[a][2].pc \in Receives
      BY <1>2 DEF Shape
    <3> QED
      BY <1>1, <2>2, <3>1
  <2>5. sendlist[a] = <<>>
    BY <1>1, <2>2, <2>3 DEF WakeUps
  <2> QED
    BY <2>4, <2>5 DEF SleepOK
<1>14. \A j \in (k + 1)..Len(stack[a]) :
           /\ stack[a][j].waited =>
                Woken(a)' \/ k = 0 \/ \E h \in (k + 1)..p : stack'[a][h].waited
           /\ stack[a][j].pc \in Receives =>
                \/ sendlist'[a] = <<>> \/ Woken(a)'
                \/ \E h \in (k + 1)..p : stack'[a][h].pc \in Receives \/ stack'[a][h].waited
  <2>1. p = 0 => k = 0
    BY <1>1
  <2> QED
    BY <1>1, <1>20, <2>1 DEF Woken, WakeUps
<1>15. \A m \in Msgs : fate'[m] = fate[m]
  OBVIOUS
<1>16. k # Len(stack[a]) /\ stack[a][k + 1].pc # "run"
  <2>1. stack[a][n].pc # "run"
    BY <1>1
  <2> QED
    BY <1>21, <1>22, <2>1
<1>17. \A q \in Threads : sendlist'[q] = sendlist[q] /\ msgq'[q] = msgq[q] /\ fStop'[q] = fStop[q]
  OBVIOUS
<1>18. Parts /\ (fate' = fate)
  OBVIOUS
<1>23. \A m \in Msgs : fate[m] \in {"running", "done"} =>
         fate'[m] \in {"running", "done"} /\ (fate[m] = "done" => fate'[m] = "done")
  BY <1>18
<1>24. \A i \in (k + 1)..p :
         /\ WaitOK(a, i)'
         /\ stack'[a][i].pc = "rs_ready" =>
              /\ HandlingOK(a, i)'
              /\ \A j \in (k + 1)..p : stack'[a][j].pc = "rs_ready" => i = j
              /\ \A b \in Actors : \A j \in 1..Len(stack[b]) :
                   stack[b][j].pc = "rs_ready" => stack[b][j].m # stack'[a][i].m
  BY <1>12
<1>25. /\ k < Len(stack[a]) /\ k < p => stack[a][k + 1].pc # "run"
       /\ k = Len(stack[a]) /\ 0 < k /\ k < p => stack[a][k].pc # "rs_ready"
       /\ k = p /\ k < Len(stack[a]) /\ stack[a][k + 1].pc = "run" /\ stack[a][k + 1].m \in Msgs
           => fate'[stack[a][k + 1].m] = "done"
  BY <1>16
<1>26. \A q \in Threads :
         /\ sendlist'[q] # <<>> => sendlist[q] # <<>> \/ Woken(q)'
         /\ msgq'[q] # <<>> => msgq[q] # <<>> \/ Woken(q)'
         /\ fStop'[q] => fStop[q] \/ Woken(q)'
  BY <1>17
<1>27. Becomes(a, k, p)
  BY <1>1
<1>28. Runs'
  <2>1. \A i \in (k + 1)..p : stack'[a][i].pc # "run"
    BY <1>21 DEF NewFrames
  <2>2. \A m \in Msgs : fate[m] = "running" => fate'[m] = "running"
    BY <1>18
  <2>3. Runs
    BY DEF Parts
  <2> QED
    BY <1>2, <1>27, <2>1, <2>2, <2>3, RunsKept
<1> QED
  BY <1>3, <1>4, <1>5, <1>7, <1>8, <1>9, <1>10, <1>11, <1>13, <1>14, <1>23, <1>24, <1>25,
     <1>26, <1>27, <1>28, Keeps

\* The frames that a Call puts on the stack.
LEMMA OneFrame ==
  ASSUME NEW g \in Frames
  PROVE  <<g>> \in Seq(Frames) /\ Len(<<g>>) = 1 /\ <<g>>[1] = g
OBVIOUS

LEMMA TwoFrames ==
  ASSUME NEW g \in Frames, NEW h \in Frames
  PROVE  \E fs \in Seq(Frames) : fs = <<g, h>> /\ Len(fs) = 2 /\ fs[1] = g /\ fs[2] = h
<1> DEFINE u == <<g, h>>
<1>1. u \in Seq(Frames) /\ Len(u) = 2 /\ u[1] = g /\ u[2] = h
  OBVIOUS
<1> QED
  BY <1>1

LEMMA Frames1Plus ==
  ASSUME NEW g \in Frames, NEW fs \in Seq(Frames)
  PROVE  /\ <<g>> \o fs \in Seq(Frames) /\ Len(<<g>> \o fs) = 1 + Len(fs)
         /\ Len(fs) \in Nat /\ (<<g>> \o fs)[1] = g
         /\ \A i \in 1..Len(fs) : (<<g>> \o fs)[1 + i] = fs[i]
<1> PICK s \in Seq(Frames) : s = <<g>> /\ Len(s) = 1 /\ s[1] = g
  BY OneFrame
<1>1. /\ s \o fs \in Seq(Frames) /\ Len(s \o fs) = 1 + Len(fs) /\ Len(fs) \in Nat
      /\ \A i \in 1..(1 + Len(fs)) : (s \o fs)[i] = IF i <= 1 THEN s[i] ELSE fs[i - 1]
  BY ConcatProperties, LenProperties
<1>2. 1 \in 1..(1 + Len(fs)) /\ \A i \in 1..Len(fs) : 1 + i \in 1..(1 + Len(fs)) /\ ~(1 + i <= 1)
  BY <1>1
<1>3. \A i \in 1..Len(fs) : 1 + i - 1 = i
  OBVIOUS
<1> QED
  BY <1>1, <1>2, <1>3

LEMMA CallStep ==
  ASSUME NEW a \in Actors, NEW pc, NEW n \in Nat \ {0}, NEW f, Innermost(a, pc, n, f),
         NEW fs \in Seq(Frames), Call(a, fs)
  PROVE  /\ Len(fs) \in Nat /\ Becomes(a, n - 1, n - 1 + Len(fs))
         /\ \A i \in 1..Len(fs) : stack'[a][n - 1 + i] = fs[i]
BY CallBecomes DEF Innermost

-------------------------------------------------------------------------------
\* The steps of Thread::Send.
LEMMA SendPushKeeps ==
  ASSUME Parts, NEW a \in Actors, SendPush(a)
  PROVE  SendInv' /\ SendsGoOn
<1>1. PICK n \in Nat \ {0}, f \in Frames : Innermost(a, "s_push", n, f)
  BY InnermostIs DEF SendPush
<1>2. /\ f = Top(a) /\ f = stack[a][n] /\ n = Len(stack[a]) /\ f.pc = "s_push"
      /\ f.m \in Msgs /\ f.peer \in Threads /\ f.waited = FALSE
  BY <1>1 DEF Innermost, FrameOK, Makers, Frames
<1>3. PICK g \in Frames : /\ Goto(a, g) /\ g.pc = "s_wakeup" /\ g.m = f.m
                          /\ g.peer = f.peer /\ g.waited = FALSE
  <2>1. Goto(a, [f EXCEPT !.pc = "s_wakeup"]) /\ "s_wakeup" \in PCs
    BY <1>2 DEF SendPush, PCs
  <2>2. PICK g \in Frames : /\ g = [f EXCEPT !.pc = "s_wakeup"] /\ g.pc = "s_wakeup"
                            /\ g.m = f.m /\ g.peer = f.peer /\ g.waited = f.waited
    BY <2>1, FrameMoves
  <2> QED
    BY <1>2, <2>1, <2>2
<1>4. Becomes(a, n - 1, n) /\ stack'[a][n] = g
  BY <1>1, <1>3, GotoStep
<1>5. /\ sendlist' = [sendlist EXCEPT ![f.peer] = Append(@, [m |-> f.m, thread |-> a])]
      /\ hasSends' = [hasSends EXCEPT ![f.peer] = TRUE]
      /\ fate' = [fate EXCEPT ![f.m] = "sent"]
      /\ UNCHANGED <<msgq, fStop, signaled, ready>>
  BY <1>2 DEF SendPush
<1>6. fate[f.m] = "sending"
  BY <1>2 DEF Parts, OneMaker
<1>7. (n - 1) + 1 = n /\ \A i \in n..n : i = n
  OBVIOUS
<1>8. TypeOK'
  <2>1. [m |-> f.m, thread |-> a] \in Entries
    BY <1>2 DEF Entries
  <2>2. stack' \in [Actors -> Seq(Frames)]
    BY <1>4 DEF Becomes
  <2>3. sendlist \in [Threads -> Seq(Entries)]
    BY Typed DEF Parts
  <2>4. sendlist' \in [Threads -> Seq(Entries)]
    BY <1>2, <1>5, <2>1, <2>3, AppendTo
  <2> QED
    BY <1>2, <1>5, <2>2, <2>4 DEF Parts, TypeOK, Frames, Entries, Fates
<1>9. Shape'
  <2>1. FrameOK(g) /\ g.pc \notin Loops \cup {"join"} /\ g.pc \in Makers
    BY <1>2, <1>3 DEF FrameOK, Makers, Loops
  <2>2. a \in Outsiders => n = 1
    BY <1>1, <1>2, Below DEF Parts, Innermost, Loops
  <2>3. At(a, "s_push") /\ "s_push" \notin Loops /\ "s_push" \notin Receives
    BY <1>1 DEF Innermost, Loops, Receives
  <2>4. TypeOK /\ Shape
    BY DEF Parts
  <2>5. Becomes(a, Len(stack[a]) - 1, n) /\ \A i \in Len(stack[a])..n : i = n
    BY <1>2, <1>4, <1>7
  <2>6. Len(stack[a]) = n /\ (a \in Outsiders => n <= 1)
    BY <1>2, <2>2
  <2> QED
    BY <1>2, <1>4, <2>1, <2>3, <2>4, <2>5, <2>6, ShapeKept
<1>10. OneMaker'
  <2>1. \A i \in ((n - 1) + 1)..n : stack'[a][i].pc \in Makers =>
           /\ i <= Len(stack[a]) /\ stack[a][i].pc \in Makers
           /\ stack'[a][i].m = stack[a][i].m
           /\ stack'[a][i].pc \notin {"s_push", "p_push"}
           /\ stack'[a][i].pc = "s_rewake" => stack[a][i].m \in ready'
    BY <1>2, <1>3, <1>4, <1>7 DEF Makers
  <2>2. ASSUME NEW b \in Actors, NEW i \in 1..Len(stack[b]), stack[b][i].pc \in Makers
        PROVE  /\ fate'[stack[b][i].m] # "unused"
               /\ b # a \/ i <= n - 1 =>
                    /\ stack[b][i].pc \in {"s_push", "p_push"} => fate'[stack[b][i].m] = "sending"
                    /\ stack[b][i].pc = "s_rewake" => stack[b][i].m \in ready'
    <3>1. stack[b][i].m \in Msgs
      BY <2>2 DEF Parts, FrameOK
    <3>2. b # a \/ i # n => stack[b][i].m # f.m
      BY <1>2, <2>2 DEF Parts, OneMaker, Makers
    <3>3. fate'[stack[b][i].m] = IF stack[b][i].m = f.m THEN "sent" ELSE fate[stack[b][i].m]
      BY <1>5, <3>1, Typed DEF Parts
    <3>4. /\ fate[stack[b][i].m] # "unused"
          /\ stack[b][i].pc \in {"s_push", "p_push"} => fate[stack[b][i].m] = "sending"
          /\ stack[b][i].pc = "s_rewake" => stack[b][i].m \in ready
      BY <2>2 DEF Parts, OneMaker
    <3> QED
      BY <1>2, <1>5, <3>2, <3>3, <3>4
  <2> QED
    BY <1>4, <2>1, <2>2, MakerKept DEF Parts
<1>11. \A b \in Actors : \A m : InSend(b, m) => InSend(b, m)'
  BY <1>2, <1>4, <1>7, InSendKept DEF Parts, Senders
<1>12. InSend(a, f.m)'
  <2>1. n \in 1..Len(stack'[a]) /\ stack'[a] \in Seq(Frames)
    BY <1>4 DEF Becomes
  <2> QED
    BY <1>3, <1>4, <2>1 DEF InSend
<1>13. Listed'
  <2>1. /\ Len(sendlist[f.peer]) \in Nat
        /\ Len(sendlist'[f.peer]) = Len(sendlist[f.peer]) + 1
        /\ sendlist'[f.peer][Len(sendlist[f.peer]) + 1] = [m |-> f.m, thread |-> a]
        /\ \A i \in 1..Len(sendlist[f.peer]) : sendlist'[f.peer][i] = sendlist[f.peer][i]
        /\ \A q \in Threads \ {f.peer} : sendlist'[q] = sendlist[q]
    BY <1>2, <1>5, Typed, AppendTo DEF Parts
  <2>2. ASSUME NEW q \in Threads, NEW i \in 1..Len(sendlist'[q])
        PROVE  \/ i \in 1..Len(sendlist[q]) /\ sendlist'[q][i] = sendlist[q][i]
               \/ /\ q = f.peer /\ i = Len(sendlist[q]) + 1
                  /\ sendlist'[q][i] = [m |-> f.m, thread |-> a]
    BY <2>1
  <2>3. ASSUME NEW m \in Msgs
        PROVE  fate'[m] = IF m = f.m THEN "sent" ELSE fate[m]
    BY <1>5, Typed DEF Parts
  <2>4. ASSUME NEW q \in Threads, NEW i \in 1..Len(sendlist[q])
        PROVE  /\ sendlist[q][i].m \in Msgs /\ sendlist[q][i].thread \in Actors
               /\ fate[sendlist[q][i].m] = "sent" /\ sendlist[q][i].m # f.m
               /\ InSend(sendlist[q][i].thread, sendlist[q][i].m)
    <3>1. sendlist[q] \in Seq(Entries)
      BY Typed DEF Parts
    <3>2. sendlist[q][i] \in Entries
      BY <3>1, ElementOfSeq
    <3>3. EntryOK(q, i)
      BY DEF Parts, Listed, SentOnce
    <3> QED
      BY <1>6, <3>2, <3>3 DEF Entries, EntryOK
  <2>5. ASSUME NEW q \in Threads, NEW i \in 1..Len(sendlist'[q])
        PROVE  EntryOK(q, i)'
    <3>1. PICK b \in Actors, m \in Msgs :
            /\ b = sendlist'[q][i].thread /\ m = sendlist'[q][i].m
            /\ fate'[m] = "sent" /\ InSend(b, m)'
      <4>1. CASE i \in 1..Len(sendlist[q]) /\ sendlist'[q][i] = sendlist[q][i]
        <5>1. PICK b \in Actors, m \in Msgs :
                /\ b = sendlist[q][i].thread /\ m = sendlist[q][i].m
                /\ fate[m] = "sent" /\ m # f.m /\ InSend(b, m)
          BY <2>4, <4>1
        <5> QED
          BY <1>11, <2>3, <4>1, <5>1
      <4>2. CASE sendlist'[q][i] = [m |-> f.m, thread |-> a]
        <5>1. a = sendlist'[q][i].thread /\ f.m = sendlist'[q][i].m
          BY <4>2
        <5> QED
          BY <1>2, <1>12, <2>3, <5>1
      <4> QED
        BY <2>2, <4>1, <4>2
    <3> QED
      BY <3>1 DEF EntryOK, InSend
  <2>6. ASSUME NEW q \in Threads, NEW r \in Threads,
               NEW i \in 1..Len(sendlist'[q]), NEW j \in 1..Len(sendlist'[r]),
               sendlist'[q][i].m = sendlist'[r][j].m
        PROVE  q = r /\ i = j
    <3>1. CASE /\ i \in 1..Len(sendlist[q]) /\ sendlist'[q][i] = sendlist[q][i]
               /\ j \in 1..Len(sendlist[r]) /\ sendlist'[r][j] = sendlist[r][j]
      BY <2>6, <3>1 DEF Parts, Listed, SentOnce
    <3>2. CASE /\ q = f.peer /\ i = Len(sendlist[q]) + 1
               /\ sendlist'[q][i] = [m |-> f.m, thread |-> a]
      <4>1. sendlist'[q][i].m = f.m
        BY <3>2
      <4>2. ~(j \in 1..Len(sendlist[r]) /\ sendlist'[r][j] = sendlist[r][j])
        BY <2>4, <2>6, <4>1
      <4> QED
        BY <2>2, <3>2, <4>2
    <3>3. CASE /\ r = f.peer /\ j = Len(sendlist[r]) + 1
               /\ sendlist'[r][j] = [m |-> f.m, thread |-> a]
      <4>1. sendlist'[r][j].m = f.m
        BY <3>3
      <4>2. ~(i \in 1..Len(sendlist[q]) /\ sendlist'[q][i] = sendlist[q][i])
        BY <2>4, <2>6, <4>1
      <4> QED
        BY <2>2, <3>3, <4>2
    <3> QED
      BY <2>2, <3>1, <3>2, <3>3
  <2>7. SentOnce'
    BY <2>5, <2>6 DEF SentOnce
  <2>8. PostedOnce'
    <3>1. ASSUME NEW q \in Threads, NEW i \in 1..Len(msgq[q])
          PROVE  fate'[msgq[q][i]] = "posted"
      <4>1. msgq[q][i] \in Msgs /\ fate[msgq[q][i]] = "posted"
        BY Typed DEF Parts, Listed, PostedOnce
      <4> QED
        BY <1>6, <2>3, <4>1
    <3> QED
      BY <1>5, <3>1 DEF Parts, Listed, PostedOnce
  <2> QED
    BY <2>7, <2>8 DEF Listed
<1>14. \A m \in Msgs : fate'[m] = fate[m] \/ fate[m] = "sending"
  BY <1>5, <1>6, Typed DEF Parts
<1>15. \A b \in Actors : Woken(b) => Woken(b)'
  BY <1>1, <1>4, <1>5, <1>11, WokenKept DEF Parts, Innermost, At
<1>16. Woken(f.peer)'
  <2>1. At(a, "s_wakeup")' /\ Top(a)'.peer = f.peer
    BY <1>3, <1>4, TopAfter
  <2> QED
    BY <2>1 DEF Woken
<1>17. Known'
  BY <1>2, <1>5, Typed DEF Parts, Known
<1>18. \A m \in ready' : fate'[m] \in {"done", "cleared"}
  <2>1. \A m \in ready : m \in Msgs /\ fate[m] \in {"done", "cleared"}
    BY Typed DEF Parts, Handled
  <2> QED
    BY <1>5, <1>14, <2>1
<1>19. \A i \in ((n - 1) + 1)..n : stack'[a][i].pc \notin {"s_wait", "rs_ready"}
  BY <1>3, <1>4, <1>7
<1>20. \A j \in ((n - 1) + 1)..Len(stack[a]) :
         ~stack[a][j].waited /\ stack[a][j].pc \notin Receives
  BY <1>2, <1>7 DEF Receives
<1>21. \A q \in Threads :
         /\ sendlist'[q] # <<>> => sendlist[q] # <<>> \/ Woken(q)'
         /\ msgq' = msgq /\ fStop' = fStop
  BY <1>2, <1>5, <1>16, Typed DEF Parts
<1>22. a \in Threads => SleepOK(a)'
  <2>1. a \in Threads => Len(stack'[a]) # 1
    BY <1>1, <1>2, <1>4, Below DEF Parts, Innermost, Loops, Becomes
  <2> QED
    BY <2>1 DEF SleepOK
<1>24. Runs'
  <2>1. \A i \in ((n - 1) + 1)..n : stack'[a][i].pc # "run"
    BY <1>3, <1>4, <1>7
  <2>2. \A m \in Msgs : fate[m] = "running" => fate'[m] = "running"
    BY <1>14
  <2> QED
    BY <1>4, <2>1, <2>2, RunsKept DEF Parts
<1>23. SendsGoOn
  BY <1>11 DEF SendsGoOn
<1> QED
  BY <1>2, <1>4, <1>5, <1>7, <1>8, <1>9, <1>10, <1>11, <1>13, <1>14, <1>15, <1>17, <1>18,
     <1>19, <1>20, <1>21, <1>22, <1>23, <1>24, Keeps DEF WaitOK

LEMMA SendWakeUpKeeps ==
  ASSUME Parts, NEW a \in Actors, SendWakeUp(a)
  PROVE  SendInv' /\ SendsGoOn
<1> DEFINE pc == "s_wakeup"
<1> HIDE DEF pc
<1>1. PICK n \in Nat \ {0}, f \in Frames : Innermost(a, pc, n, f)
  BY InnermostIs DEF SendWakeUp, pc
<1>2. /\ f = Top(a) /\ f.m \in Msgs /\ f.peer \in Threads /\ f.waited = FALSE
  BY <1>1 DEF Innermost, FrameOK, Makers, Frames, pc
<1>3. PICK g \in Frames : Goto(a, g) /\ g.pc = "s_check" /\ g.m = f.m /\ g.waited = FALSE
  <2>1. PICK g \in Frames : /\ g = Frame("s_check", f.m, None, FALSE)
                            /\ g.pc = "s_check" /\ g.m = f.m /\ g.waited = FALSE
    <3> DEFINE h == Frame("s_check", f.m, None, FALSE)
    <3>1. h \in Frames /\ h.pc = "s_check" /\ h.m = f.m /\ h.waited = FALSE
      BY <1>2 DEF Frame, Frames, PCs
    <3> QED
      BY <3>1
  <2>2. Goto(a, g)
    BY <1>2, <2>1 DEF SendWakeUp, Goto, Frame
  <2> QED
    BY <2>1, <2>2
<1>4. Becomes(a, n - 1, n) /\ stack'[a][n] = g
  BY <1>1, <1>3, GotoStep
<1>5. /\ signaled' = [signaled EXCEPT ![f.peer] = TRUE]
      /\ UNCHANGED <<sendlist, hasSends, msgq, fStop, ready, fate>>
  BY <1>2 DEF SendWakeUp
<1>6. \A i \in n..n : i = n
  OBVIOUS
<1>7. NewFrames(a, pc, n, f, n)
  <2>1. FrameOK(g) /\ g.pc \in Makers /\ g.pc \notin Loops
    BY <1>2, <1>3 DEF FrameOK, Makers, Loops
  <2>2. a \in Outsiders => n <= 1
    BY <1>1, Below DEF Parts, Innermost, Loops, pc
  <2> QED
    BY <1>3, <1>4, <1>6, <2>1, <2>2 DEF NewFrames, Makers, Receives, pc
<1>8. SendReturns(a, pc, n, f, n) /\ SendReady(a, pc, n, f, n)
  BY <1>3, <1>4, <1>5 DEF SendReturns, SendReady, Senders, pc
<1>9. WakeUps(a, pc, n, f, n)
  BY <1>2, <1>5, Typed DEF WakeUps, Parts, Actors, Receives, pc
<1>10. /\ signaled' \in [Actors -> BOOLEAN] /\ ready' \in SUBSET Msgs
       /\ hasSends' \in [Threads -> BOOLEAN] /\ Known'
  BY <1>2, <1>5, Typed DEF Parts, Actors, Known
<1>11. pc \notin Loops /\ pc \notin {"run", "join"}
  BY DEF Loops, pc
<1> QED
  BY <1>1, <1>4, <1>5, <1>7, <1>8, <1>9, <1>10, <1>11, Quiet
LEMMA SendCheckKeeps ==
  ASSUME Parts, NEW a \in Actors, SendCheck(a)
  PROVE  SendInv' /\ SendsGoOn
<1> DEFINE pc == "s_check"
<1> HIDE DEF pc
<1>1. PICK n \in Nat \ {0}, f \in Frames : Innermost(a, pc, n, f)
  BY InnermostIs DEF SendCheck, pc
<1>2. /\ f = Top(a) /\ f.m \in Msgs /\ f.pc = "s_check" /\ n \in Nat
      /\ a \in Outsiders => n = 1 /\ a \notin Threads
      /\ a \notin Outsiders => a \in Threads
  <2>1. f = Top(a) /\ f.m \in Msgs /\ f.pc = "s_check"
    BY <1>1 DEF Innermost, FrameOK, Makers, pc
  <2>2. a \in Outsiders => n = 1
    BY <1>1, Below DEF Parts, Innermost, Loops, pc
  <2> QED
    BY <2>1, <2>2, ThreadSendAssumption DEF Actors
<1>3. UNCHANGED <<sendlist, hasSends, msgq, fStop, fate>>
  BY DEF SendCheck
<1>4. pc \notin Loops /\ pc \notin {"run", "join"}
  BY DEF Loops, pc
<1>5. hasSends' \in [Threads -> BOOLEAN] /\ Known'
  BY <1>3, Typed DEF Parts, Known
<1>6. ASSUME NEW g \in Frames, g.m = f.m, g.waited = f.waited,
             g.pc \in {"s_wait", "s_rewake"}
      PROVE  FrameOK(g) /\ g.pc \in Makers /\ g.pc \in Senders /\ g.pc \notin Loops
  BY <1>2, <1>6 DEF FrameOK, Makers, Senders, Loops
<1>7. CASE f.m \notin ready
  <2>1. PICK g \in Frames : /\ g = [f EXCEPT !.pc = "s_wait"] /\ g.pc = "s_wait"
                            /\ g.m = f.m /\ g.waited = f.waited
    BY FrameMoves DEF PCs
  <2> DEFINE rest == IF a \in Threads THEN <<Receiving>> ELSE <<>>
  <2>2. UNCHANGED <<signaled, ready>> /\ Call(a, <<g>> \o rest)
    BY <1>2, <1>7, <2>1 DEF SendCheck
  <2>3. signaled' \in [Actors -> BOOLEAN] /\ ready' \in SUBSET Msgs
    BY <2>2, Typed DEF Parts
  <2>4. CASE a \in Threads
    <3>1. PICK h \in Frames : h = Receiving /\ h.pc = "rs_test" /\ ~h.waited
      <4>1. Receiving \in Frames /\ Receiving.pc = "rs_test" /\ ~Receiving.waited
        BY DEF Receiving, Frame, Frames, PCs
      <4> QED
        BY <4>1
    <3>2. Call(a, <<g>> \o <<h>>)
      <4>1. rest = <<h>>
        BY <2>4, <3>1
      <4> HIDE DEF rest
      <4> QED
        BY <2>2, <4>1
    <3>3. PICK s \in Seq(Frames) : s = <<h>> /\ Len(s) = 1 /\ s[1] = h
      BY OneFrame
    <3>4. PICK fs \in Seq(Frames) : /\ fs = <<g>> \o <<h>> /\ Len(fs) = 2
                                    /\ fs[1] = g /\ fs[2] = h
      <4> DEFINE u == <<g>> \o s
      <4>1. /\ u \in Seq(Frames) /\ Len(u) = 1 + Len(s) /\ u[1] = g
            /\ \A i \in 1..Len(s) : u[1 + i] = s[i]
        BY Frames1Plus
      <4>2. u = <<g>> \o <<h>>
        BY <3>3
      <4> HIDE DEF u
      <4>3. Len(u) = 2 /\ u[2] = h
        BY <3>3, <4>1
      <4> QED
        BY <4>1, <4>2, <4>3
    <3>5. Becomes(a, n - 1, n + 1) /\ stack'[a][n] = g /\ stack'[a][n + 1] = h
      <4>1. Call(a, fs)
        BY <3>2, <3>4
      <4>2. /\ Becomes(a, n - 1, n - 1 + Len(fs))
            /\ \A i \in 1..Len(fs) : stack'[a][n - 1 + i] = fs[i]
        BY <1>1, <4>1, CallStep
      <4>3. n - 1 + 2 = n + 1 /\ n - 1 + 1 = n
        OBVIOUS
      <4> QED
        BY <3>4, <4>2, <4>3
    <3>6. \A i \in n..(n + 1) : i = n \/ i = n + 1
      OBVIOUS
    <3>7. n \in n..(n + 1) /\ n + 1 \in n..(n + 1) /\ n < n + 1 /\ n <= n + 1
      OBVIOUS
    <3>8. /\ FrameOK(g) /\ g.pc \in Makers /\ g.pc \in Senders /\ g.pc \notin Loops
          /\ FrameOK(h) /\ h.pc \notin Makers /\ h.pc \notin Loops /\ h.pc \in Receives
      BY <1>6, <2>1, <3>1 DEF FrameOK, Makers, Loops, Receives
    <3>9. NewFrames(a, pc, n, f, n + 1)
      BY <1>2, <1>7, <2>1, <2>2, <2>4, <3>1, <3>5, <3>6, <3>7, <3>8
         DEF NewFrames, Receives, Makers, pc
    <3>10. SendReturns(a, pc, n, f, n + 1) /\ SendReady(a, pc, n, f, n + 1)
      BY <2>1, <2>2, <3>5, <3>7, <3>8 DEF SendReturns, SendReady, pc
    <3>11. WakeUps(a, pc, n, f, n + 1)
      BY <2>1, <2>2, <3>5, <3>7 DEF WakeUps, Receives, pc
    <3> QED
      BY <1>1, <1>3, <1>4, <1>5, <2>3, <3>5, <3>9, <3>10, <3>11, Quiet
  <2>5. CASE a \notin Threads
    <3>1. Call(a, <<g>> \o <<>>)
      <4>1. rest = <<>>
        BY <2>5
      <4> HIDE DEF rest
      <4> QED
        BY <2>2, <4>1
    <3>2. PICK s \in Seq(Frames) : s = <<>> /\ Len(s) = 0
      BY EmptySeq
    <3>3. PICK fs \in Seq(Frames) : /\ fs = <<g>> \o <<>> /\ Len(fs) = 1 /\ fs[1] = g
      <4> DEFINE u == <<g>> \o s
      <4>1. u \in Seq(Frames) /\ Len(u) = 1 + Len(s) /\ u[1] = g
        BY Frames1Plus
      <4>2. u = <<g>> \o <<>>
        BY <3>2
      <4> HIDE DEF u
      <4>3. Len(u) = 1
        BY <3>2, <4>1
      <4> QED
        BY <4>1, <4>2, <4>3
    <3>4. Becomes(a, n - 1, n) /\ stack'[a][n] = g
      <4>1. Call(a, fs)
        BY <3>1, <3>3
      <4>2. /\ Becomes(a, n - 1, n - 1 + Len(fs))
            /\ \A i \in 1..Len(fs) : stack'[a][n - 1 + i] = fs[i]
        BY <1>1, <4>1, CallStep
      <4>3. n - 1 + 1 = n
        OBVIOUS
      <4> QED
        BY <3>3, <4>2, <4>3
    <3>5. \A i \in n..n : i = n
      OBVIOUS
    <3>6. n \in n..n /\ n <= n
      OBVIOUS
    <3>7. FrameOK(g) /\ g.pc \in Makers /\ g.pc \in Senders /\ g.pc \notin Loops
      BY <1>6, <2>1
    <3>8. NewFrames(a, pc, n, f, n)
      BY <1>2, <1>7, <2>1, <2>2, <2>5, <3>4, <3>5, <3>6, <3>7
         DEF NewFrames, Receives, Makers, pc
    <3>9. SendReturns(a, pc, n, f, n) /\ SendReady(a, pc, n, f, n)
      BY <2>1, <2>2, <3>4, <3>6, <3>7 DEF SendReturns, SendReady, pc
    <3>10. WakeUps(a, pc, n, f, n)
      BY <2>1, <2>2, <3>4, <3>6 DEF WakeUps, Receives, pc
    <3> QED
      BY <1>1, <1>3, <1>4, <1>5, <2>3, <3>4, <3>8, <3>9, <3>10, Quiet
  <2> QED
    BY <2>4, <2>5
<1>8. CASE f.m \in ready /\ f.waited
  <2>1. PICK g \in Frames : /\ g = [f EXCEPT !.pc = "s_rewake"] /\ g.pc = "s_rewake"
                            /\ g.m = f.m /\ g.waited = f.waited
    BY FrameMoves DEF PCs
  <2>2. Goto(a, g) /\ UNCHANGED <<signaled, ready>>
    BY <1>2, <1>8, <2>1 DEF SendCheck, Goto
  <2>3. signaled' \in [Actors -> BOOLEAN] /\ ready' \in SUBSET Msgs
    BY <2>2, Typed DEF Parts
  <2>4. Becomes(a, n - 1, n) /\ stack'[a][n] = g
    BY <1>1, <2>2, GotoStep
  <2>5. (\A i \in n..n : i = n) /\ n \in n..n /\ n <= n
    OBVIOUS
  <2>6. FrameOK(g) /\ g.pc \in Makers /\ g.pc \in Senders /\ g.pc \notin Loops
    BY <1>6, <2>1
  <2>7. NewFrames(a, pc, n, f, n)
    BY <1>2, <1>8, <2>1, <2>2, <2>4, <2>5, <2>6 DEF NewFrames, Receives, Makers, pc
  <2>8. SendReturns(a, pc, n, f, n) /\ SendReady(a, pc, n, f, n)
    BY <2>1, <2>2, <2>4, <2>5, <2>6 DEF SendReturns, SendReady, pc
  <2>9. WakeUps(a, pc, n, f, n)
    BY <2>1, <2>2, <2>4, <2>5 DEF WakeUps, Receives, pc
  <2> QED
    BY <1>1, <1>3, <1>4, <1>5, <2>3, <2>4, <2>7, <2>8, <2>9, Quiet
<1>9. CASE f.m \in ready /\ ~f.waited
  <2>1. /\ Return(a) /\ ready' = ready \ {f.m}
        /\ signaled' = [signaled EXCEPT ![a] = @ /\ a \in Threads]
    BY <1>2, <1>9 DEF SendCheck
  <2>2. signaled' \in [Actors -> BOOLEAN] /\ ready' \in SUBSET Msgs
    BY <2>1, Typed DEF Parts
  <2>3. Becomes(a, n - 1, n - 1)
    BY <1>1, <2>1, ReturnStep
  <2>4. (\A i \in n..(n - 1) : FALSE) /\ ~(n <= n - 1) /\ (a \in Outsiders => n - 1 = 0)
    BY <1>2
  <2>5. NewFrames(a, pc, n, f, n - 1)
    BY <1>2, <2>4 DEF NewFrames
  <2>6. SendReturns(a, pc, n, f, n - 1) /\ SendReady(a, pc, n, f, n - 1)
    BY <1>9, <2>1 DEF SendReturns, SendReady, Senders, pc
  <2>7. WakeUps(a, pc, n, f, n - 1)
    <3>1. ASSUME NEW b \in Actors, signaled[b]
          PROVE  signaled'[b] \/ (b = a /\ n - 1 = 0)
      BY <1>2, <2>1, <2>4, <3>1, Typed DEF Parts
    <3> QED
      BY <1>9, <3>1 DEF WakeUps, Receives, pc
  <2> QED
    BY <1>1, <1>3, <1>4, <1>5, <2>2, <2>3, <2>5, <2>6, <2>7, Quiet
<1> QED
  BY <1>7, <1>8, <1>9

LEMMA SendWaitKeeps ==
  ASSUME Parts, NEW a \in Actors, SendWait(a)
  PROVE  SendInv' /\ SendsGoOn
<1> DEFINE pc == "s_wait"
<1> HIDE DEF pc
<1>1. PICK n \in Nat \ {0}, f \in Frames : Innermost(a, pc, n, f)
  BY InnermostIs DEF SendWait, pc
<1>2. f = Top(a) /\ f.m \in Msgs
  BY <1>1 DEF Innermost, FrameOK, Makers, pc
<1>3. PICK g \in Frames : /\ Goto(a, g) /\ g.pc = "s_check" /\ g.m = f.m /\ g.waited
                          /\ g.waited = TRUE
  <2>1. PICK g \in Frames : /\ g = Frame("s_check", f.m, None, TRUE)
                            /\ g.pc = "s_check" /\ g.m = f.m /\ g.waited = TRUE
    <3> DEFINE h == Frame("s_check", f.m, None, TRUE)
    <3>1. h \in Frames /\ h.pc = "s_check" /\ h.m = f.m /\ h.waited = TRUE
      BY <1>2 DEF Frame, Frames, PCs
    <3> QED
      BY <3>1
  <2>2. Goto(a, g)
    BY <1>2, <2>1 DEF SendWait, Goto, Frame
  <2> QED
    BY <2>1, <2>2
<1>4. Becomes(a, n - 1, n) /\ stack'[a][n] = g
  BY <1>1, <1>3, GotoStep
<1>5. /\ signaled' = [signaled EXCEPT ![a] = FALSE]
      /\ UNCHANGED <<sendlist, hasSends, msgq, fStop, ready, fate>>
  BY DEF SendWait
<1>6. (\A i \in n..n : i = n) /\ n \in n..n /\ n <= n
  OBVIOUS
<1>7. NewFrames(a, pc, n, f, n)
  <2>1. FrameOK(g) /\ g.pc \in Makers /\ g.pc \notin Loops
    BY <1>2, <1>3 DEF FrameOK, Makers, Loops
  <2>2. a \in Outsiders => n <= 1
    BY <1>1, Below DEF Parts, Innermost, Loops, pc
  <2> QED
    BY <1>3, <1>4, <1>6, <2>1, <2>2 DEF NewFrames, Makers, Receives, pc
<1>8. SendReturns(a, pc, n, f, n) /\ SendReady(a, pc, n, f, n)
  BY <1>3, <1>4, <1>5, <1>6 DEF SendReturns, SendReady, Senders, pc
<1>9. WakeUps(a, pc, n, f, n)
  <2>1. \A b \in Actors : signaled[b] => signaled'[b] \/ b = a
    BY <1>5, Typed DEF Parts
  <2>2. \E j \in n..n : stack'[a][j].waited
    BY <1>3, <1>4, <1>6
  <2> QED
    BY <2>1, <2>2 DEF WakeUps, Receives, pc
<1>10. /\ signaled' \in [Actors -> BOOLEAN] /\ ready' \in SUBSET Msgs
       /\ hasSends' \in [Threads -> BOOLEAN] /\ Known'
  BY <1>5, Typed DEF Parts, Known
<1>11. pc \notin Loops /\ pc \notin {"run", "join"}
  BY DEF Loops, pc
<1> QED
  BY <1>1, <1>4, <1>5, <1>7, <1>8, <1>9, <1>10, <1>11, Quiet

LEMMA SendRewakeKeeps ==
  ASSUME Parts, NEW a \in Actors, SendRewake(a)
  PROVE  SendInv' /\ SendsGoOn
<1> DEFINE pc == "s_rewake"
<1> HIDE DEF pc
<1>1. PICK n \in Nat \ {0}, f \in Frames : Innermost(a, pc, n, f)
  BY InnermostIs DEF SendRewake, pc
<1>2. /\ f = Top(a) /\ f.m \in ready /\ n \in Nat
      /\ a \in Outsiders => n = 1 /\ a \notin Threads
      /\ a \notin Outsiders => a \in Threads
  <2>1. f = Top(a) /\ n \in 1..Len(stack[a]) /\ f = stack[a][n] /\ f.pc = "s_rewake"
    BY <1>1 DEF Innermost, pc
  <2>2. a \in Outsiders => n = 1
    BY <1>1, Below DEF Parts, Innermost, Loops, pc
  <2>3. f.m \in ready
    BY <2>1 DEF Parts, OneMaker
  <2> QED
    BY <2>1, <2>2, <2>3, ThreadSendAssumption DEF Actors
<1>3. /\ Return(a) /\ ready' = ready \ {f.m}
      /\ signaled' = [signaled EXCEPT ![a] = a \in Threads]
      /\ UNCHANGED <<sendlist, hasSends, msgq, fStop, fate>>
  BY <1>2 DEF SendRewake
<1>4. /\ signaled' \in [Actors -> BOOLEAN] /\ ready' \in SUBSET Msgs
      /\ hasSends' \in [Threads -> BOOLEAN] /\ Known'
  BY <1>3, Typed DEF Parts, Known
<1>5. Becomes(a, n - 1, n - 1)
  BY <1>1, <1>3, ReturnStep
<1>6. (\A i \in n..(n - 1) : FALSE) /\ ~(n <= n - 1) /\ (a \in Outsiders => n - 1 = 0)
  BY <1>2
<1>7. NewFrames(a, pc, n, f, n - 1)
  BY <1>2, <1>6 DEF NewFrames
<1>8. SendReturns(a, pc, n, f, n - 1) /\ SendReady(a, pc, n, f, n - 1)
  BY <1>2, <1>3 DEF SendReturns, SendReady, Senders, pc
<1>9. WakeUps(a, pc, n, f, n - 1)
  <2>1. ASSUME NEW b \in Actors, signaled[b]
        PROVE  signaled'[b] \/ (b = a /\ n - 1 = 0)
    BY <1>2, <1>3, <1>6, <2>1, Typed DEF Parts
  <2>2. signaled'[a] \/ n - 1 = 0
    BY <1>2, <1>3, <1>6, Typed DEF Parts
  <2> QED
    BY <2>1, <2>2 DEF WakeUps, Receives, pc
<1>10. pc \notin Loops /\ pc \notin {"run", "join"}
  BY DEF Loops, pc
<1> QED
  BY <1>1, <1>3, <1>4, <1>5, <1>7, <1>8, <1>9, <1>10, Quiet

-------------------------------------------------------------------------------
\* The steps of ReceiveSends.
LEMMA ReceiveReadyKeeps ==
  ASSUME Parts, NEW a \in Threads, ReceiveReady(a)
  PROVE  SendInv' /\ SendsGoOn
<1> DEFINE pc == "rs_ready"
<1> HIDE DEF pc
<1>0. a \in Actors /\ a \notin Outsiders
  BY ThreadSendAssumption DEF Actors
<1>1. PICK n \in Nat \ {0}, f \in Frames : Innermost(a, pc, n, f)
  BY <1>0, InnermostIs DEF ReceiveReady, pc
<1>2. f = Top(a) /\ f.m \in Msgs /\ f.peer \in Actors /\ f.waited = FALSE
  BY <1>1 DEF Innermost, FrameOK, Frames, pc
<1>3. PICK g \in Frames : /\ Goto(a, g) /\ g.pc = "rs_wake" /\ g.m = f.m
                          /\ g.peer = f.peer /\ g.waited = FALSE
  <2>1. PICK g \in Frames : /\ g = [f EXCEPT !.pc = "rs_wake"] /\ g.pc = "rs_wake"
                            /\ g.m = f.m /\ g.peer = f.peer /\ g.waited = f.waited
    BY FrameMoves DEF PCs
  <2>2. Goto(a, g)
    BY <1>2, <2>1 DEF ReceiveReady, Goto
  <2> QED
    BY <1>2, <2>1, <2>2
<1>4. Becomes(a, n - 1, n) /\ stack'[a][n] = g
  BY <1>0, <1>1, <1>3, GotoStep
<1>5. ready' = ready \cup {f.m} /\ UNCHANGED <<sendlist, hasSends, msgq, fStop, signaled, fate>>
  BY <1>2 DEF ReceiveReady
<1>6. (\A i \in n..n : i = n) /\ n \in n..n /\ n <= n
  OBVIOUS
<1>7. NewFrames(a, pc, n, f, n)
  <2>1. FrameOK(g) /\ g.pc \notin Makers /\ g.pc \notin Loops
    BY <1>2, <1>3 DEF FrameOK, Makers, Loops
  <2> QED
    BY <1>0, <1>3, <1>4, <1>6, <2>1 DEF NewFrames, Makers, Receives, pc
<1>8. SendReturns(a, pc, n, f, n) /\ SendReady(a, pc, n, f, n)
  BY <1>3, <1>4, <1>5, <1>6 DEF SendReturns, SendReady, Senders, pc
<1>9. WakeUps(a, pc, n, f, n)
  BY <1>2, <1>3, <1>4, <1>5, <1>6 DEF WakeUps, Receives, pc
<1>10. /\ signaled' \in [Actors -> BOOLEAN] /\ ready' \in SUBSET Msgs
       /\ hasSends' \in [Threads -> BOOLEAN] /\ Known'
  BY <1>2, <1>5, Typed DEF Parts, Known
<1>11. pc \notin Loops /\ pc \notin {"run", "join"}
  BY DEF Loops, pc
<1> QED
  BY <1>0, <1>1, <1>4, <1>5, <1>7, <1>8, <1>9, <1>10, <1>11, Quiet

\* What ReceiveSends has done to the wake-ups when it looks at the list again.
Rewoken(pc, f) ==
  /\ signaled' \in [Actors -> BOOLEAN]
  /\ \A b \in Actors : signaled[b] => signaled'[b]
  /\ pc = "rs_wake" => signaled'[f.peer] \/ Gone([m |-> f.m, thread |-> f.peer])

LEMMA TakeNoneKeeps ==
  ASSUME Parts, NEW a \in Threads, NEW pc \in {"rs_test", "rs_wake"}, At(a, pc), Return(a),
         NEW n \in Nat \ {0}, NEW f \in Frames, Innermost(a, pc, n, f),
         Rewoken(pc, f), sendlist[a] = <<>>,
         hasSends' \in {hasSends, [hasSends EXCEPT ![a] = FALSE]},
         UNCHANGED <<sendlist, msgq, fStop, ready, fate>>
  PROVE  SendInv' /\ SendsGoOn
<1>0. a \in Actors /\ a \notin Outsiders
  BY ThreadSendAssumption DEF Actors
<1>1. f.waited = FALSE
  BY DEF Innermost, FrameOK, Frames
<1>2. Becomes(a, n - 1, n - 1)
  BY <1>0, ReturnStep
<1>3. (\A i \in n..(n - 1) : FALSE) /\ ~(n <= n - 1)
  OBVIOUS
<1>4. NewFrames(a, pc, n, f, n - 1)
  BY <1>0, <1>3 DEF NewFrames
<1>5. SendReturns(a, pc, n, f, n - 1) /\ SendReady(a, pc, n, f, n - 1)
  BY DEF SendReturns, SendReady, Senders
<1>6. WakeUps(a, pc, n, f, n - 1)
  BY <1>1 DEF WakeUps, Rewoken
<1>7. /\ signaled' \in [Actors -> BOOLEAN] /\ ready' \in SUBSET Msgs
      /\ hasSends' \in [Threads -> BOOLEAN] /\ Known'
  BY Typed DEF Parts, Known, Rewoken
<1>8. pc \notin Loops /\ pc \notin {"run", "join"}
  BY DEF Loops
<1> QED
  BY <1>0, <1>2, <1>4, <1>5, <1>6, <1>7, <1>8, Quiet

\* What a send list's entry is about.
LEMMA EntryIs ==
  ASSUME Parts, NEW q \in Threads, NEW i \in 1..Len(sendlist[q])
  PROVE  /\ sendlist[q][i] \in Entries
         /\ sendlist[q][i].m \in Msgs /\ sendlist[q][i].thread \in Actors
         /\ fate[sendlist[q][i].m] = "sent" /\ sendlist[q][i].m \notin ready
         /\ InSend(sendlist[q][i].thread, sendlist[q][i].m)
<1>1. sendlist[q] \in Seq(Entries)
  BY Typed DEF Parts
<1>2. sendlist[q][i] \in Entries
  BY <1>1, ElementOfSeq
<1>3. EntryOK(q, i) /\ \A m \in ready : fate[m] \in {"done", "cleared"}
  BY DEF Parts, Listed, SentOnce, Handled
<1> QED
  BY <1>2, <1>3 DEF Entries, EntryOK

LEMMA PostIs ==
  ASSUME Parts, NEW q \in Threads, NEW i \in 1..Len(msgq[q])
  PROVE  msgq[q][i] \in Msgs /\ fate[msgq[q][i]] = "posted"
BY Typed DEF Parts, Listed, PostedOnce

\* The entries that stay in the lists, when the fate of other messages changes.
LEMMA SentStay ==
  ASSUME Parts, SendsGoOn, NEW M, \A m \in Msgs \ M : fate'[m] = fate[m],
         \A q \in Threads : Within(sendlist'[q], sendlist[q]),
         \A q \in Threads : \A i \in 1..Len(sendlist'[q]) : sendlist'[q][i].m \notin M
  PROVE  SentOnce'
<1>1. ASSUME NEW q \in Threads, NEW i \in 1..Len(sendlist'[q])
      PROVE  EntryOK(q, i)'
  <2>1. PICK p \in 1..Len(sendlist[q]) : sendlist'[q][i] = sendlist[q][p]
    BY DEF Within
  <2>2. PICK b \in Actors, m \in Msgs : /\ b = sendlist[q][p].thread /\ m = sendlist[q][p].m
                                       /\ fate[m] = "sent" /\ m \notin ready /\ InSend(b, m)
    BY EntryIs
  <2>3. b = sendlist'[q][i].thread /\ m = sendlist'[q][i].m
    BY <2>1, <2>2
  <2>4. m \notin M
    BY <2>3
  <2>5. fate'[m] = "sent" /\ InSend(b, m)'
    BY <2>2, <2>4 DEF SendsGoOn
  <2> QED
    BY <2>3, <2>5 DEF EntryOK, InSend
<1>2. SentOnce
  BY DEF Parts, Listed
<1> QED
  BY <1>1, <1>2, SentShrinks

LEMMA PostedStay ==
  ASSUME Parts, NEW M, \A m \in Msgs \ M : fate'[m] = fate[m],
         \A q \in Threads : Within(msgq'[q], msgq[q]),
         \A q \in Threads : \A i \in 1..Len(msgq'[q]) : msgq'[q][i] \notin M
  PROVE  PostedOnce'
<1>1. ASSUME NEW q \in Threads, NEW i \in 1..Len(msgq'[q])
      PROVE  fate'[msgq'[q][i]] = "posted"
  <2>1. PICK p \in 1..Len(msgq[q]) : msgq'[q][i] = msgq[q][p]
    BY DEF Within
  <2>2. msgq[q][p] \in Msgs /\ fate[msgq[q][p]] = "posted"
    BY PostIs
  <2>3. msgq'[q][i] \notin M
    OBVIOUS
  <2> QED
    BY <2>1, <2>2, <2>3
<1>2. PostedOnce
  BY DEF Parts, Listed
<1> QED
  BY <1>1, <1>2, PostedShrinks

\* Lists that a step leaves alone.
LEMMA SameWithin ==
  ASSUME Parts
  PROVE  /\ sendlist' = sendlist => \A q \in Threads : Within(sendlist'[q], sendlist[q])
         /\ msgq' = msgq => \A q \in Threads : Within(msgq'[q], msgq[q])
<1>1. \A q \in Threads : sendlist[q] \in Seq(Entries) /\ msgq[q] \in Seq(Msgs)
  BY Typed DEF Parts
<1>2. \A q \in Threads : Within(sendlist[q], sendlist[q]) /\ Within(msgq[q], msgq[q])
  BY <1>1, WithinSame
<1> QED
  BY <1>2

\* A step that only changes the fate of the messages M, none of which is in a list.
LEMMA ListsStay ==
  ASSUME Parts, SendsGoOn, UNCHANGED <<sendlist, msgq>>, NEW M,
         \A m \in Msgs \ M : fate'[m] = fate[m],
         \A m \in M \cap Msgs : fate[m] \notin {"sent", "posted"}
  PROVE  Listed'
<1>1. ASSUME NEW q \in Threads, NEW i \in 1..Len(sendlist'[q])
      PROVE  sendlist'[q][i].m \notin M
  BY EntryIs
<1>2. ASSUME NEW q \in Threads, NEW i \in 1..Len(msgq'[q])
      PROVE  msgq'[q][i] \notin M
  BY PostIs
<1>3. SentOnce'
  BY <1>1, SameWithin, SentStay
<1>4. PostedOnce'
  BY <1>2, SameWithin, PostedStay
<1> QED
  BY <1>3, <1>4 DEF Listed

LEMMA TakeSendKeeps ==
  ASSUME Parts, NEW a \in Threads, NEW pc \in {"rs_test", "rs_wake"},
         NEW n \in Nat \ {0}, NEW f \in Frames, Innermost(a, pc, n, f),
         Rewoken(pc, f), sendlist[a] # <<>>, NEW s, s = Head(sendlist[a]),
         sendlist' = [sendlist EXCEPT ![a] = Tail(@)],
         fate' = [fate EXCEPT ![s.m] = "running"],
         Call(a, <<Frame("rs_ready", s.m, s.thread, FALSE), Handler(s.m)>>),
         UNCHANGED <<hasSends, msgq, fStop, ready>>
  PROVE  SendInv' /\ SendsGoOn
<1>0. a \in Actors /\ a \notin Outsiders /\ n \in Nat
  BY ThreadSendAssumption DEF Actors
<1>1. /\ sendlist \in [Threads -> Seq(Entries)] /\ msgq \in [Threads -> Seq(Msgs)]
      /\ fate \in [Msgs -> Fates]
  BY Typed DEF Parts
<1>2. /\ sendlist' \in [Threads -> Seq(Entries)]
      /\ \A r \in Threads \ {a} : sendlist'[r] = sendlist[r]
      /\ Len(sendlist[a]) \in Nat \ {0} /\ Len(sendlist'[a]) = Len(sendlist[a]) - 1
      /\ Head(sendlist[a]) = sendlist[a][1]
      /\ \A i \in 1..(Len(sendlist[a]) - 1) : sendlist'[a][i] = sendlist[a][i + 1]
  BY <1>1, TailOf
<1>3. /\ s = sendlist[a][1] /\ 1 \in 1..Len(sendlist[a])
      /\ s.m \in Msgs /\ s.thread \in Actors /\ fate[s.m] = "sent" /\ s.m \notin ready
      /\ InSend(s.thread, s.m)
  <2>1. s = sendlist[a][1] /\ 1 \in 1..Len(sendlist[a])
    BY <1>2
  <2> QED
    BY <2>1, EntryIs
<1>4. PICK g \in Frames : /\ g = Frame("rs_ready", s.m, s.thread, FALSE)
                          /\ g.pc = "rs_ready" /\ g.m = s.m /\ g.peer = s.thread
                          /\ g.waited = FALSE
  <2> DEFINE h == Frame("rs_ready", s.m, s.thread, FALSE)
  <2>1. h \in Frames /\ h.pc = "rs_ready" /\ h.m = s.m /\ h.peer = s.thread /\ h.waited = FALSE
    BY <1>3 DEF Frame, Frames, PCs
  <2> QED
    BY <2>1
<1>5. PICK h \in Frames : h = Handler(s.m) /\ h.pc = "run" /\ h.m = s.m /\ h.waited = FALSE
  <2> DEFINE h == Handler(s.m)
  <2>1. h \in Frames /\ h.pc = "run" /\ h.m = s.m /\ h.waited = FALSE
    BY <1>3 DEF Handler, Frame, Frames, PCs
  <2> QED
    BY <2>1
<1>6. Becomes(a, n - 1, n + 1) /\ stack'[a][n] = g /\ stack'[a][n + 1] = h
  <2>1. PICK fs \in Seq(Frames) : fs = <<g, h>> /\ Len(fs) = 2 /\ fs[1] = g /\ fs[2] = h
    BY TwoFrames
  <2>2. Call(a, fs)
    BY <1>4, <1>5, <2>1
  <2>3. /\ Becomes(a, n - 1, n - 1 + Len(fs))
        /\ \A i \in 1..Len(fs) : stack'[a][n - 1 + i] = fs[i]
    BY <1>0, <2>2, CallStep
  <2>4. n - 1 + 2 = n + 1 /\ n - 1 + 1 = n
    BY <1>0
  <2> QED
    BY <2>1, <2>3, <2>4
<1>7. PICK k \in Nat : k = n - 1 /\ n = k + 1 /\ k < n /\ k < n + 1 /\ n # n + 1
  BY <1>0
<1>8. /\ Len(stack[a]) = n /\ k < Len(stack[a]) /\ k # Len(stack[a]) /\ f = stack[a][n]
      /\ f = Top(a) /\ f.pc = pc /\ At(a, pc) /\ f.waited = FALSE /\ n \in 1..Len(stack[a])
  BY <1>0, <1>7 DEF Innermost, FrameOK, Frames
<1>9. /\ \A i \in (k + 1)..(n + 1) : i = n \/ i = n + 1
      /\ \A i \in (k + 1)..Len(stack[a]) : i = n
      /\ n \in (k + 1)..(n + 1)
  BY <1>7, <1>8
<1>10. Becomes(a, k, n + 1) /\ Len(stack'[a]) = n + 1
  BY <1>6, <1>7 DEF Becomes
<1>11. TypeOK'
  BY <1>1, <1>2, <1>3, <1>6 DEF Becomes, Parts, TypeOK, Frames, Entries, Fates, Rewoken
<1>12. Shape'
  <2>1. /\ FrameOK(g) /\ g.pc \notin Loops \cup {"join"} /\ g.pc \in Receives
        /\ FrameOK(h) /\ h.pc \notin Loops \cup {"join"}
    BY <1>3, <1>4, <1>5 DEF FrameOK, Loops, Makers, Receives
  <2>2. \A i \in Len(stack[a])..(n + 1) :
           /\ FrameOK(stack'[a][i]) /\ stack'[a][i].pc \notin Loops \cup {"join"}
           /\ a \in Outsiders => stack'[a][i].pc \in Makers
    BY <1>0, <1>6, <1>7, <1>8, <1>9, <2>1
  <2>3. pc \in Receives /\ Len(stack[a]) <= n + 1 => stack'[a][Len(stack[a])].pc \in Receives
    BY <1>6, <1>8, <2>1
  <2>4. Becomes(a, Len(stack[a]) - 1, n + 1) /\ pc \notin Loops
    BY <1>6, <1>8 DEF Loops
  <2>5. TypeOK /\ Shape
    BY DEF Parts
  <2> QED
    BY <1>0, <1>8, <2>2, <2>3, <2>4, <2>5, ShapeKept
<1>13. \A m \in Msgs : fate'[m] = IF m = s.m THEN "running" ELSE fate[m]
  BY <1>1, <1>3
<1>14. OneMaker'
  <2>1. \A i \in (k + 1)..(n + 1) : stack'[a][i].pc \notin Makers
    BY <1>4, <1>5, <1>6, <1>9 DEF Makers
  <2>2. ASSUME NEW b \in Actors, NEW i \in 1..Len(stack[b]), stack[b][i].pc \in Makers
        PROVE  /\ fate'[stack[b][i].m] # "unused"
               /\ stack[b][i].pc \in {"s_push", "p_push"} => fate'[stack[b][i].m] = "sending"
               /\ stack[b][i].pc = "s_rewake" => stack[b][i].m \in ready'
    <3>1. stack[b][i].m \in Msgs
      BY <2>2 DEF Parts, FrameOK
    <3>2. /\ fate[stack[b][i].m] # "unused"
          /\ stack[b][i].pc \in {"s_push", "p_push"} => fate[stack[b][i].m] = "sending"
          /\ stack[b][i].pc = "s_rewake" => stack[b][i].m \in ready
      BY <2>2 DEF Parts, OneMaker
    <3> QED
      BY <1>3, <1>13, <3>1, <3>2
  <2>3. TypeOK /\ OneMaker
    BY DEF Parts
  <2> QED
    BY <1>0, <1>10, <2>1, <2>2, <2>3, MakerKept
<1>15. ASSUME NEW b \in Actors, NEW m, InSend(b, m) PROVE InSend(b, m)'
  <2>1. b = a => \A i \in (k + 1)..Len(stack[a]) :
           stack[a][i].pc \in Senders /\ stack[a][i].m = m =>
             i <= n + 1 /\ stack'[a][i].pc \in Senders /\ stack'[a][i].m = m
    BY <1>8, <1>9 DEF Senders
  <2> QED
    BY <1>0, <1>10, <1>15, <2>1, InSendKept DEF Parts
<1>16. SendsGoOn
  BY <1>15 DEF SendsGoOn
<1>17. Listed'
  <2> DEFINE M == {s.m}
  <2>1. \A m \in Msgs \ M : fate'[m] = fate[m]
    BY <1>13
  <2>2. \A q \in Threads : Within(sendlist'[q], sendlist[q]) /\ Within(msgq'[q], msgq[q])
    <3>1. \A q \in Threads : Within(sendlist'[q], sendlist[q])
      BY <1>1, WithinTail
    <3>2. ASSUME NEW q \in Threads PROVE Within(msgq'[q], msgq[q])
      <4>1. msgq[q] \in Seq(Msgs) /\ msgq'[q] = msgq[q]
        BY <1>1
      <4> QED
        BY <4>1, WithinSame
    <3> QED
      BY <3>1, <3>2
  <2>3. ASSUME NEW q \in Threads, NEW i \in 1..Len(sendlist'[q])
        PROVE  sendlist'[q][i].m \notin M
    <3>1. PICK j \in 1..Len(sendlist[q]) : sendlist'[q][i] = sendlist[q][j] /\ (q = a => j # 1)
      <4>1. CASE q = a
        <5>1. PICK l \in Nat \ {0} : l = Len(sendlist[a])
          BY <1>2
        <5>2. i \in 1..(l - 1) /\ i + 1 \in 1..l /\ i + 1 # 1
          BY <1>2, <4>1, <5>1
        <5> QED
          BY <1>2, <4>1, <5>1, <5>2
      <4>2. CASE q # a
        BY <1>2, <4>2
      <4> QED
        BY <4>1, <4>2
    <3>2. sendlist[q][j].m # sendlist[a][1].m
      <4>1. ~(q = a /\ j = 1)
        BY <3>1
      <4> QED
        BY <1>3, <4>1 DEF Parts, Listed, SentOnce
    <3> QED
      BY <1>3, <3>1, <3>2
  <2>4. ASSUME NEW q \in Threads, NEW i \in 1..Len(msgq'[q]) PROVE msgq'[q][i] \notin M
    BY <1>3, PostIs
  <2> HIDE DEF M
  <2>5. SentOnce'
    BY <1>16, <2>1, <2>2, <2>3, SentStay
  <2>6. PostedOnce'
    BY <2>1, <2>2, <2>4, PostedStay
  <2> QED
    BY <2>5, <2>6 DEF Listed
<1>18. Known'
  <2>1. \A q \in Threads : sendlist'[q] # <<>> => sendlist[q] # <<>>
    BY <1>2
  <2> QED
    BY <2>1 DEF Parts, Known
<1>19. \A m \in Msgs : fate[m] \in {"running", "done"} =>
         fate'[m] \in {"running", "done"} /\ (fate[m] = "done" => fate'[m] = "done")
  BY <1>3, <1>13
<1>20. \A m \in ready' : fate'[m] \in {"done", "cleared"}
  <2>1. \A m \in ready : m \in Msgs /\ fate[m] \in {"done", "cleared"}
    BY Typed DEF Parts, Handled
  <2> QED
    BY <1>3, <1>13, <2>1
<1>21. HandlingOK(a, n)'
  <2>1. PICK b \in Actors, m \in Msgs : b = s.thread /\ m = s.m
    BY <1>3
  <2>2. InSend(b, m)' /\ b = stack'[a][n].peer /\ m = stack'[a][n].m
    BY <1>3, <1>4, <1>6, <1>15, <2>1
  <2>3. fate'[m] = "running" /\ m \notin ready'
    BY <1>3, <1>13, <2>1
  <2>4. Len(stack'[a]) = n + 1 /\ stack'[a][n + 1].pc = "run" /\ stack'[a][n + 1].m = m
    BY <1>5, <1>6, <1>10, <2>1
  <2>5. n # Len(stack'[a])
    BY <1>7, <2>4
  <2> QED
    BY <2>2, <2>3, <2>4, <2>5 DEF HandlingOK, InSend
<1>22. \A i \in (k + 1)..(n + 1) :
         /\ WaitOK(a, i)'
         /\ stack'[a][i].pc = "rs_ready" =>
              /\ HandlingOK(a, i)'
              /\ \A j \in (k + 1)..(n + 1) : stack'[a][j].pc = "rs_ready" => i = j
              /\ \A b \in Actors : \A j \in 1..Len(stack[b]) :
                   stack[b][j].pc = "rs_ready" => stack[b][j].m # stack'[a][i].m
  <2> SUFFICES ASSUME NEW i \in (k + 1)..(n + 1)
               PROVE  /\ stack'[a][i].pc # "s_wait"
                      /\ stack'[a][i].pc = "rs_ready" =>
                           /\ HandlingOK(a, i)'
                           /\ \A j \in (k + 1)..(n + 1) : stack'[a][j].pc = "rs_ready" => i = j
                           /\ \A b \in Actors : \A j \in 1..Len(stack[b]) :
                                stack[b][j].pc = "rs_ready" => stack[b][j].m # stack'[a][i].m
    BY DEF WaitOK
  <2>1. i = n \/ i = n + 1
    BY <1>9
  <2>2. stack'[a][n].pc = "rs_ready" /\ stack'[a][n].m = s.m /\ stack'[a][n + 1].pc = "run"
    BY <1>4, <1>5, <1>6
  <2>3. \A j \in (k + 1)..(n + 1) : stack'[a][j].pc = "rs_ready" => j = n
    BY <1>9, <2>2
  <2>4. \A b \in Actors : \A j \in 1..Len(stack[b]) :
           stack[b][j].pc = "rs_ready" => stack[b][j].m # s.m
    <3>1. ASSUME NEW b \in Actors, NEW j \in 1..Len(stack[b]), stack[b][j].pc = "rs_ready"
          PROVE  fate[stack[b][j].m] \in {"running", "done"}
      BY <3>1 DEF Parts, Handled, HandlingOK
    <3> QED
      BY <1>3, <3>1
  <2> QED
    BY <1>21, <2>1, <2>2, <2>3, <2>4
<1>23. ASSUME NEW b \in Actors, Woken(b) PROVE Woken(b)'
  <2>1. signaled[b] => signaled'[b]
    BY DEF Rewoken
  <2>2. ~At(a, "s_wakeup")
    BY <1>8 DEF At
  <2>3. At(a, "rs_wake") /\ Top(a).peer = b
          /\ ~Gone([m |-> Top(a).m, thread |-> b]) => signaled'[b]
    BY <1>8 DEF At, Rewoken
  <2>4. TypeOK /\ \A m : InSend(b, m) /\ b \in Outsiders => InSend(b, m)'
    BY <1>15 DEF Parts
  <2> QED
    BY <1>0, <1>10, <1>23, <2>1, <2>2, <2>3, <2>4, WokenKept
<1>24. \A j \in (k + 1)..Len(stack[a]) :
         /\ stack[a][j].waited =>
              Woken(a)' \/ k = 0 \/ \E h1 \in (k + 1)..(n + 1) : stack'[a][h1].waited
         /\ stack[a][j].pc \in Receives =>
              \/ sendlist'[a] = <<>> \/ Woken(a)'
              \/ \E h1 \in (k + 1)..(n + 1) :
                   stack'[a][h1].pc \in Receives \/ stack'[a][h1].waited
  BY <1>4, <1>6, <1>8, <1>9 DEF Receives
<1>25. /\ k < Len(stack[a]) /\ k < n + 1 => stack[a][k + 1].pc # "run"
       /\ k = Len(stack[a]) /\ 0 < k /\ k < n + 1 => stack[a][k].pc # "rs_ready"
       /\ k = n + 1 /\ k < Len(stack[a]) /\ stack[a][k + 1].pc = "run" /\ stack[a][k + 1].m \in Msgs
           => fate'[stack[a][k + 1].m] = "done"
  BY <1>7, <1>8
<1>26. \A q \in Threads :
         /\ sendlist'[q] # <<>> => sendlist[q] # <<>> \/ Woken(q)'
         /\ msgq'[q] # <<>> => msgq[q] # <<>> \/ Woken(q)'
         /\ fStop'[q] => fStop[q] \/ Woken(q)'
  BY <1>2
<1>27. a \in Threads => SleepOK(a)'
  <2>1. n + 1 # 1
    BY <1>0
  <2> QED
    BY <1>10, <2>1 DEF SleepOK
<1>28. \A b \in Actors : \A i \in 1..Len(stack[b]) :
         /\ stack[b][i].m \in ready' \ ready
         => /\ stack[b][i].pc = "s_wait" => Woken(b)'
            /\ stack[b][i].pc = "rs_ready" => b = a /\ i > k
  OBVIOUS
<1>29. \A b \in Actors : Woken(b) => Woken(b)' \/ (b = a /\ (k = 0 \/
         \E j \in (k + 1)..(n + 1) : stack'[a][j].waited))
  BY <1>23
<1>30. Runs'
  <2>1. \A i \in (k + 1)..(n + 1) : stack'[a][i].pc = "run" =>
           /\ stack'[a][i].m \in Msgs =>
                fate'[stack'[a][i].m] = "running" /\ fate[stack'[a][i].m] # "running"
           /\ \A j \in (k + 1)..(n + 1) : stack'[a][j].pc = "run" => i = j
    <3>1. \A i \in (k + 1)..(n + 1) : stack'[a][i].pc = "run" => i = n + 1
      BY <1>4, <1>6, <1>9
    <3>2. stack'[a][n + 1].m = s.m /\ fate'[s.m] = "running" /\ fate[s.m] # "running"
      BY <1>3, <1>5, <1>6, <1>13
    <3> QED
      BY <3>1, <3>2
  <2>2. \A m \in Msgs : fate[m] = "running" => fate'[m] = "running"
    BY <1>3, <1>13
  <2>3. TypeOK /\ Runs
    BY DEF Parts
  <2> QED
    BY <1>0, <1>10, <2>1, <2>2, <2>3, RunsKept
<1> QED
  BY <1>0, <1>10, <1>11, <1>12, <1>14, <1>30, <1>16, <1>17, <1>18, <1>19, <1>20, <1>22, <1>24, <1>25,
     <1>26, <1>27, <1>28, <1>29, Keeps

LEMMA ReceiveTestKeeps ==
  ASSUME Parts, NEW a \in Threads, ReceiveTest(a)
  PROVE  SendInv' /\ SendsGoOn
<1> DEFINE pc == "rs_test"
<1>0. pc \in {"rs_test", "rs_wake"} /\ a \in Actors
  BY DEF Actors
<1>1. PICK n \in Nat \ {0}, f \in Frames : Innermost(a, pc, n, f)
  BY <1>0, InnermostIs DEF ReceiveTest
<1>2. At(a, pc) /\ UNCHANGED <<msgq, fStop, signaled, ready>>
  BY DEF ReceiveTest
<1>3. Rewoken(pc, f)
  BY <1>2, Typed DEF Rewoken, Parts
<1> HIDE DEF pc
<1>4. CASE hasSends[a] /\ sendlist[a] # <<>>
  <2>1. PICK s : s = Head(sendlist[a])
    OBVIOUS
  <2>2. /\ sendlist' = [sendlist EXCEPT ![a] = Tail(@)] /\ fate' = [fate EXCEPT ![s.m] = "running"]
        /\ Call(a, <<Frame("rs_ready", s.m, s.thread, FALSE), Handler(s.m)>>)
        /\ UNCHANGED hasSends
    BY <1>4, <2>1 DEF ReceiveTest, TakeNextSend
  <2> QED
    BY <1>0, <1>1, <1>2, <1>3, <1>4, <2>1, <2>2, TakeSendKeeps
<1>5. CASE ~(hasSends[a] /\ sendlist[a] # <<>>)
  <2>1. sendlist[a] = <<>>
    BY <1>5 DEF Parts, Known
  <2>2. Return(a) /\ UNCHANGED <<sendlist, fate>>
    BY <2>1 DEF ReceiveTest, TakeNextSend
  <2>3. hasSends' \in {hasSends, [hasSends EXCEPT ![a] = FALSE]}
    BY <2>1 DEF ReceiveTest, TakeNextSend
  <2> QED
    BY <1>0, <1>1, <1>2, <1>3, <2>1, <2>2, <2>3, TakeNoneKeeps
<1> QED
  BY <1>4, <1>5

LEMMA ReceiveWakeKeeps ==
  ASSUME Parts, NEW a \in Threads, ReceiveWake(a)
  PROVE  SendInv' /\ SendsGoOn
<1> DEFINE pc == "rs_wake"
<1>0. pc \in {"rs_test", "rs_wake"} /\ a \in Actors
  BY DEF Actors
<1>1. PICK n \in Nat \ {0}, f \in Frames : Innermost(a, pc, n, f)
  BY <1>0, InnermostIs DEF ReceiveWake
<1>2. /\ At(a, pc) /\ UNCHANGED <<msgq, fStop, ready>> /\ TakeNextSend(a)
      /\ WakeSenders({[m |-> f.m, thread |-> f.peer]})
  <2>1. f = Top(a)
    BY <1>1 DEF Innermost
  <2> QED
    BY <2>1 DEF ReceiveWake
<1>3. Rewoken(pc, f)
  <2>1. PICK e : e = [m |-> f.m, thread |-> f.peer]
    OBVIOUS
  <2>2. e.thread = f.peer /\ f.peer \in Actors
    BY <1>1, <2>1 DEF Innermost, FrameOK
  <2>3. signaled' = [x \in Actors |-> signaled[x] \/ \E s \in {e} : s.thread = x /\ ~Gone(s)]
    BY <1>2, <2>1 DEF WakeSenders
  <2>4. signaled' \in [Actors -> BOOLEAN] /\ \A b \in Actors : signaled[b] => signaled'[b]
    BY <2>3, Typed DEF Parts
  <2>5. signaled'[f.peer] \/ Gone(e)
    BY <2>2, <2>3
  <2> QED
    BY <2>1, <2>4, <2>5 DEF Rewoken
<1> HIDE DEF pc
<1>4. CASE sendlist[a] # <<>>
  <2>1. PICK s : s = Head(sendlist[a])
    OBVIOUS
  <2>2. /\ sendlist' = [sendlist EXCEPT ![a] = Tail(@)] /\ fate' = [fate EXCEPT ![s.m] = "running"]
        /\ Call(a, <<Frame("rs_ready", s.m, s.thread, FALSE), Handler(s.m)>>)
        /\ UNCHANGED hasSends
    BY <1>2, <1>4, <2>1 DEF TakeNextSend
  <2> QED
    BY <1>0, <1>1, <1>2, <1>3, <1>4, <2>1, <2>2, TakeSendKeeps
<1>5. CASE sendlist[a] = <<>>
  <2>1. /\ Return(a) /\ UNCHANGED <<sendlist, fate>>
        /\ hasSends' \in {hasSends, [hasSends EXCEPT ![a] = FALSE]}
    BY <1>2, <1>5 DEF TakeNextSend
  <2> QED
    BY <1>0, <1>1, <1>2, <1>3, <1>5, <2>1, TakeNoneKeeps
<1> QED
  BY <1>4, <1>5

-------------------------------------------------------------------------------
\* MessageQueue::Post, and the end of a handler.

\* What a return from the innermost frame leaves alone.
LEMMA ReturnKeeps ==
  ASSUME Parts, NEW a \in Actors, NEW pc, pc \notin Loops, pc \notin Receives \cup Senders,
         NEW n \in Nat \ {0}, NEW f \in Frames, Innermost(a, pc, n, f), Return(a)
  PROVE  /\ \E k \in Nat : /\ k = n - 1 /\ Becomes(a, k, k) /\ Len(stack[a]) = k + 1
                           /\ n = k + 1 /\ f = stack[a][k + 1] /\ f.pc = pc /\ f = Top(a)
                           /\ k + 1 \in 1..Len(stack[a])
         /\ Shape' /\ SendsGoOn
         /\ \A b \in Actors : \A m : InSend(b, m) => InSend(b, m)'
         /\ a \in Threads => Len(stack'[a]) > 1
<1>1. PICK k \in Nat : k = n - 1 /\ n = k + 1 /\ ~(k + 1 <= k)
  OBVIOUS
<1>2. /\ Becomes(a, k, k) /\ Len(stack[a]) = k + 1 /\ f = stack[a][k + 1] /\ f.pc = pc
      /\ f = Top(a) /\ k + 1 \in 1..Len(stack[a]) /\ Len(stack'[a]) = k /\ At(a, pc)
  <2>1. Becomes(a, n - 1, n - 1)
    BY ReturnStep
  <2>2. Becomes(a, k, k)
    BY <1>1, <2>1
  <2>3. n = Len(stack[a]) /\ f = Top(a) /\ f = stack[a][n] /\ f.pc = pc /\ At(a, pc)
    BY DEF Innermost
  <2>4. Len(stack'[a]) = k
    BY <2>2 DEF Becomes
  <2> QED
    BY <1>1, <2>2, <2>3, <2>4
<1>3. TypeOK /\ Shape
  BY DEF Parts
<1>4. \A i \in (k + 1)..Len(stack[a]) : i = k + 1
  BY <1>2
<1>5. Shape'
  <2>1. \A i \in Len(stack[a])..k : FALSE
    BY <1>2
  <2>4. Len(stack[a]) - 1 = k /\ ~(Len(stack[a]) <= k)
    BY <1>2
  <2>2. Becomes(a, Len(stack[a]) - 1, k) /\ ~(Len(stack[a]) <= k)
    BY <1>2, <2>4
  <2>3. a \in Outsiders => k <= 1
    <3>1. a \in Outsiders => Len(stack[a]) = 1
      BY <1>2, <1>3, Below
    <3> QED
      BY <1>2, <3>1
  <2> QED
    BY <1>2, <1>3, <2>1, <2>2, <2>3, ShapeKept
<1>6. ASSUME NEW b \in Actors, NEW m, InSend(b, m) PROVE InSend(b, m)'
  <2>1. b = a => \A i \in (k + 1)..Len(stack[a]) :
           stack[a][i].pc \in Senders /\ stack[a][i].m = m =>
             i <= k /\ stack'[a][i].pc \in Senders /\ stack'[a][i].m = m
    BY <1>2, <1>4
  <2> QED
    BY <1>2, <1>3, <1>6, <2>1, InSendKept
<1>7. ASSUME a \in Threads PROVE Len(stack'[a]) > 1
  <2>1. Len(stack[a]) >= 2
    BY <1>2, <1>3, <1>7, Below
  <2>2. stack[a][2].pc \in Receives
    BY <1>3, <1>7, <2>1 DEF Shape
  <2>3. k + 1 # 2 /\ k + 1 >= 2
    BY <1>2, <2>1, <2>2
  <2> QED
    BY <1>2, <2>3
<1> QED
  BY <1>1, <1>2, <1>5, <1>6, <1>7 DEF SendsGoOn

LEMMA PostPushKeeps ==
  ASSUME Parts, NEW a \in Actors, PostPush(a)
  PROVE  SendInv' /\ SendsGoOn
<1> DEFINE pc == "p_push"
<1>1. PICK n \in Nat \ {0}, f \in Frames : Innermost(a, pc, n, f)
  BY InnermostIs DEF PostPush
<1>2. /\ f = Top(a) /\ f.pc = "p_push" /\ f.m \in Msgs /\ f.peer \in Threads
      /\ f.waited = FALSE
  BY <1>1 DEF Innermost, FrameOK, Makers, Frames
<1>3. /\ Return(a) /\ msgq' = [msgq EXCEPT ![f.peer] = Append(@, f.m)]
      /\ signaled' = [signaled EXCEPT ![f.peer] = TRUE]
      /\ fate' = [fate EXCEPT ![f.m] = "posted"]
      /\ UNCHANGED <<sendlist, hasSends, fStop, ready>>
  BY <1>2 DEF PostPush
<1>4. pc \notin Loops /\ pc \notin Receives \cup Senders
  BY DEF Loops, Receives, Senders
<1> HIDE DEF pc
<1>5. /\ Shape' /\ SendsGoOn /\ \A b \in Actors : \A m : InSend(b, m) => InSend(b, m)'
      /\ a \in Threads => Len(stack'[a]) > 1
  BY <1>1, <1>3, <1>4, ReturnKeeps
<1>6. PICK k \in Nat : /\ Becomes(a, k, k) /\ Len(stack[a]) = k + 1 /\ f = stack[a][k + 1]
                       /\ k + 1 \in 1..Len(stack[a])
  BY <1>1, <1>3, <1>4, ReturnKeeps
<1>7. (\A i \in (k + 1)..k : FALSE) /\ (\A i \in (k + 1)..Len(stack[a]) : i = k + 1)
  BY <1>6
<1>8. fate[f.m] = "sending"
  BY <1>2, <1>6 DEF Parts, OneMaker
<1>9. \A m \in Msgs : fate'[m] = IF m = f.m THEN "posted" ELSE fate[m]
  BY <1>3, Typed DEF Parts
<1>10. /\ msgq' \in [Threads -> Seq(Msgs)] /\ \A r \in Threads \ {f.peer} : msgq'[r] = msgq[r]
       /\ Len(msgq[f.peer]) \in Nat /\ Len(msgq'[f.peer]) = Len(msgq[f.peer]) + 1
       /\ msgq'[f.peer][Len(msgq[f.peer]) + 1] = f.m
       /\ \A i \in 1..Len(msgq[f.peer]) : msgq'[f.peer][i] = msgq[f.peer][i]
  BY <1>2, <1>3, Typed, AppendTo DEF Parts
<1>11. TypeOK'
  <2>1. stack' \in [Actors -> Seq(Frames)]
    BY <1>6 DEF Becomes
  <2> QED
    BY <1>2, <1>3, <1>10, <2>1 DEF Parts, TypeOK, Frames, Fates
<1>12. OneMaker'
  <2>1. ASSUME NEW b \in Actors, NEW i \in 1..Len(stack[b]), stack[b][i].pc \in Makers
        PROVE  /\ fate'[stack[b][i].m] # "unused"
               /\ b # a \/ i <= k =>
                    /\ stack[b][i].pc \in {"s_push", "p_push"} => fate'[stack[b][i].m] = "sending"
                    /\ stack[b][i].pc = "s_rewake" => stack[b][i].m \in ready'
    <3>1. stack[b][i].m \in Msgs
      BY <2>1 DEF Parts, FrameOK
    <3>2. /\ fate[stack[b][i].m] # "unused"
          /\ stack[b][i].pc \in {"s_push", "p_push"} => fate[stack[b][i].m] = "sending"
          /\ stack[b][i].pc = "s_rewake" => stack[b][i].m \in ready
      BY <2>1 DEF Parts, OneMaker
    <3>3. b # a \/ i <= k => stack[b][i].m # f.m
      <4>1. i <= k => i # k + 1
        OBVIOUS
      <4>2. stack[a][k + 1].pc \in Makers
        BY <1>2, <1>6 DEF Makers
      <4>3. OneMaker
        BY DEF Parts
      <4> QED
        BY <1>6, <2>1, <4>1, <4>2, <4>3 DEF OneMaker
    <3> QED
      BY <1>3, <1>9, <3>1, <3>2, <3>3
  <2>2. TypeOK /\ OneMaker
    BY DEF Parts
  <2> QED
    BY <1>6, <1>7, <2>1, <2>2, MakerKept
<1>13. SentOnce'
  <2> DEFINE M == {f.m}
  <2>1. \A m \in Msgs \ M : fate'[m] = fate[m]
    BY <1>9
  <2>2. ASSUME NEW q \in Threads, NEW i \in 1..Len(sendlist'[q])
        PROVE  sendlist'[q][i].m \notin M
    BY <1>3, <1>8, EntryIs
  <2>3. \A q \in Threads : Within(sendlist'[q], sendlist[q])
    BY <1>3, SameWithin
  <2> HIDE DEF M
  <2> QED
    BY <1>5, <2>1, <2>2, <2>3, SentStay
<1>14. PostedOnce'
  <2>1. ASSUME NEW q \in Threads, NEW i \in 1..Len(msgq'[q])
        PROVE  \/ i \in 1..Len(msgq[q]) /\ msgq'[q][i] = msgq[q][i]
               \/ q = f.peer /\ i = Len(msgq[q]) + 1 /\ msgq'[q][i] = f.m
    BY <1>10
  <2>2. ASSUME NEW q \in Threads, NEW i \in 1..Len(msgq[q])
        PROVE  msgq[q][i] # f.m /\ fate'[msgq[q][i]] = "posted"
    BY <1>8, <1>9, PostIs
  <2>3. ASSUME NEW q \in Threads, NEW i \in 1..Len(msgq'[q]) PROVE fate'[msgq'[q][i]] = "posted"
    BY <1>2, <1>9, <2>1, <2>2
  <2>5. \A q, r \in Threads : \A i \in 1..Len(msgq[q]), j \in 1..Len(msgq[r]) :
          msgq[q][i] = msgq[r][j] => q = r /\ i = j
    BY DEF Parts, Listed, PostedOnce
  <2>4. ASSUME NEW q \in Threads, NEW r \in Threads,
               NEW i \in 1..Len(msgq'[q]), NEW j \in 1..Len(msgq'[r]),
               msgq'[q][i] = msgq'[r][j]
        PROVE  q = r /\ i = j
    <3>1. CASE /\ i \in 1..Len(msgq[q]) /\ msgq'[q][i] = msgq[q][i]
               /\ j \in 1..Len(msgq[r]) /\ msgq'[r][j] = msgq[r][j]
      <4>1. msgq[q][i] = msgq[r][j]
        BY <2>4, <3>1
      <4> QED
        BY <2>5, <3>1, <4>1, Zenon
    <3>2. CASE msgq'[q][i] = f.m
      <4>1. q = f.peer /\ i = Len(msgq[q]) + 1
        BY <2>1, <2>2, <3>2
      <4>2. msgq'[r][j] = f.m
        BY <2>4, <3>2
      <4>3. r = f.peer /\ j = Len(msgq[r]) + 1
        BY <2>1, <2>2, <4>2
      <4> QED
        BY <4>1, <4>3
    <3> QED
      BY <2>1, <2>2, <2>4, <3>1, <3>2
  <2> QED
    BY <2>3, <2>4 DEF PostedOnce
<1>15. Listed' /\ Known'
  BY <1>3, <1>13, <1>14 DEF Listed, Parts, Known
<1>16. Runs'
  <2>1. \A m \in Msgs : fate[m] = "running" => fate'[m] = "running"
    BY <1>8, <1>9
  <2>2. TypeOK /\ Runs
    BY DEF Parts
  <2> QED
    BY <1>6, <1>7, <2>1, <2>2, RunsKept
<1>17. \A m \in Msgs : fate[m] \in {"running", "done"} =>
         fate'[m] \in {"running", "done"} /\ (fate[m] = "done" => fate'[m] = "done")
  BY <1>8, <1>9
<1>18. \A m \in ready' : fate'[m] \in {"done", "cleared"}
  <2>1. \A m \in ready : m \in Msgs /\ fate[m] \in {"done", "cleared"}
    BY Typed DEF Parts, Handled
  <2> QED
    BY <1>3, <1>8, <1>9, <2>1
<1>19. \A b \in Actors : \A i \in 1..Len(stack[b]) :
         /\ stack[b][i].m \in ready' \ ready
         => /\ stack[b][i].pc = "s_wait" => Woken(b)'
            /\ stack[b][i].pc = "rs_ready" => b = a /\ i > k
  BY <1>3
<1>20. ASSUME NEW b \in Actors, Woken(b) PROVE Woken(b)'
  <2>1. signaled[b] => signaled'[b]
    BY <1>2, <1>3, Typed DEF Parts
  <2>2. ~At(a, "s_wakeup") /\ ~At(a, "rs_wake")
    BY <1>2 DEF At
  <2>3. TypeOK /\ \A m : InSend(b, m) /\ b \in Outsiders => InSend(b, m)'
    BY <1>5 DEF Parts
  <2> QED
    BY <1>6, <1>20, <2>1, <2>2, <2>3, WokenKept
<1>21. \A b \in Actors : Woken(b) =>
         Woken(b)' \/ (b = a /\ (k = 0 \/ \E j \in (k + 1)..k : stack'[a][j].waited))
  BY <1>20
<1>22. \A j \in (k + 1)..Len(stack[a]) : ~stack[a][j].waited /\ stack[a][j].pc \notin Receives
  BY <1>2, <1>6, <1>7 DEF Receives
<1>23. \A q \in Threads :
         /\ sendlist'[q] # <<>> => sendlist[q] # <<>> \/ Woken(q)'
         /\ msgq'[q] # <<>> => msgq[q] # <<>> \/ Woken(q)'
         /\ fStop'[q] => fStop[q] \/ Woken(q)'
  BY <1>2, <1>3, <1>10, Typed DEF Parts, Woken, Actors
<1>24. a \in Threads => SleepOK(a)'
  BY <1>5 DEF SleepOK
<1>25. k < Len(stack[a]) /\ k # Len(stack[a]) /\ ~(k < k) /\ stack[a][k + 1].pc # "run"
  BY <1>2, <1>6
<1> QED
  BY <1>5, <1>6, <1>7, <1>11, <1>12, <1>15, <1>16, <1>17, <1>18, <1>19, <1>21, <1>22, <1>23,
     <1>24, <1>25, Keeps

\* A message handler returns.
LEMMA HandlerReturnKeeps ==
  ASSUME Parts, NEW a \in Threads, HandlerReturn(a)
  PROVE  SendInv' /\ SendsGoOn
<1> DEFINE pc == "run"
<1>0. a \in Actors /\ a \notin Outsiders
  BY ThreadSendAssumption DEF Actors
<1>1. PICK n \in Nat \ {0}, f \in Frames : Innermost(a, pc, n, f)
  BY <1>0, InnermostIs DEF HandlerReturn
<1>2. f = Top(a) /\ f.pc = "run" /\ f.waited = FALSE
  BY <1>1 DEF Innermost, FrameOK, Frames
<1>3. /\ Return(a) /\ fate' = [m \in Msgs |-> IF m = f.m THEN "done" ELSE fate[m]]
      /\ UNCHANGED <<sendlist, hasSends, msgq, fStop, signaled, ready>>
  BY <1>2 DEF HandlerReturn
<1>4. pc \notin Loops /\ pc \notin Receives \cup Senders
  BY DEF Loops, Receives, Senders
<1> HIDE DEF pc
<1>5. /\ Shape' /\ SendsGoOn /\ \A b \in Actors : \A m : InSend(b, m) => InSend(b, m)'
      /\ Len(stack'[a]) > 1
  BY <1>0, <1>1, <1>3, <1>4, ReturnKeeps
<1>6. PICK k \in Nat : /\ Becomes(a, k, k) /\ Len(stack[a]) = k + 1 /\ f = stack[a][k + 1]
                       /\ k + 1 \in 1..Len(stack[a])
  BY <1>0, <1>1, <1>3, <1>4, ReturnKeeps
<1>7. /\ \A i \in (k + 1)..k : FALSE
      /\ \A i \in (k + 1)..Len(stack[a]) : i = k + 1
      /\ k + 1 \in (k + 1)..Len(stack[a])
  BY <1>6
<1>8. f.m \in Msgs => fate[f.m] = "running"
  BY <1>0, <1>2, <1>6 DEF Parts, Runs
<1>9. \A m \in Msgs : fate'[m] = IF m = f.m THEN "done" ELSE fate[m]
  BY <1>3
<1>10. TypeOK'
  <2>1. stack' \in [Actors -> Seq(Frames)]
    BY <1>6 DEF Becomes
  <2>2. fate' \in [Msgs -> Fates]
    BY <1>3, Typed DEF Fates, Parts
  <2> QED
    BY <1>3, <2>1, <2>2 DEF Parts, TypeOK, Frames
<1>11. OneMaker'
  <2>1. ASSUME NEW b \in Actors, NEW i \in 1..Len(stack[b]), stack[b][i].pc \in Makers
        PROVE  /\ fate'[stack[b][i].m] # "unused"
               /\ stack[b][i].pc \in {"s_push", "p_push"} => fate'[stack[b][i].m] = "sending"
               /\ stack[b][i].pc = "s_rewake" => stack[b][i].m \in ready'
    <3>1. stack[b][i].m \in Msgs
      BY <2>1 DEF Parts, FrameOK
    <3>2. /\ fate[stack[b][i].m] # "unused"
          /\ stack[b][i].pc \in {"s_push", "p_push"} => fate[stack[b][i].m] = "sending"
          /\ stack[b][i].pc = "s_rewake" => stack[b][i].m \in ready
      BY <2>1 DEF Parts, OneMaker
    <3> QED
      BY <1>3, <1>8, <1>9, <3>1, <3>2
  <2>2. TypeOK /\ OneMaker
    BY DEF Parts
  <2> QED
    BY <1>0, <1>6, <1>7, <2>1, <2>2, MakerKept
<1>12. Listed'
  <2> DEFINE M == {f.m}
  <2>1. \A m \in Msgs \ M : fate'[m] = fate[m]
    BY <1>9
  <2>2. \A m \in M \cap Msgs : fate[m] \notin {"sent", "posted"}
    BY <1>8
  <2> HIDE DEF M
  <2> QED
    BY <1>3, <1>5, <2>1, <2>2, ListsStay
<1>13. Known'
  BY <1>3 DEF Parts, Known
<1>14. Runs'
  <2>1. \A m \in Msgs : fate[m] = "running" =>
          \/ fate'[m] = "running"
          \/ \E i \in (k + 1)..Len(stack[a]) : stack[a][i].pc = "run" /\ stack[a][i].m = m
    BY <1>2, <1>6, <1>7, <1>9
  <2>2. TypeOK /\ Runs
    BY DEF Parts
  <2> QED
    BY <1>0, <1>6, <1>7, <2>1, <2>2, RunsKept
<1>15. \A m \in Msgs : fate[m] \in {"running", "done"} =>
         fate'[m] \in {"running", "done"} /\ (fate[m] = "done" => fate'[m] = "done")
  BY <1>9
<1>16. \A m \in ready' : fate'[m] \in {"done", "cleared"}
  <2>1. \A m \in ready : m \in Msgs /\ fate[m] \in {"done", "cleared"}
    BY Typed DEF Parts, Handled
  <2> QED
    BY <1>3, <1>9, <2>1
<1>17. \A b \in Actors : \A i \in 1..Len(stack[b]) :
         /\ stack[b][i].m \in ready' \ ready
         => /\ stack[b][i].pc = "s_wait" => Woken(b)'
            /\ stack[b][i].pc = "rs_ready" => b = a /\ i > k
  BY <1>3
<1>18. ASSUME NEW b \in Actors, Woken(b) PROVE Woken(b)'
  <2>1. signaled[b] => signaled'[b]
    BY <1>3
  <2>2. ~At(a, "s_wakeup") /\ ~At(a, "rs_wake")
    BY <1>2 DEF At
  <2>3. TypeOK /\ \A m : InSend(b, m) /\ b \in Outsiders => InSend(b, m)'
    BY <1>5 DEF Parts
  <2> QED
    BY <1>0, <1>6, <1>18, <2>1, <2>2, <2>3, WokenKept
<1>19. \A b \in Actors : Woken(b) =>
         Woken(b)' \/ (b = a /\ (k = 0 \/ \E j \in (k + 1)..k : stack'[a][j].waited))
  BY <1>18
<1>20. \A j \in (k + 1)..Len(stack[a]) : ~stack[a][j].waited /\ stack[a][j].pc \notin Receives
  BY <1>2, <1>6, <1>7 DEF Receives
<1>21. \A q \in Threads :
         /\ sendlist'[q] # <<>> => sendlist[q] # <<>> \/ Woken(q)'
         /\ msgq'[q] # <<>> => msgq[q] # <<>> \/ Woken(q)'
         /\ fStop'[q] => fStop[q] \/ Woken(q)'
  BY <1>3
<1>22. a \in Threads => SleepOK(a)'
  BY <1>5 DEF SleepOK
<1>23. /\ k < Len(stack[a]) /\ k # Len(stack[a]) /\ ~(k < k)
       /\ stack[a][k + 1].m \in Msgs => fate'[stack[a][k + 1].m] = "done"
  BY <1>6, <1>9
<1> QED
  BY <1>0, <1>5, <1>6, <1>7, <1>10, <1>11, <1>12, <1>13, <1>14, <1>15, <1>16, <1>17, <1>19, <1>20,
     <1>21, <1>22, <1>23, Keeps

\* A Send or a Post begins: message m is made, with one more frame unless it is refused.
Started(a, m, k, n, x) ==
  /\ k = Len(stack[a]) /\ n \in {k, k + 1} /\ Becomes(a, k, n)
  /\ x \in {"refused", "running", "sending"} /\ fate' = [fate EXCEPT ![m] = x]
  /\ UNCHANGED <<sendlist, hasSends, msgq, fStop, signaled, ready>>
  /\ n = k + 1 => LET g == stack'[a][n] IN
       /\ g.m = m /\ g.waited = FALSE /\ FrameOK(g)
       /\ \/ g.pc = "run" /\ x = "running" /\ a \in Threads
          \/ g.pc \in {"s_push", "p_push"} /\ x = "sending"

LEMMA StartKeeps ==
  ASSUME Parts, NEW a \in Actors, Running(a), NEW m \in Msgs, fate[m] = "unused",
         NEW k, NEW n, NEW x, Started(a, m, k, n, x)
  PROVE  SendInv' /\ SendsGoOn
<1>0. /\ a \in Threads => a \notin Outsiders
      /\ a \notin Threads => a \in Outsiders
  BY ThreadSendAssumption DEF Actors
<1>1. /\ k = Len(stack[a]) /\ k \in Nat /\ n \in {k, k + 1} /\ Becomes(a, k, n)
      /\ UNCHANGED <<sendlist, hasSends, msgq, fStop, signaled, ready>>
  BY DEF Started, Becomes
<1>2. /\ a \in Threads => k >= 2 /\ stack[a][k].pc = "run"
      /\ a \in Outsiders => k = 0
      /\ \A pc : At(a, pc) => pc = "run"
  <2>1. CASE a \in Outsiders
    <3>1. stack[a] = <<>>
      BY <2>1 DEF Running
    <3> QED
      BY <1>0, <1>1, <2>1, <3>1 DEF At
  <2>2. CASE a \in Threads
    <3>1. At(a, "run") /\ "run" \notin Loops /\ TypeOK /\ Shape
      BY <1>0, <2>2 DEF Running, Loops, Parts
    <3>2. k >= 2
      BY <1>1, <2>2, <3>1, Below
    <3>3. stack[a][k].pc = "run"
      BY <1>1, <3>1, TopFrame
    <3> QED
      BY <1>0, <2>2, <3>1, <3>2, <3>3 DEF At
  <2> QED
    BY <1>0, <2>1, <2>2
<1>3. /\ \A i \in (k + 1)..n : i = k + 1 /\ n = k + 1
      /\ \A i \in (k + 1)..Len(stack[a]) : FALSE
      /\ Len(stack'[a]) = n /\ n \in Nat
  BY <1>1 DEF Becomes
<1>4. \A i \in (k + 1)..n : /\ stack'[a][i].m = m /\ stack'[a][i].waited = FALSE
                            /\ FrameOK(stack'[a][i]) /\ i = k + 1 /\ i = n
                            /\ \/ /\ stack'[a][i].pc = "run" /\ x = "running" /\ a \in Threads
                               \/ stack'[a][i].pc \in {"s_push", "p_push"} /\ x = "sending"
  BY <1>3 DEF Started
<1>5. x \in {"refused", "running", "sending"} /\ \A l \in Msgs : fate'[l] = IF l = m THEN x ELSE fate[l]
  BY Typed DEF Started, Parts
<1>6. TypeOK'
  <2>1. stack' \in [Actors -> Seq(Frames)]
    BY <1>1 DEF Becomes
  <2>2. fate' \in [Msgs -> Fates]
    BY <1>5, Typed DEF Fates, Parts, Started
  <2> QED
    BY <1>1, <2>1, <2>2 DEF Parts, TypeOK, Frames
<1>7. Shape'
  <2>1. Shape
    BY DEF Parts
  <2>2. ASSUME NEW b \in Actors, NEW i \in 1..Len(stack'[b])
        PROVE  \/ i \in 1..Len(stack[b]) /\ stack'[b][i] = stack[b][i]
               \/ b = a /\ i \in (k + 1)..n
    BY <1>1, <1>3 DEF Becomes
  <2>3. \A b \in Actors : \A i \in 1..Len(stack'[b]) : FrameOK(stack'[b][i])
    BY <1>4, <2>1, <2>2 DEF Shape
  <2>4. ASSUME NEW b \in Outsiders
        PROVE  /\ Len(stack'[b]) <= 1
               /\ \A i \in 1..Len(stack'[b]) : stack'[b][i].pc \in Makers \cup {"join"}
    <3>1. b \in Actors /\ b \notin Threads
      BY ThreadSendAssumption DEF Actors
    <3>2. Len(stack'[b]) <= 1
      BY <1>1, <1>2, <1>3, <2>1, <3>1 DEF Becomes, Shape
    <3>3. \A i \in 1..Len(stack'[b]) : stack'[b][i].pc \in Makers \cup {"join"}
      BY <1>4, <2>1, <2>2, <3>1 DEF Shape, Makers
    <3> QED
      BY <3>2, <3>3
  <2>5. ASSUME NEW b \in Threads
        PROVE  /\ Len(stack'[b]) >= 1
               /\ stack'[b][1].pc \in Loops
               /\ Len(stack'[b]) > 1 => stack'[b][1].pc = "get_queue"
               /\ Len(stack'[b]) > 1 => stack'[b][2].pc \in Receives
               /\ \A i \in 2..Len(stack'[b]) : stack'[b][i].pc \notin Loops \cup {"join"}
    <3>1. b \in Actors /\ b \notin Outsiders
      BY ThreadSendAssumption DEF Actors
    <3>2. CASE b # a
      <4>1. stack'[b] = stack[b]
        BY <1>1, <3>1, <3>2 DEF Becomes
      <4> QED
        BY <2>1, <4>1 DEF Shape
    <3>3. CASE b = a
      <4>1. /\ Len(stack'[b]) >= 2 /\ stack'[b][1] = stack[b][1] /\ stack'[b][2] = stack[b][2]
            /\ Len(stack[b]) >= 2 /\ Len(stack[b]) > 1
        BY <1>1, <1>2, <1>3, <3>3 DEF Becomes
      <4>2. \A i \in 2..Len(stack'[b]) : i \in 1..Len(stack'[b]) /\ (i \in 1..Len(stack[b]) => i \in 2..Len(stack[b]))
        BY <1>1, <1>3, <3>3
      <4>3. \A i \in 2..Len(stack'[b]) : stack'[b][i].pc \notin Loops \cup {"join"}
        BY <1>4, <2>1, <2>2, <3>1, <4>2 DEF Shape, Loops
      <4> QED
        BY <2>1, <4>1, <4>3 DEF Shape
    <3> QED
      BY <3>2, <3>3
  <2> QED
    BY <2>3, <2>4, <2>5 DEF Shape
<1>8. OneMaker'
  <2>1. OneMaker
    BY DEF Parts
  <2>2. ASSUME NEW b \in Actors, NEW i \in 1..Len(stack'[b])
        PROVE  \/ i \in 1..Len(stack[b]) /\ stack'[b][i] = stack[b][i]
               \/ b = a /\ i = k + 1 /\ i \in (k + 1)..n
    BY <1>1, <1>3 DEF Becomes
  <2>3. ASSUME NEW b \in Actors, NEW i \in 1..Len(stack[b]), stack[b][i].pc \in Makers
        PROVE  stack[b][i].m \in Msgs /\ stack[b][i].m # m
               /\ fate'[stack[b][i].m] = fate[stack[b][i].m]
    <3>1. stack[b][i].m \in Msgs
      BY <2>3 DEF Parts, FrameOK
    <3>2. fate[stack[b][i].m] # "unused"
      BY <2>1, <2>3 DEF OneMaker
    <3> QED
      BY <1>5, <3>1, <3>2
  <2>4. ASSUME NEW b \in Actors, NEW c \in Actors,
               NEW i \in 1..Len(stack'[b]), NEW j \in 1..Len(stack'[c]),
               stack'[b][i].pc \in Makers, stack'[c][j].pc \in Makers,
               stack'[b][i].m = stack'[c][j].m
        PROVE  b = c /\ i = j
    <3>1. CASE i \in 1..Len(stack[b]) /\ stack'[b][i] = stack[b][i]
      <4>1. stack'[c][j].m # m
        BY <2>3, <2>4, <3>1
      <4>2. j \in 1..Len(stack[c]) /\ stack'[c][j] = stack[c][j]
        BY <1>4, <2>2, <4>1
      <4> QED
        BY <2>1, <2>4, <3>1, <4>2 DEF OneMaker
    <3>2. CASE b = a /\ i = k + 1 /\ i \in (k + 1)..n
      <4>1. stack'[c][j].m = m
        BY <1>4, <2>4, <3>2
      <4>2. c = a /\ j = k + 1
        BY <2>2, <2>3, <2>4, <4>1
      <4> QED
        BY <3>2, <4>2
    <3> QED
      BY <2>2, <3>1, <3>2
  <2>5. ASSUME NEW b \in Actors, NEW i \in 1..Len(stack'[b])
        PROVE  /\ stack'[b][i].pc \in Makers => fate'[stack'[b][i].m] # "unused"
               /\ stack'[b][i].pc \in {"s_push", "p_push"} => fate'[stack'[b][i].m] = "sending"
               /\ stack'[b][i].pc = "s_rewake" => stack'[b][i].m \in ready'
    <3>1. CASE i \in 1..Len(stack[b]) /\ stack'[b][i] = stack[b][i]
      <4>1. stack[b][i].pc \in {"s_push", "p_push", "s_rewake"} => stack[b][i].pc \in Makers
        BY DEF Makers
      <4> QED
        BY <1>1, <2>1, <2>3, <3>1, <4>1 DEF OneMaker
    <3>2. CASE b = a /\ i = k + 1 /\ i \in (k + 1)..n
      BY <1>4, <1>5, <3>2 DEF Makers
    <3> QED
      BY <2>2, <3>1, <3>2
  <2> QED
    BY <2>4, <2>5 DEF OneMaker
<1>9. ASSUME NEW b \in Actors, NEW l, InSend(b, l) PROVE InSend(b, l)'
  BY <1>1, <1>3, <1>9, InSendKept DEF Parts
<1>10. SendsGoOn
  BY <1>9 DEF SendsGoOn
<1>11. Listed'
  <2> DEFINE M == {m}
  <2>1. (\A l \in Msgs \ M : fate'[l] = fate[l]) /\ \A l \in M \cap Msgs : fate[l] \notin {"sent", "posted"}
    BY <1>5
  <2> HIDE DEF M
  <2> QED
    BY <1>1, <1>10, <2>1, ListsStay
<1>12. Known'
  BY <1>1 DEF Parts, Known
<1>13. Runs'
  <2>1. \A l \in Msgs : fate[l] = "running" => fate'[l] = "running"
    BY <1>5
  <2>2. \A i \in (k + 1)..n : stack'[a][i].pc = "run" =>
          /\ stack'[a][i].m \in Msgs =>
               fate'[stack'[a][i].m] = "running" /\ fate[stack'[a][i].m] # "running"
          /\ \A j \in (k + 1)..n : stack'[a][j].pc = "run" => i = j
    BY <1>4, <1>5
  <2>3. TypeOK /\ Runs
    BY DEF Parts
  <2> QED
    BY <1>1, <2>1, <2>2, <2>3, RunsKept
<1>14. \A l \in Msgs : fate[l] \in {"running", "done"} =>
         fate'[l] \in {"running", "done"} /\ (fate[l] = "done" => fate'[l] = "done")
  BY <1>5
<1>15. \A l \in ready' : fate'[l] \in {"done", "cleared"}
  <2>1. \A l \in ready : l \in Msgs /\ fate[l] \in {"done", "cleared"}
    BY Typed DEF Parts, Handled
  <2> QED
    BY <1>1, <1>5, <2>1
<1>16. \A b \in Actors : \A i \in 1..Len(stack[b]) :
         /\ stack[b][i].m \in ready' \ ready
         => /\ stack[b][i].pc = "s_wait" => Woken(b)'
            /\ stack[b][i].pc = "rs_ready" => b = a /\ i > k
  BY <1>1
<1>17. ASSUME NEW b \in Actors, Woken(b) PROVE Woken(b)'
  <2>1. (signaled[b] => signaled'[b]) /\ ~At(a, "s_wakeup") /\ ~At(a, "rs_wake")
    BY <1>1, <1>2
  <2>2. TypeOK /\ \A l : InSend(b, l) /\ b \in Outsiders => InSend(b, l)'
    BY <1>9 DEF Parts
  <2> QED
    BY <1>1, <1>17, <2>1, <2>2, WokenKept
<1>18. \A b \in Actors : Woken(b) =>
         Woken(b)' \/ (b = a /\ (k = 0 \/ \E j \in (k + 1)..n : stack'[a][j].waited))
  BY <1>17
<1>19. \A i \in (k + 1)..n : WaitOK(a, i)' /\ stack'[a][i].pc # "rs_ready"
  BY <1>4 DEF WaitOK
<1>20. \A q \in Threads :
         /\ sendlist'[q] # <<>> => sendlist[q] # <<>> \/ Woken(q)'
         /\ msgq'[q] # <<>> => msgq[q] # <<>> \/ Woken(q)'
         /\ fStop'[q] => fStop[q] \/ Woken(q)'
  BY <1>1
<1>21. a \in Threads => SleepOK(a)'
  <2>1. a \in Threads => n # 1
    BY <1>1, <1>2
  <2> QED
    BY <1>3, <2>1 DEF SleepOK
<1>22. /\ ~(k < Len(stack[a]))
       /\ 0 < k => stack[a][k].pc # "rs_ready"
  BY <1>0, <1>1, <1>2
<1> QED
  BY <1>1, <1>3, <1>6, <1>7, <1>8, <1>10, <1>11, <1>12, <1>13, <1>14, <1>15, <1>16, <1>18, <1>19,
     <1>20, <1>21, <1>22, Keeps

\* Nothing is pushed when the thread is stopped; else one frame is.
LEMMA NoPush ==
  ASSUME TypeOK, NEW a \in Actors, UNCHANGED stack
  PROVE  Becomes(a, Len(stack[a]), Len(stack[a]))
<1>1. stack \in [Actors -> Seq(Frames)]
  BY Typed
<1>2. Len(stack[a]) \in Nat
  BY <1>1, LenProperties
<1> QED
  BY <1>1, <1>2 DEF Becomes

LEMMA StartSendKeeps ==
  ASSUME Parts, NEW a \in Actors, NEW q \in Threads, NEW m \in Msgs, StartSend(a, q, m)
  PROVE  SendInv' /\ SendsGoOn
<1>1. /\ Running(a) /\ fate[m] = "unused"
      /\ UNCHANGED <<sendlist, hasSends, msgq, fStop, signaled, ready>>
  BY DEF StartSend, Fresh
<1>2. stack \in [Actors -> Seq(Frames)] /\ q \in Actors
  BY Typed DEF Parts, Actors
<1>3. CASE fStop[q]
  <2>1. Becomes(a, Len(stack[a]), Len(stack[a]))
    BY <1>3, NoPush DEF StartSend, Parts
  <2>2. Len(stack[a]) # Len(stack[a]) + 1
    BY <2>1 DEF Becomes
  <2>3. Started(a, m, Len(stack[a]), Len(stack[a]), "refused")
    BY <1>1, <1>3, <2>1, <2>2 DEF StartSend, Started
  <2> QED
    BY <1>1, <2>3, StartKeeps
<1>4. CASE ~fStop[q] /\ a = q
  <2>1. PICK h \in Frames : h = Handler(m) /\ h.pc = "run" /\ h.m = m /\ h.waited = FALSE
    <3> DEFINE h == Handler(m)
    <3>1. h \in Frames /\ h.pc = "run" /\ h.m = m /\ h.waited = FALSE
      BY DEF Handler, Frame, Frames, PCs
    <3> QED
      BY <3>1
  <2>2. stack' = [stack EXCEPT ![a] = Append(@, h)]
    BY <1>4, <2>1 DEF StartSend
  <2>3. Becomes(a, Len(stack[a]), Len(stack[a]) + 1) /\ stack'[a][Len(stack[a]) + 1] = h
    BY <1>2, <2>2, PushBecomes
  <2>4. FrameOK(h)
    BY <2>1 DEF FrameOK, Makers
  <2>5. Started(a, m, Len(stack[a]), Len(stack[a]) + 1, "running")
    BY <1>1, <1>4, <2>1, <2>3, <2>4 DEF StartSend, Started
  <2> QED
    BY <1>1, <2>5, StartKeeps
<1>5. CASE ~fStop[q] /\ a # q
  <2>1. PICK h \in Frames : /\ h = Frame("s_push", m, q, FALSE)
                            /\ h.pc = "s_push" /\ h.m = m /\ h.peer = q /\ h.waited = FALSE
    <3> DEFINE h == Frame("s_push", m, q, FALSE)
    <3>1. h \in Frames /\ h.pc = "s_push" /\ h.m = m /\ h.peer = q /\ h.waited = FALSE
      BY <1>2 DEF Frame, Frames, PCs
    <3> QED
      BY <3>1
  <2>2. stack' = [stack EXCEPT ![a] = Append(@, h)]
    BY <1>5, <2>1 DEF StartSend
  <2>3. Becomes(a, Len(stack[a]), Len(stack[a]) + 1) /\ stack'[a][Len(stack[a]) + 1] = h
    BY <1>2, <2>2, PushBecomes
  <2>4. FrameOK(h)
    BY <2>1 DEF FrameOK, Makers
  <2>5. Started(a, m, Len(stack[a]), Len(stack[a]) + 1, "sending")
    BY <1>1, <1>5, <2>1, <2>3, <2>4 DEF StartSend, Started
  <2> QED
    BY <1>1, <2>5, StartKeeps
<1> QED
  BY <1>3, <1>4, <1>5

LEMMA StartPostKeeps ==
  ASSUME Parts, NEW a \in Actors, NEW q \in Threads, NEW m \in Msgs, StartPost(a, q, m)
  PROVE  SendInv' /\ SendsGoOn
<1>1. /\ Running(a) /\ fate[m] = "unused"
      /\ UNCHANGED <<sendlist, hasSends, msgq, fStop, signaled, ready>>
  BY DEF StartPost, Fresh
<1>2. stack \in [Actors -> Seq(Frames)] /\ q \in Actors
  BY Typed DEF Parts, Actors
<1>3. CASE fStop[q]
  <2>1. Becomes(a, Len(stack[a]), Len(stack[a]))
    BY <1>3, NoPush DEF StartPost, Parts
  <2>2. Len(stack[a]) # Len(stack[a]) + 1
    BY <2>1 DEF Becomes
  <2>3. Started(a, m, Len(stack[a]), Len(stack[a]), "refused")
    BY <1>1, <1>3, <2>1, <2>2 DEF StartPost, Started
  <2> QED
    BY <1>1, <2>3, StartKeeps
<1>4. CASE ~fStop[q]
  <2>1. PICK h \in Frames : /\ h = Frame("p_push", m, q, FALSE)
                            /\ h.pc = "p_push" /\ h.m = m /\ h.peer = q /\ h.waited = FALSE
    <3> DEFINE h == Frame("p_push", m, q, FALSE)
    <3>1. h \in Frames /\ h.pc = "p_push" /\ h.m = m /\ h.peer = q /\ h.waited = FALSE
      BY <1>2 DEF Frame, Frames, PCs
    <3> QED
      BY <3>1
  <2>2. stack' = [stack EXCEPT ![a] = Append(@, h)]
    BY <1>4, <2>1 DEF StartPost
  <2>3. Becomes(a, Len(stack[a]), Len(stack[a]) + 1) /\ stack'[a][Len(stack[a]) + 1] = h
    BY <1>2, <2>2, PushBecomes
  <2>4. FrameOK(h)
    BY <2>1 DEF FrameOK, Makers
  <2>5. Started(a, m, Len(stack[a]), Len(stack[a]) + 1, "sending")
    BY <1>1, <1>4, <2>1, <2>3, <2>4 DEF StartPost, Started
  <2> QED
    BY <1>1, <2>5, StartKeeps
<1> QED
  BY <1>3, <1>4

-------------------------------------------------------------------------------
\* Thread::Clear: the messages that leave the lists of q.
Sends(q, S)   == {s \in ToSet(sendlist[q]) : s.m \in S}
Cleared(q, S) == {s.m : s \in Sends(q, S)} \cup (ToSet(msgq[q]) \cap S)

LEMMA ClearedIs ==
  ASSUME Parts, NEW q \in Threads, NEW S, RemoveFrom(q, S)
  PROVE  /\ \A s \in Sends(q, S) :
              /\ s.m \in Cleared(q, S) /\ s.thread \in Actors /\ InSend(s.thread, s.m)
              /\ fate[s.m] = "sent" /\ signaled'[s.thread]
              /\ \E i \in 1..Len(sendlist[q]) : s = sendlist[q][i]
         /\ \A m \in Cleared(q, S) :
              /\ m \in Msgs /\ m \in S
              /\ \/ \E i \in 1..Len(sendlist[q]) : m = sendlist[q][i].m /\ fate[m] = "sent"
                 \/ \E i \in 1..Len(msgq[q]) : m = msgq[q][i] /\ fate[m] = "posted"
         /\ ready' = ready \cup {s.m : s \in Sends(q, S)}
         /\ \A m \in Msgs : fate'[m] = IF m \in Cleared(q, S) THEN "cleared" ELSE fate[m]
         /\ fate' \in [Msgs -> Fates] /\ ready' \in SUBSET Msgs
         /\ signaled' \in [Actors -> BOOLEAN] /\ \A b \in Actors : signaled[b] => signaled'[b]
         /\ sendlist' = [sendlist EXCEPT ![q] = Keep(@, [m : Msgs \ S, thread : Actors])]
         /\ msgq' = [msgq EXCEPT ![q] = Keep(@, Msgs \ S)]
<1>1. /\ sendlist' = [sendlist EXCEPT ![q] = Keep(@, [m : Msgs \ S, thread : Actors])]
      /\ msgq' = [msgq EXCEPT ![q] = Keep(@, Msgs \ S)]
      /\ ready' = ready \cup {s.m : s \in Sends(q, S)}
      /\ fate' = [m \in Msgs |-> IF m \in Cleared(q, S) THEN "cleared" ELSE fate[m]]
      /\ WakeSenders(Sends(q, S))
  BY DEF RemoveFrom, Sends, Cleared
<1>2. /\ \A s \in ToSet(sendlist[q]) : \E i \in 1..Len(sendlist[q]) : s = sendlist[q][i]
      /\ \A m \in ToSet(msgq[q]) : \E i \in 1..Len(msgq[q]) : m = msgq[q][i]
  <2>1. sendlist[q] \in Seq(Entries) /\ msgq[q] \in Seq(Msgs)
    BY Typed DEF Parts
  <2> QED
    BY <2>1 DEF ToSet
<1>3. ASSUME NEW s \in Sends(q, S)
      PROVE  /\ s.m \in Cleared(q, S) /\ s.thread \in Actors /\ InSend(s.thread, s.m)
             /\ fate[s.m] = "sent" /\ s.m \in Msgs /\ s.m \in S
             /\ \E i \in 1..Len(sendlist[q]) : s = sendlist[q][i]
  <2>1. PICK i \in 1..Len(sendlist[q]) : s = sendlist[q][i]
    BY <1>2 DEF Sends
  <2>2. s.m \in Msgs /\ s.thread \in Actors /\ fate[s.m] = "sent" /\ InSend(s.thread, s.m)
    BY <2>1, EntryIs
  <2> QED
    BY <2>1, <2>2 DEF Sends, Cleared
<1>4. ASSUME NEW s \in Sends(q, S) PROVE signaled'[s.thread]
  BY <1>1, <1>3 DEF WakeSenders, Gone
<1>5. ASSUME NEW m \in Cleared(q, S)
      PROVE  /\ m \in Msgs /\ m \in S
             /\ \/ \E i \in 1..Len(sendlist[q]) : m = sendlist[q][i].m /\ fate[m] = "sent"
                \/ \E i \in 1..Len(msgq[q]) : m = msgq[q][i] /\ fate[m] = "posted"
  <2>1. CASE m \in {s.m : s \in Sends(q, S)}
    <3>1. PICK s \in Sends(q, S) : m = s.m
      BY <2>1
    <3> QED
      BY <1>3, <3>1
  <2>2. CASE m \in ToSet(msgq[q]) \cap S
    <3>1. PICK i \in 1..Len(msgq[q]) : m = msgq[q][i]
      BY <1>2, <2>2
    <3> QED
      BY <2>2, <3>1, PostIs
  <2> QED
    BY <2>1, <2>2 DEF Cleared
<1>6. signaled' \in [Actors -> BOOLEAN] /\ \A b \in Actors : signaled[b] => signaled'[b]
  BY <1>1 DEF WakeSenders
<1>7. fate' \in [Msgs -> Fates] /\ ready' \in SUBSET Msgs
  BY <1>1, <1>3, Typed DEF Fates, Parts
<1> QED
  BY <1>1, <1>3, <1>4, <1>5, <1>6, <1>7

\* The lists lose what is cleared and nothing else, and none of it stays in another list.
LEMMA ClearedLists ==
  ASSUME Parts, SendsGoOn, NEW q \in Threads, NEW S, RemoveFrom(q, S)
  PROVE  /\ sendlist' \in [Threads -> Seq(Entries)] /\ msgq' \in [Threads -> Seq(Msgs)]
         /\ Listed'
         /\ \A r \in Threads : /\ sendlist'[r] # <<>> => sendlist[r] # <<>>
                               /\ msgq'[r] # <<>> => msgq[r] # <<>>
<1> DEFINE M == Cleared(q, S)
           K == [m : Msgs \ S, thread : Actors]
<1>1. /\ sendlist' = [sendlist EXCEPT ![q] = Keep(@, K)]
      /\ msgq' = [msgq EXCEPT ![q] = Keep(@, Msgs \ S)]
      /\ \A m \in M :
           /\ m \in Msgs /\ m \in S
           /\ \/ \E i \in 1..Len(sendlist[q]) : m = sendlist[q][i].m /\ fate[m] = "sent"
              \/ \E i \in 1..Len(msgq[q]) : m = msgq[q][i] /\ fate[m] = "posted"
      /\ \A m \in Msgs : fate'[m] = IF m \in M THEN "cleared" ELSE fate[m]
  BY ClearedIs
<1>2. \A e \in K : e.m \notin S
  OBVIOUS
<1> HIDE DEF M, K
<1>3. sendlist \in [Threads -> Seq(Entries)] /\ msgq \in [Threads -> Seq(Msgs)]
  BY Typed DEF Parts
<1>4. /\ sendlist' \in [Threads -> Seq(Entries)]
      /\ \A r \in Threads : Within(sendlist'[r], sendlist[r])
      /\ \A r \in Threads \ {q} : sendlist'[r] = sendlist[r]
      /\ \A i \in 1..Len(sendlist'[q]) : sendlist'[q][i] \in K
  <2> DEFINE u == Keep(sendlist[q], K)
  <2>1. sendlist[q] \in Seq(Entries)
    BY <1>3
  <2>2. u \in Seq(Entries) /\ Within(u, sendlist[q]) /\ \A i \in 1..Len(u) : u[i] \in K
    BY <2>1, WithinKeep
  <2>3. sendlist' = [sendlist EXCEPT ![q] = u]
    BY <1>1
  <2> HIDE DEF u
  <2>4. /\ sendlist' \in [Threads -> Seq(Entries)] /\ sendlist'[q] = u
        /\ \A r \in Threads \ {q} : sendlist'[r] = sendlist[r]
    BY <1>3, <2>2, <2>3
  <2>5. ASSUME NEW r \in Threads \ {q} PROVE Within(sendlist'[r], sendlist[r])
    BY <1>3, <2>4, WithinSame
  <2> QED
    BY <2>2, <2>4, <2>5
<1>5. /\ msgq' \in [Threads -> Seq(Msgs)]
      /\ \A r \in Threads : Within(msgq'[r], msgq[r])
      /\ \A r \in Threads \ {q} : msgq'[r] = msgq[r]
      /\ \A i \in 1..Len(msgq'[q]) : msgq'[q][i] \in Msgs \ S
  <2> DEFINE N == Msgs \ S
             u == Keep(msgq[q], N)
  <2>1. msgq[q] \in Seq(Msgs)
    BY <1>3
  <2>2. u \in Seq(Msgs) /\ Within(u, msgq[q]) /\ \A i \in 1..Len(u) : u[i] \in N
    BY <2>1, WithinKeep
  <2>3. msgq' = [msgq EXCEPT ![q] = u]
    BY <1>1
  <2> HIDE DEF u
  <2>4. /\ msgq' \in [Threads -> Seq(Msgs)] /\ msgq'[q] = u
        /\ \A r \in Threads \ {q} : msgq'[r] = msgq[r]
    BY <1>3, <2>2, <2>3
  <2>5. ASSUME NEW r \in Threads \ {q} PROVE Within(msgq'[r], msgq[r])
    BY <1>3, <2>4, WithinSame
  <2> QED
    BY <2>2, <2>4, <2>5
<1>6. ASSUME NEW r \in Threads, NEW i \in 1..Len(sendlist'[r])
      PROVE  sendlist'[r][i].m \notin M
  <2>1. CASE r = q
    BY <1>1, <1>2, <1>4, <2>1
  <2>2. CASE r # q
    <3>1. sendlist'[r] = sendlist[r] /\ i \in 1..Len(sendlist[r])
      BY <1>4, <2>2
    <3>2. fate[sendlist[r][i].m] = "sent"
      BY <3>1, EntryIs
    <3>3. \A j \in 1..Len(sendlist[q]) : sendlist[q][j].m # sendlist[r][i].m
      BY <2>2, <3>1 DEF Parts, Listed, SentOnce
    <3> QED
      BY <1>1, <3>1, <3>2, <3>3
  <2> QED
    BY <2>1, <2>2
<1>7. ASSUME NEW r \in Threads, NEW i \in 1..Len(msgq'[r])
      PROVE  msgq'[r][i] \notin M
  <2>1. CASE r = q
    BY <1>1, <1>5, <2>1
  <2>2. CASE r # q
    <3>1. msgq'[r] = msgq[r] /\ i \in 1..Len(msgq[r])
      BY <1>5, <2>2
    <3>2. fate[msgq[r][i]] = "posted"
      BY <3>1, PostIs
    <3>3. \A j \in 1..Len(msgq[q]) : msgq[q][j] # msgq[r][i]
      BY <2>2, <3>1 DEF Parts, Listed, PostedOnce
    <3> QED
      BY <1>1, <3>1, <3>2, <3>3
  <2> QED
    BY <2>1, <2>2
<1>8. \A m \in Msgs \ M : fate'[m] = fate[m]
  BY <1>1
<1>9. SentOnce'
  BY <1>4, <1>6, <1>8, SentStay
<1>10. PostedOnce'
  BY <1>5, <1>7, <1>8, PostedStay
<1>11. ASSUME NEW r \in Threads
       PROVE  /\ sendlist'[r] # <<>> => sendlist[r] # <<>>
              /\ msgq'[r] # <<>> => msgq[r] # <<>>
  <2>1. /\ sendlist'[r] \in Seq(Entries) /\ sendlist[r] \in Seq(Entries)
        /\ msgq'[r] \in Seq(Msgs) /\ msgq[r] \in Seq(Msgs)
    BY <1>3, <1>4, <1>5
  <2>2. /\ sendlist'[r] # <<>> => 1 \in 1..Len(sendlist'[r])
        /\ msgq'[r] # <<>> => 1 \in 1..Len(msgq'[r])
        /\ sendlist[r] = <<>> => \A p \in 1..Len(sendlist[r]) : FALSE
        /\ msgq[r] = <<>> => \A p \in 1..Len(msgq[r]) : FALSE
    BY <2>1
  <2> QED
    BY <1>4, <1>5, <2>2 DEF Within
<1> QED
  BY <1>4, <1>5, <1>9, <1>10, <1>11 DEF Listed

LEMMA RemoveKeeps ==
  ASSUME Parts, NEW a \in Actors, NEW q \in Threads, NEW S, RemoveFrom(q, S),
         UNCHANGED <<hasSends, fStop>>, NEW k, Becomes(a, k, k), Shape',
         \A i \in (k + 1)..Len(stack[a]) : stack[a][i].pc = "join",
         a \in Threads => k = Len(stack[a]),
         ~At(a, "s_wakeup"), ~At(a, "rs_wake")
  PROVE  SendInv' /\ SendsGoOn
<1> DEFINE M == Cleared(q, S)
           R == {s.m : s \in Sends(q, S)}
<1>1. /\ \A s \in Sends(q, S) :
           /\ s.m \in M /\ s.thread \in Actors /\ InSend(s.thread, s.m)
           /\ fate[s.m] = "sent" /\ signaled'[s.thread]
      /\ \A m \in M : m \in Msgs /\ fate[m] \in {"sent", "posted"}
      /\ ready' = ready \cup R
      /\ \A m \in Msgs : fate'[m] = IF m \in M THEN "cleared" ELSE fate[m]
      /\ fate' \in [Msgs -> Fates] /\ ready' \in SUBSET Msgs
      /\ signaled' \in [Actors -> BOOLEAN] /\ \A b \in Actors : signaled[b] => signaled'[b]
  BY ClearedIs
<1>2. \A m \in R : /\ m \in M /\ fate[m] = "sent"
                   /\ \E b \in Actors : InSend(b, m) /\ signaled'[b]
  BY <1>1
<1> HIDE DEF M, R
<1>3. /\ k \in Nat /\ k <= Len(stack[a]) /\ Len(stack[a]) \in Nat
      /\ Len(stack'[a]) = k /\ \A i \in (k + 1)..k : FALSE
  BY DEF Becomes, Parts
<1>4. ASSUME NEW b \in Actors, NEW m, InSend(b, m) PROVE InSend(b, m)'
  <2>1. b = a => \A i \in (k + 1)..Len(stack[a]) :
           stack[a][i].pc \in Senders /\ stack[a][i].m = m =>
             i <= k /\ stack'[a][i].pc \in Senders /\ stack'[a][i].m = m
    BY DEF Senders
  <2> QED
    BY <1>4, <2>1, InSendKept DEF Parts
<1>5. SendsGoOn
  BY <1>4 DEF SendsGoOn
<1>6. /\ sendlist' \in [Threads -> Seq(Entries)] /\ msgq' \in [Threads -> Seq(Msgs)]
      /\ Listed'
      /\ \A r \in Threads : /\ sendlist'[r] # <<>> => sendlist[r] # <<>>
                            /\ msgq'[r] # <<>> => msgq[r] # <<>>
  BY <1>5, ClearedLists
<1>7. TypeOK'
  <2>1. stack' \in [Actors -> Seq(Frames)]
    BY DEF Becomes
  <2> QED
    BY <1>1, <1>6, <2>1 DEF Parts, TypeOK, Frames, Entries
<1>8. OneMaker'
  <2>1. ASSUME NEW b \in Actors, NEW i \in 1..Len(stack[b]), stack[b][i].pc \in Makers
        PROVE  /\ fate'[stack[b][i].m] # "unused"
               /\ stack[b][i].pc \in {"s_push", "p_push"} => fate'[stack[b][i].m] = "sending"
               /\ stack[b][i].pc = "s_rewake" => stack[b][i].m \in ready'
    <3>1. stack[b][i].m \in Msgs
      BY <2>1 DEF Parts, FrameOK
    <3>2. /\ fate[stack[b][i].m] # "unused"
          /\ stack[b][i].pc \in {"s_push", "p_push"} => fate[stack[b][i].m] = "sending"
          /\ stack[b][i].pc = "s_rewake" => stack[b][i].m \in ready
      BY <2>1 DEF Parts, OneMaker
    <3> QED
      BY <1>1, <3>1, <3>2
  <2>2. TypeOK /\ OneMaker
    BY DEF Parts
  <2> QED
    BY <1>3, <2>1, <2>2, MakerKept
<1>9. Known'
  BY <1>6 DEF Parts, Known
<1>10. Runs'
  <2>1. \A m \in Msgs : fate[m] = "running" => fate'[m] = "running"
    BY <1>1
  <2>2. TypeOK /\ Runs
    BY DEF Parts
  <2> QED
    BY <1>3, <2>1, <2>2, RunsKept
<1>11. \A m \in Msgs : fate[m] \in {"running", "done"} =>
         fate'[m] \in {"running", "done"} /\ (fate[m] = "done" => fate'[m] = "done")
  BY <1>1
<1>12. \A m \in ready' : fate'[m] \in {"done", "cleared"}
  <2>1. \A m \in ready : m \in Msgs /\ fate[m] \in {"done", "cleared"}
    BY Typed DEF Parts, Handled
  <2> QED
    BY <1>1, <1>2, <2>1
<1>13. ASSUME NEW b \in Actors, NEW i \in 1..Len(stack[b]), stack[b][i].m \in ready' \ ready
       PROVE  /\ stack[b][i].pc = "s_wait" => Woken(b)'
              /\ stack[b][i].pc # "rs_ready"
  <2>1. stack[b][i].m \in R
    BY <1>1, <1>13
  <2>2. PICK c \in Actors : InSend(c, stack[b][i].m) /\ signaled'[c]
    BY <1>2, <2>1
  <2>3. fate[stack[b][i].m] = "sent"
    BY <1>2, <2>1
  <2>4. stack[b][i].pc # "rs_ready"
    BY <2>3 DEF Parts, Handled, HandlingOK
  <2>5. CASE stack[b][i].pc = "s_wait"
    <3>1. PICK j \in 1..Len(stack[c]) : stack[c][j].pc \in Senders /\ stack[c][j].m = stack[b][i].m
      <4>1. stack[c] \in Seq(Frames)
        BY Typed DEF Parts
      <4> QED
        BY <2>2, <4>1 DEF InSend, Senders
    <3>2. OneMaker /\ stack[b][i].pc \in Makers /\ stack[c][j].pc \in Makers
      BY <2>5, <3>1 DEF Parts, Makers, Senders
    <3>3. b = c
      BY <3>1, <3>2 DEF OneMaker
    <3> QED
      BY <2>2, <2>4, <3>3 DEF Woken
  <2> QED
    BY <2>4, <2>5
<1>14. ASSUME NEW b \in Actors, Woken(b) PROVE Woken(b)'
  <2>1. TypeOK /\ (signaled[b] => signaled'[b]) /\ \A m : InSend(b, m) /\ b \in Outsiders => InSend(b, m)'
    BY <1>1, <1>4 DEF Parts
  <2> QED
    BY <1>14, <2>1, WokenKept
<1>15. \A b \in Actors : Woken(b) =>
         Woken(b)' \/ (b = a /\ (k = 0 \/ \E j \in (k + 1)..k : stack'[a][j].waited))
  BY <1>14
<1>16. \A j \in (k + 1)..Len(stack[a]) : ~stack[a][j].waited /\ stack[a][j].pc \notin Receives
  <2>1. \A j \in (k + 1)..Len(stack[a]) : j \in 1..Len(stack[a])
    BY <1>3
  <2>2. \A j \in (k + 1)..Len(stack[a]) : FrameOK(stack[a][j])
    BY <2>1 DEF Parts
  <2>3. stack[a] \in Seq(Frames)
    BY Typed DEF Parts
  <2> QED
    BY <2>1, <2>2, <2>3 DEF FrameOK, Frames, Receives
<1>17. \A r \in Threads :
         /\ sendlist'[r] # <<>> => sendlist[r] # <<>> \/ Woken(r)'
         /\ msgq'[r] # <<>> => msgq[r] # <<>> \/ Woken(r)'
         /\ fStop'[r] => fStop[r] \/ Woken(r)'
  BY <1>6
<1>18. a \in Threads => SleepOK(a)'
  <2> SUFFICES ASSUME a \in Threads PROVE SleepOK(a)'
    OBVIOUS
  <2>1. SleepOK(a)
    BY DEF Parts, Sleeps
  <2>2. Len(stack'[a]) = Len(stack[a]) /\ (Len(stack[a]) = 1 => stack'[a][1] = stack[a][1])
    BY <1>3 DEF Becomes
  <2> QED
    BY <1>6, <1>14, <2>1, <2>2 DEF SleepOK
<1>19. /\ ~(k < k) /\ (k < Len(stack[a]) => stack[a][k + 1].pc # "run")
  BY <1>3
<1> QED
  BY <1>3, <1>5, <1>6, <1>7, <1>8, <1>9, <1>10, <1>11, <1>12, <1>13, <1>15, <1>16, <1>17, <1>18,
     <1>19, Keeps

LEMMA ClearKeeps ==
  ASSUME Parts, NEW a \in Actors, NEW q \in Threads, NEW S, Clear(a, q, S)
  PROVE  SendInv' /\ SendsGoOn
<1>1. /\ Running(a) /\ RemoveFrom(q, S) /\ UNCHANGED <<hasSends, fStop>> /\ UNCHANGED stack
  BY DEF Clear
<1>2. ~At(a, "s_wakeup") /\ ~At(a, "rs_wake")
  BY <1>1 DEF Running, At
<1>3. Becomes(a, Len(stack[a]), Len(stack[a]))
  BY <1>1, NoPush DEF Parts
<1>4. Shape'
  BY <1>1 DEF Parts, Shape
<1>5. \A i \in (Len(stack[a]) + 1)..Len(stack[a]) : stack[a][i].pc = "join"
  BY <1>3 DEF Becomes
<1> QED
  BY <1>1, <1>2, <1>3, <1>4, <1>5, RemoveKeeps

LEMMA JoinedKeeps ==
  ASSUME Parts, NEW o \in Outsiders, Joined(o)
  PROVE  SendInv' /\ SendsGoOn
<1> DEFINE pc == "join"
<1>0. o \in Actors /\ o \notin Threads
  BY ThreadSendAssumption DEF Actors
<1>1. PICK n \in Nat \ {0}, f \in Frames : Innermost(o, pc, n, f)
  BY <1>0, InnermostIs DEF Joined
<1>2. f = Top(o) /\ f.pc = "join" /\ f.peer \in Threads /\ At(o, "join")
  BY <1>1 DEF Innermost, FrameOK
<1>3. /\ Return(o) /\ RemoveFrom(f.peer, Msgs) /\ UNCHANGED <<hasSends, fStop>>
  BY <1>2 DEF Joined
<1>4. pc \notin Loops /\ pc \notin Receives \cup Senders
  BY DEF Loops, Receives, Senders
<1> HIDE DEF pc
<1>5. Shape'
  BY <1>0, <1>1, <1>3, <1>4, ReturnKeeps
<1>6. PICK k \in Nat : Becomes(o, k, k) /\ Len(stack[o]) = k + 1 /\ f = stack[o][k + 1]
  BY <1>0, <1>1, <1>3, <1>4, ReturnKeeps
<1>7. \A i \in (k + 1)..Len(stack[o]) : stack[o][i].pc = "join"
  BY <1>2, <1>6
<1>8. ~At(o, "s_wakeup") /\ ~At(o, "rs_wake")
  BY <1>2 DEF At
<1> QED
  BY <1>0, <1>2, <1>3, <1>5, <1>6, <1>7, <1>8, RemoveKeeps

\* Thread::Stop asks a thread to stop, and wakes it.
LEMMA StopKeeps ==
  ASSUME Parts, NEW o \in Outsiders, NEW q \in Threads, Stop(o, q)
  PROVE  SendInv' /\ SendsGoOn
<1>0. o \in Actors /\ o \notin Threads /\ q \in Actors
  BY ThreadSendAssumption DEF Actors
<1>1. /\ stack[o] = <<>> /\ fStop' = [fStop EXCEPT ![q] = TRUE]
      /\ signaled' = [signaled EXCEPT ![q] = TRUE]
      /\ stack' = [stack EXCEPT ![o] = <<Frame("join", None, q, FALSE)>>]
      /\ UNCHANGED <<sendlist, hasSends, msgq, ready, fate>>
  BY DEF Stop
<1>2. /\ stack \in [Actors -> Seq(Frames)] /\ fStop \in [Threads -> BOOLEAN]
      /\ signaled \in [Actors -> BOOLEAN]
  BY Typed DEF Parts
<1>3. Len(stack[o]) = 0 /\ \A pc : ~At(o, pc)
  BY <1>1 DEF At
<1>4. PICK h \in Frames : /\ h = Frame("join", None, q, FALSE) /\ h.pc = "join"
                          /\ h.waited = FALSE /\ h.peer = q
  <2> DEFINE h == Frame("join", None, q, FALSE)
  <2>1. h \in Frames /\ h.pc = "join" /\ h.waited = FALSE /\ h.peer = q
    BY <1>0 DEF Frame, Frames, PCs
  <2> QED
    BY <2>1
<1>5. Becomes(o, 0, 1) /\ stack'[o][1] = h
  <2> DEFINE t == <<h>>
  <2>1. t \in Seq(Frames) /\ Len(t) = 1 /\ t[1] = h
    OBVIOUS
  <2>2. stack' = [stack EXCEPT ![o] = t]
    BY <1>1, <1>4
  <2> HIDE DEF t
  <2>3. /\ stack' \in [Actors -> Seq(Frames)] /\ stack'[o] = t
        /\ \A b \in Actors \ {o} : stack'[b] = stack[b]
    BY <1>0, <1>2, <2>1, <2>2
  <2> QED
    BY <1>3, <2>1, <2>3 DEF Becomes
<1>6. /\ \A i \in (0 + 1)..1 : i = 1
      /\ \A i \in (0 + 1)..Len(stack[o]) : FALSE
      /\ Len(stack'[o]) = 1 /\ \A i \in 1..Len(stack'[o]) : i = 1
  BY <1>3, <1>5 DEF Becomes
<1>7. FrameOK(h)
  BY <1>4 DEF FrameOK, Makers
<1>8. TypeOK'
  BY <1>1, <1>2, <1>5 DEF Becomes, Parts, TypeOK, Frames
<1>9. Shape'
  <2>1. \A b \in Actors : b # o => stack'[b] = stack[b]
    BY <1>5 DEF Becomes
  <2>2. \A b \in Actors : \A i \in 1..Len(stack'[b]) : FrameOK(stack'[b][i])
    BY <1>5, <1>6, <1>7, <2>1 DEF Parts
  <2>3. \A b \in Outsiders : b \in Actors
    BY DEF Actors
  <2>4. \A b \in Threads : b \in Actors /\ b # o
    BY <1>0 DEF Actors
  <2>5. \A b \in Outsiders :
          /\ Len(stack'[b]) <= 1
          /\ \A i \in 1..Len(stack'[b]) : stack'[b][i].pc \in Makers \cup {"join"}
    <3> SUFFICES ASSUME NEW b \in Outsiders
                 PROVE  /\ Len(stack'[b]) <= 1
                        /\ \A i \in 1..Len(stack'[b]) : stack'[b][i].pc \in Makers \cup {"join"}
      OBVIOUS
    <3>1. CASE b = o
      <4>1. stack'[o][1].pc \in Makers \cup {"join"}
        BY <1>4, <1>5
      <4>2. Len(stack'[o]) = 1 /\ \A i \in 1..1 : i = 1
        BY <1>6
      <4>3. \A i \in 1..Len(stack'[o]) : stack'[o][i].pc \in Makers \cup {"join"}
        BY <4>1, <4>2
      <4>4. Len(stack'[o]) <= 1
        BY <4>2
      <4> QED
        BY <3>1, <4>3, <4>4, Zenon
    <3>2. CASE b # o
      <4>1. stack'[b] = stack[b]
        BY <2>1, <2>3, <3>2
      <4> QED
        BY <4>1 DEF Parts, Shape
    <3> QED
      BY <3>1, <3>2
  <2> QED
    BY <2>1, <2>2, <2>4, <2>5 DEF Parts, Shape
<1>10. OneMaker'
  <2>1. \A i \in (0 + 1)..1 : stack'[o][i].pc \notin Makers
    BY <1>4, <1>5, <1>6 DEF Makers
  <2>2. TypeOK /\ OneMaker
    BY DEF Parts
  <2> QED
    <3>1. ASSUME NEW b \in Actors, NEW i \in 1..Len(stack[b]), stack[b][i].pc \in Makers
          PROVE  /\ fate'[stack[b][i].m] # "unused"
                 /\ stack[b][i].pc \in {"s_push", "p_push"} => fate'[stack[b][i].m] = "sending"
                 /\ stack[b][i].pc = "s_rewake" => stack[b][i].m \in ready'
      BY <1>1, <2>2, <3>1 DEF OneMaker
    <3> QED
      BY <1>0, <1>5, <2>1, <2>2, <3>1, MakerKept
<1>11. ASSUME NEW b \in Actors, NEW m, InSend(b, m) PROVE InSend(b, m)'
  BY <1>0, <1>5, <1>6, <1>11, InSendKept DEF Parts
<1>12. SendsGoOn
  BY <1>11 DEF SendsGoOn
<1>13. Listed'
  BY <1>1, <1>12, ListsStay
<1>14. Known'
  BY <1>1 DEF Parts, Known
<1>15. Runs'
  <2>1. \A i \in (0 + 1)..1 : stack'[o][i].pc # "run"
    BY <1>4, <1>5, <1>6
  <2>2. TypeOK /\ Runs
    BY DEF Parts
  <2> QED
    BY <1>0, <1>1, <1>5, <2>1, <2>2, RunsKept
<1>16. \A m \in ready' : fate'[m] \in {"done", "cleared"}
  BY <1>1 DEF Parts, Handled
<1>17. ASSUME NEW b \in Actors, Woken(b) PROVE Woken(b)'
  <2>1. signaled[b] => signaled'[b]
    BY <1>1, <1>2
  <2>2. TypeOK /\ \A m : InSend(b, m) /\ b \in Outsiders => InSend(b, m)'
    BY <1>11 DEF Parts
  <2> QED
    BY <1>0, <1>3, <1>5, <1>17, <2>1, <2>2, WokenKept
<1>18. \A b \in Actors : Woken(b) =>
         Woken(b)' \/ (b = o /\ (0 = 0 \/ \E j \in (0 + 1)..1 : stack'[o][j].waited))
  BY <1>17
<1>19. \A i \in (0 + 1)..1 : WaitOK(o, i)' /\ stack'[o][i].pc # "rs_ready"
  BY <1>4, <1>5, <1>6 DEF WaitOK
<1>20. \A r \in Threads :
         /\ sendlist'[r] # <<>> => sendlist[r] # <<>> \/ Woken(r)'
         /\ msgq'[r] # <<>> => msgq[r] # <<>> \/ Woken(r)'
         /\ fStop'[r] => fStop[r] \/ Woken(r)'
  BY <1>0, <1>1, <1>2 DEF Woken
<1>21. ~(0 < Len(stack[o])) /\ ~(0 < 0) /\ Becomes(o, 0, 1)
  BY <1>3, <1>5
<1>22. \A m \in Msgs : fate[m] \in {"running", "done"} =>
         fate'[m] \in {"running", "done"} /\ (fate[m] = "done" => fate'[m] = "done")
  BY <1>1
<1>23. \A b \in Actors : \A i \in 1..Len(stack[b]) :
         /\ stack[b][i].m \in ready' \ ready
         => /\ stack[b][i].pc = "s_wait" => Woken(b)'
            /\ stack[b][i].pc = "rs_ready" => b = o /\ i > 0
  BY <1>1
<1> QED
  BY <1>0, <1>6, <1>8, <1>9, <1>10, <1>12, <1>13, <1>14, <1>15, <1>16, <1>18, <1>19,
     <1>20, <1>21, <1>22, <1>23, Keeps

-------------------------------------------------------------------------------
\* One step of the loop of Thread::Run: it goes on alone, calls ReceiveSends, or
\* dispatches the first message with ReceiveSends to come before the next.
Looped(a, n) ==
  /\ n \in {1, 2, 3} /\ Becomes(a, 0, n)
  /\ stack'[a][1].pc \in Loops
  /\ n # 1 => stack'[a][1].pc = "get_queue" /\ stack'[a][2].pc = "rs_test"
  /\ n = 3 => stack'[a][3].pc = "run"
  /\ \A i \in 1..n : FrameOK(stack'[a][i])
  /\ UNCHANGED <<sendlist, hasSends, fStop, ready>>
  /\ signaled' \in [Actors -> BOOLEAN] /\ \A b \in Actors \ {a} : signaled[b] => signaled'[b]
  /\ \/ n # 3 /\ UNCHANGED <<msgq, fate>>
     \/ /\ n = 3 /\ msgq[a] # <<>> /\ stack'[a][3].m = Head(msgq[a])
        /\ msgq' = [msgq EXCEPT ![a] = Tail(@)]
        /\ fate' = [fate EXCEPT ![Head(msgq[a])] = "running"]

LEMMA LoopAlone ==
  ASSUME Parts, NEW a \in Threads, NEW pc \in Loops, At(a, pc)
  PROVE  /\ Len(stack[a]) = 1 /\ stack[a] # <<>> /\ stack[a][1].pc = pc
         /\ Innermost(a, pc, 1, stack[a][1]) /\ SleepOK(a)
<1>0. a \in Actors
  BY DEF Actors
<1>1. PICK n \in Nat \ {0}, f \in Frames : Innermost(a, pc, n, f)
  BY <1>0, InnermostIs
<1>2. n = Len(stack[a]) /\ stack[a][n].pc \in Loops /\ stack[a][n].pc = pc
  BY <1>1 DEF Innermost
<1>3. n = 1
  <2>1. \A i \in 2..Len(stack[a]) : stack[a][i].pc \notin Loops
    BY DEF Parts, Shape
  <2>2. n # 1 => n \in 2..n
    OBVIOUS
  <2>3. n \notin 2..n
    BY <1>2, <2>1
  <2> QED
    BY <2>2, <2>3
<1>4. SleepOK(a)
  BY DEF Parts, Sleeps
<1>5. Innermost(a, pc, 1, stack[a][1])
  BY <1>1, <1>3 DEF Innermost
<1> QED
  BY <1>2, <1>3, <1>4, <1>5 DEF At

\* The first message of the queue is running, the others are as they were.
LEMMA FirstPost ==
  ASSUME Parts, SendsGoOn, NEW a \in Threads, msgq[a] # <<>>,
         msgq' = [msgq EXCEPT ![a] = Tail(@)],
         fate' = [fate EXCEPT ![Head(msgq[a])] = "running"], UNCHANGED sendlist
  PROVE  /\ Listed' /\ msgq' \in [Threads -> Seq(Msgs)] /\ fate' \in [Msgs -> Fates]
         /\ Head(msgq[a]) \in Msgs /\ fate[Head(msgq[a])] = "posted"
         /\ \A m \in Msgs : fate'[m] = IF m = Head(msgq[a]) THEN "running" ELSE fate[m]
         /\ \A r \in Threads : msgq'[r] # <<>> => msgq[r] # <<>>
<1>1. msgq \in [Threads -> Seq(Msgs)] /\ fate \in [Msgs -> Fates]
  BY Typed DEF Parts
<1>2. /\ msgq' \in [Threads -> Seq(Msgs)] /\ \A r \in Threads \ {a} : msgq'[r] = msgq[r]
      /\ Len(msgq[a]) \in Nat \ {0} /\ Len(msgq'[a]) = Len(msgq[a]) - 1
      /\ Head(msgq[a]) = msgq[a][1] /\ Head(msgq[a]) \in Msgs
      /\ \A i \in 1..(Len(msgq[a]) - 1) : msgq'[a][i] = msgq[a][i + 1]
  BY <1>1, TailOf
<1>3. 1 \in 1..Len(msgq[a]) /\ fate[Head(msgq[a])] = "posted"
  <2>1. 1 \in 1..Len(msgq[a])
    BY <1>2
  <2> QED
    BY <1>2, <2>1, PostIs
<1>4. PICK m \in Msgs : m = Head(msgq[a])
  BY <1>2
<1>5. /\ fate' \in [Msgs -> Fates]
      /\ \A l \in Msgs : fate'[l] = IF l = m THEN "running" ELSE fate[l]
  BY <1>1, <1>4 DEF Fates
<1> DEFINE M == {m}
<1>6. \A l \in Msgs \ M : fate'[l] = fate[l]
  BY <1>5
<1>7. ASSUME NEW r \in Threads, NEW i \in 1..Len(sendlist'[r]) PROVE sendlist'[r][i].m \notin M
  BY <1>3, <1>4, EntryIs
<1>8. \A r \in Threads : Within(msgq'[r], msgq[r])
  BY <1>1, WithinTail
<1>9. ASSUME NEW r \in Threads, NEW i \in 1..Len(msgq'[r]) PROVE msgq'[r][i] \notin M
  <2>1. PICK j \in 1..Len(msgq[r]) : msgq'[r][i] = msgq[r][j] /\ (r = a => j # 1)
    <3>1. CASE r = a
      <4>1. PICK l \in Nat \ {0} : l = Len(msgq[a])
        BY <1>2
      <4>2. i \in 1..(l - 1) /\ i + 1 \in 1..l /\ i + 1 # 1
        BY <1>2, <3>1, <4>1
      <4> QED
        BY <1>2, <3>1, <4>1, <4>2
    <3>2. CASE r # a
      BY <1>2, <3>2
    <3> QED
      BY <3>1, <3>2
  <2>2. msgq[r][j] # msgq[a][1]
    <3>1. ~(r = a /\ j = 1)
      BY <2>1
    <3> QED
      BY <1>3, <3>1 DEF Parts, Listed, PostedOnce
  <2> QED
    BY <1>2, <1>4, <2>1, <2>2
<1> HIDE DEF M
<1>10. SentOnce'
  BY <1>6, <1>7, SameWithin, SentStay
<1>11. PostedOnce'
  BY <1>6, <1>8, <1>9, PostedStay
<1>12. ASSUME NEW r \in Threads, msgq'[r] # <<>> PROVE msgq[r] # <<>>
  BY <1>2, <1>12
<1> QED
  BY <1>2, <1>3, <1>4, <1>5, <1>10, <1>11, <1>12 DEF Listed

LEMMA LoopKeeps ==
  ASSUME Parts, NEW a \in Threads, NEW pc \in Loops, At(a, pc), NEW n, Looped(a, n),
         SleepOK(a)'
  PROVE  SendInv' /\ SendsGoOn
<1>0. a \in Actors /\ a \notin Outsiders
  BY ThreadSendAssumption DEF Actors
<1>1. Len(stack[a]) = 1 /\ stack[a][1].pc \in Loops
  BY LoopAlone
<1>2. /\ n \in Nat /\ 0 <= n /\ 0 # n /\ n \in 1..3
      /\ Becomes(a, 0, n) /\ Len(stack'[a]) = n
      /\ \A i \in (0 + 1)..n : i = 1 \/ (i = 2 /\ n # 1) \/ (i = 3 /\ n = 3)
      /\ \A i \in (0 + 1)..Len(stack[a]) : i = 1
      /\ 1 \in 1..n /\ (n # 1 => 2 \in 1..n) /\ (n = 3 => 3 \in 1..n)
  BY <1>1 DEF Looped, Becomes
<1>3. /\ stack'[a][1].pc \in Loops
      /\ n # 1 => stack'[a][1].pc = "get_queue" /\ stack'[a][2].pc = "rs_test"
      /\ n = 3 => stack'[a][3].pc = "run"
      /\ \A i \in 1..n : FrameOK(stack'[a][i])
      /\ UNCHANGED <<sendlist, hasSends, fStop, ready>>
      /\ signaled' \in [Actors -> BOOLEAN]
      /\ \A b \in Actors \ {a} : signaled[b] => signaled'[b]
  BY DEF Looped
<1>4. \A b \in Actors : b # a => stack'[b] = stack[b]
  BY <1>2 DEF Becomes
<1>5. ASSUME NEW b \in Actors, NEW m, InSend(b, m) PROVE InSend(b, m)'
  <2>1. b = a => \A i \in (0 + 1)..Len(stack[a]) :
           stack[a][i].pc \in Senders /\ stack[a][i].m = m =>
             i <= n /\ stack'[a][i].pc \in Senders /\ stack'[a][i].m = m
    BY <1>1, <1>2 DEF Senders, Loops
  <2> QED
    BY <1>0, <1>2, <1>5, <2>1, InSendKept DEF Parts
<1>6. SendsGoOn
  BY <1>5 DEF SendsGoOn
<1>7. /\ Listed' /\ msgq' \in [Threads -> Seq(Msgs)] /\ fate' \in [Msgs -> Fates]
      /\ \A r \in Threads : msgq'[r] # <<>> => msgq[r] # <<>>
      /\ \E M \in SUBSET Msgs :
           /\ \A m \in M : fate[m] = "posted"
           /\ \A m \in Msgs : fate'[m] = IF m \in M THEN "running" ELSE fate[m]
           /\ n = 3 => stack'[a][3].m \in M
  <2>1. CASE n # 3 /\ UNCHANGED <<msgq, fate>>
    <3>1. Listed'
      <4> DEFINE M == {}
      <4>1. (\A m \in Msgs \ M : fate'[m] = fate[m]) /\ \A m \in M \cap Msgs : FALSE
        BY <2>1
      <4> HIDE DEF M
      <4> QED
        BY <1>3, <1>6, <2>1, <4>1, ListsStay
    <3>2. msgq' \in [Threads -> Seq(Msgs)] /\ fate' \in [Msgs -> Fates]
      BY <2>1, Typed DEF Parts
    <3>3. PICK M \in SUBSET Msgs : M = {}
      OBVIOUS
    <3>4. /\ \A m \in M : fate[m] = "posted"
          /\ \A m \in Msgs : fate'[m] = IF m \in M THEN "running" ELSE fate[m]
          /\ n # 3
      BY <2>1, <3>3
    <3> QED
      BY <2>1, <3>1, <3>2, <3>4
  <2>2. CASE /\ n = 3 /\ msgq[a] # <<>> /\ stack'[a][3].m = Head(msgq[a])
             /\ msgq' = [msgq EXCEPT ![a] = Tail(@)]
             /\ fate' = [fate EXCEPT ![Head(msgq[a])] = "running"]
    <3>1. /\ Listed' /\ msgq' \in [Threads -> Seq(Msgs)] /\ fate' \in [Msgs -> Fates]
          /\ Head(msgq[a]) \in Msgs /\ fate[Head(msgq[a])] = "posted"
          /\ \A m \in Msgs : fate'[m] = IF m = Head(msgq[a]) THEN "running" ELSE fate[m]
          /\ \A r \in Threads : msgq'[r] # <<>> => msgq[r] # <<>>
      BY <1>3, <1>6, <2>2, FirstPost
    <3>2. PICK M \in SUBSET Msgs : M = {Head(msgq[a])}
      BY <3>1
    <3>3. /\ \A m \in M : fate[m] = "posted"
          /\ \A m \in Msgs : fate'[m] = IF m \in M THEN "running" ELSE fate[m]
          /\ stack'[a][3].m \in M
      BY <2>2, <3>1, <3>2
    <3> QED
      BY <3>1, <3>3
  <2> QED
    BY <2>1, <2>2 DEF Looped
<1>8. PICK M \in SUBSET Msgs :
           /\ \A m \in M : fate[m] = "posted"
           /\ \A m \in Msgs : fate'[m] = IF m \in M THEN "running" ELSE fate[m]
           /\ n = 3 => stack'[a][3].m \in M
  BY <1>7
<1>9. TypeOK'
  <2>1. stack' \in [Actors -> Seq(Frames)]
    BY <1>2 DEF Becomes
  <2> QED
    BY <1>3, <1>7, <2>1 DEF Parts, TypeOK, Frames
<1>10. Shape'
  <2>1. Shape
    BY DEF Parts
  <2>2. \A b \in Actors : \A i \in 1..Len(stack'[b]) : FrameOK(stack'[b][i])
    BY <1>2, <1>3, <1>4, <2>1 DEF Shape
  <2>3. \A b \in Outsiders : stack'[b] = stack[b]
    BY <1>0, <1>4 DEF Actors
  <2>4. ASSUME NEW b \in Threads
        PROVE  /\ Len(stack'[b]) >= 1
               /\ stack'[b][1].pc \in Loops
               /\ Len(stack'[b]) > 1 => stack'[b][1].pc = "get_queue"
               /\ Len(stack'[b]) > 1 => stack'[b][2].pc \in Receives
               /\ \A i \in 2..Len(stack'[b]) : stack'[b][i].pc \notin Loops \cup {"join"}
    <3>1. CASE b # a
      <4>1. stack'[b] = stack[b]
        BY <1>4, <3>1 DEF Actors
      <4> QED
        BY <2>1, <4>1 DEF Shape
    <3>2. CASE b = a
      <4>1. n # 1 => stack'[a][2].pc \in Receives /\ stack'[a][2].pc \notin Loops \cup {"join"}
        BY <1>3 DEF Receives, Loops
      <4>2. n = 3 => stack'[a][3].pc \notin Loops \cup {"join"}
        BY <1>3 DEF Loops
      <4>3. \A i \in 2..n : (i = 2 /\ n # 1) \/ (i = 3 /\ n = 3)
        BY <1>2
      <4>4. \A i \in 2..n : stack'[a][i].pc \notin Loops \cup {"join"}
        BY <4>1, <4>2, <4>3
      <4>5. n >= 1 /\ (n > 1 => n # 1)
        BY <1>2
      <4> QED
        BY <1>2, <1>3, <3>2, <4>1, <4>4, <4>5
    <3> QED
      BY <3>1, <3>2
  <2> QED
    BY <2>1, <2>2, <2>3, <2>4 DEF Shape
<1>11. \A i \in (0 + 1)..n : /\ stack'[a][i].pc \notin Makers \cup {"rs_ready", "s_wait"}
                             /\ stack'[a][i].pc = "run" => i = 3 /\ n = 3
  BY <1>2, <1>3 DEF Makers, Loops
<1>12. OneMaker'
  <2>1. ASSUME NEW b \in Actors, NEW i \in 1..Len(stack[b]), stack[b][i].pc \in Makers
        PROVE  /\ fate'[stack[b][i].m] # "unused"
               /\ stack[b][i].pc \in {"s_push", "p_push"} => fate'[stack[b][i].m] = "sending"
               /\ stack[b][i].pc = "s_rewake" => stack[b][i].m \in ready'
    <3>1. stack[b][i].m \in Msgs
      BY <2>1 DEF Parts, FrameOK
    <3>2. /\ fate[stack[b][i].m] # "unused"
          /\ stack[b][i].pc \in {"s_push", "p_push"} => fate[stack[b][i].m] = "sending"
          /\ stack[b][i].pc = "s_rewake" => stack[b][i].m \in ready
      BY <2>1 DEF Parts, OneMaker
    <3> QED
      BY <1>3, <1>8, <3>1, <3>2
  <2>2. TypeOK /\ OneMaker
    BY DEF Parts
  <2> QED
    BY <1>0, <1>2, <1>11, <2>1, <2>2, MakerKept
<1>13. Known'
  BY <1>3 DEF Parts, Known
<1>14. Runs'
  <2>1. \A m \in Msgs : fate[m] = "running" => fate'[m] = "running"
    BY <1>8
  <2>2. \A i \in (0 + 1)..n : stack'[a][i].pc = "run" =>
          /\ stack'[a][i].m \in Msgs =>
               fate'[stack'[a][i].m] = "running" /\ fate[stack'[a][i].m] # "running"
          /\ \A j \in (0 + 1)..n : stack'[a][j].pc = "run" => i = j
    BY <1>8, <1>11
  <2>3. TypeOK /\ Runs
    BY DEF Parts
  <2> QED
    BY <1>0, <1>2, <2>1, <2>2, <2>3, RunsKept
<1>15. \A m \in Msgs : fate[m] \in {"running", "done"} =>
         fate'[m] \in {"running", "done"} /\ (fate[m] = "done" => fate'[m] = "done")
  BY <1>8
<1>16. \A m \in ready' : fate'[m] \in {"done", "cleared"}
  <2>1. \A m \in ready : m \in Msgs /\ fate[m] \in {"done", "cleared"}
    BY Typed DEF Parts, Handled
  <2> QED
    BY <1>3, <1>8, <2>1
<1>17. \A b \in Actors : \A i \in 1..Len(stack[b]) :
         /\ stack[b][i].m \in ready' \ ready
         => /\ stack[b][i].pc = "s_wait" => Woken(b)'
            /\ stack[b][i].pc = "rs_ready" => b = a /\ i > 0
  BY <1>3
<1>18. ASSUME NEW b \in Actors, b # a, Woken(b) PROVE Woken(b)'
  <2>1. signaled[b] => signaled'[b]
    BY <1>3, <1>18
  <2>2. ~At(a, "s_wakeup") /\ ~At(a, "rs_wake")
    BY DEF At, Loops
  <2>3. TypeOK /\ \A m : InSend(b, m) /\ b \in Outsiders => InSend(b, m)'
    BY <1>5 DEF Parts
  <2> QED
    BY <1>0, <1>2, <1>18, <2>1, <2>2, <2>3, WokenKept
<1>19. \A b \in Actors : Woken(b) =>
         Woken(b)' \/ (b = a /\ (0 = 0 \/ \E j \in (0 + 1)..n : stack'[a][j].waited))
  BY <1>18
<1>20. \A i \in (0 + 1)..n : WaitOK(a, i)' /\ stack'[a][i].pc # "rs_ready"
  BY <1>11 DEF WaitOK
<1>21. /\ \A j \in (0 + 1)..Len(stack[a]) : stack[a][j].pc \notin Receives
       /\ stack[a][0 + 1].pc # "run" /\ ~(0 < 0)
  BY <1>1, <1>2 DEF Loops, Receives
<1>22. \A r \in Threads :
         /\ sendlist'[r] # <<>> => sendlist[r] # <<>> \/ Woken(r)'
         /\ msgq'[r] # <<>> => msgq[r] # <<>> \/ Woken(r)'
         /\ fStop'[r] => fStop[r] \/ Woken(r)'
  BY <1>3, <1>7
<1>23. \A j \in (0 + 1)..Len(stack[a]) :
         /\ stack[a][j].waited =>
              Woken(a)' \/ 0 = 0 \/ \E h \in (0 + 1)..n : stack'[a][h].waited
         /\ stack[a][j].pc \in Receives =>
              \/ sendlist'[a] = <<>> \/ Woken(a)'
              \/ \E h \in (0 + 1)..n : stack'[a][h].pc \in Receives \/ stack'[a][h].waited
  BY <1>21
<1>24. Becomes(a, 0, n) /\ 0 # n /\ 0 # Len(stack[a])
  BY <1>1, <1>2
<1> QED
  BY <1>0, <1>6, <1>7, <1>9, <1>10, <1>12, <1>13, <1>14, <1>15, <1>16, <1>17, <1>19, <1>20, <1>21,
     <1>22, <1>23, <1>24, Keeps

LEMMA GetStopKeeps ==
  ASSUME Parts, NEW a \in Threads, GetStop(a)
  PROVE  SendInv' /\ SendsGoOn
<1> DEFINE pc == "get_stop"
           to == IF fStop[a] THEN "exited" ELSE "get_wait"
<1>0. a \in Actors /\ pc \in Loops /\ At(a, pc)
  BY DEF Actors, Loops, GetStop
<1>1. UNCHANGED <<sendlist, hasSends, msgq, fStop, signaled, ready, fate>>
  BY DEF GetStop
<1>2. /\ Len(stack[a]) = 1 /\ stack[a][1].pc = "get_stop" /\ SleepOK(a)
      /\ stack \in [Actors -> Seq(Frames)] /\ stack[a] # <<>>
  BY <1>0, LoopAlone DEF Innermost
<1>3. PICK h \in Frames : h = LoopAt(to) /\ h.pc = to
  <2> DEFINE h == LoopAt(to)
  <2>1. h \in Frames /\ h.pc = to
    BY DEF LoopAt, Frame, Frames, PCs
  <2> QED
    BY <2>1
<1>4. Goto(a, h)
  BY <1>3 DEF GetStop
<1>5. Becomes(a, Len(stack[a]) - 1, Len(stack[a])) /\ stack'[a][Len(stack[a])] = h
  BY <1>0, <1>2, <1>4, GotoBecomes
<1>6. Becomes(a, 0, 1) /\ stack'[a][1] = h /\ \A i \in 1..1 : i = 1
  BY <1>2, <1>5
<1>7. to \in Loops /\ (to = "get_wait" => ~fStop[a]) /\ to \in {"exited", "get_wait"}
  BY DEF Loops
<1> HIDE DEF to, pc
<1>8. h.pc \in Loops /\ FrameOK(h)
  <2>1. h.waited = FALSE
    BY <1>3 DEF LoopAt, Frame
  <2> QED
    BY <1>3, <1>7, <2>1 DEF FrameOK, Makers, Loops
<1>9. signaled \in [Actors -> BOOLEAN]
  BY Typed DEF Parts
<1>10. Looped(a, 1)
  BY <1>1, <1>6, <1>8, <1>9 DEF Looped
<1>11. Woken(a) => Woken(a)'
  <2>1. ~At(a, "s_wakeup") /\ ~At(a, "rs_wake")
    BY DEF GetStop, At
  <2>2. \A m : a \notin Outsiders
    BY ThreadSendAssumption
  <2> QED
    BY <1>0, <1>1, <1>6, <2>1, <2>2, WokenKept DEF Parts
<1>12. SleepOK(a)'
  <2>1. stack[a][1].pc \in {"get_stop", "get_wait"} /\ stack[a][1].pc # "exited"
    BY <1>2
  <2>2. /\ sendlist[a] # <<>> => Woken(a)'
        /\ msgq[a] # <<>> => Woken(a)'
    BY <1>2, <1>11, <2>1 DEF SleepOK
  <2>3. stack'[a][1].pc = "get_wait" => ~fStop'[a]
    BY <1>1, <1>3, <1>6, <1>7
  <2> QED
    BY <1>1, <2>2, <2>3 DEF SleepOK
<1> QED
  BY <1>0, <1>10, <1>12, LoopKeeps

LEMMA GetWaitKeeps ==
  ASSUME Parts, NEW a \in Threads, GetWait(a)
  PROVE  SendInv' /\ SendsGoOn
<1> DEFINE pc == "get_wait"
<1>0. a \in Actors /\ pc \in Loops /\ At(a, pc)
  BY DEF Actors, Loops, GetWait
<1>1. /\ UNCHANGED <<sendlist, hasSends, msgq, fStop, ready, fate>>
      /\ signaled' = [signaled EXCEPT ![a] = FALSE] /\ Call(a, Loop)
  BY DEF GetWait
<1>2. Innermost(a, pc, 1, stack[a][1])
  BY <1>0, LoopAlone
<1>3. PICK g \in Frames, h \in Frames :
         /\ Loop = <<g, h>> /\ g.pc = "get_queue" /\ g.waited = FALSE
         /\ h.pc = "rs_test" /\ h.waited = FALSE
  <2> DEFINE g == LoopAt("get_queue")
             h == Receiving
  <2>1. /\ g \in Frames /\ h \in Frames /\ Loop = <<g, h>>
        /\ g.pc = "get_queue" /\ g.waited = FALSE /\ h.pc = "rs_test" /\ h.waited = FALSE
    BY DEF LoopAt, Receiving, Frame, Frames, PCs, Loop
  <2> QED
    BY <2>1
<1>4. PICK fs \in Seq(Frames) : fs = <<g, h>> /\ Len(fs) = 2 /\ fs[1] = g /\ fs[2] = h
  BY TwoFrames
<1>5. Call(a, fs)
  BY <1>1, <1>3, <1>4
<1> HIDE DEF pc
<1>6. /\ Becomes(a, 1 - 1, 1 - 1 + Len(fs))
      /\ \A i \in 1..Len(fs) : stack'[a][1 - 1 + i] = fs[i]
  BY <1>0, <1>2, <1>5, CallStep
<1>7. Becomes(a, 0, 2) /\ stack'[a][1] = g /\ stack'[a][2] = h
  BY <1>4, <1>6
<1>8. FrameOK(g) /\ FrameOK(h) /\ g.pc \in Loops /\ \A i \in 1..2 : i = 1 \/ i = 2
  BY <1>3 DEF FrameOK, Makers, Loops
<1>9. signaled \in [Actors -> BOOLEAN]
  BY Typed DEF Parts
<1>10. Looped(a, 2)
  BY <1>0, <1>1, <1>3, <1>7, <1>8, <1>9 DEF Looped
<1>11. SleepOK(a)'
  BY <1>7 DEF Becomes, SleepOK
<1> QED
  BY <1>0, <1>10, <1>11, LoopKeeps

LEMMA GetQueueKeeps ==
  ASSUME Parts, NEW a \in Threads, GetQueue(a)
  PROVE  SendInv' /\ SendsGoOn
<1> DEFINE pc == "get_queue"
<1>0. a \in Actors /\ pc \in Loops /\ At(a, pc)
  BY DEF Actors, Loops, GetQueue
<1>1. UNCHANGED <<sendlist, hasSends, fStop, signaled, ready>>
  BY DEF GetQueue
<1>2. /\ Len(stack[a]) = 1 /\ stack[a][1].pc = "get_queue" /\ SleepOK(a)
      /\ stack \in [Actors -> Seq(Frames)] /\ stack[a] # <<>>
      /\ Innermost(a, pc, 1, stack[a][1])
  BY <1>0, LoopAlone DEF Innermost
<1> HIDE DEF pc
<1>3. signaled \in [Actors -> BOOLEAN] /\ msgq \in [Threads -> Seq(Msgs)]
  BY Typed DEF Parts
<1>4. CASE msgq[a] = <<>>
  <2>1. PICK h \in Frames : h = LoopAt("get_stop") /\ h.pc = "get_stop" /\ h.waited = FALSE
    <3> DEFINE h == LoopAt("get_stop")
    <3>1. h \in Frames /\ h.pc = "get_stop" /\ h.waited = FALSE
      BY DEF LoopAt, Frame, Frames, PCs
    <3> QED
      BY <3>1
  <2>2. Goto(a, h) /\ UNCHANGED <<msgq, fate>>
    BY <1>4, <2>1 DEF GetQueue
  <2>3. Becomes(a, Len(stack[a]) - 1, Len(stack[a])) /\ stack'[a][Len(stack[a])] = h
    BY <1>0, <1>2, <2>2, GotoBecomes
  <2>4. Becomes(a, 0, 1) /\ stack'[a][1] = h /\ \A i \in 1..1 : i = 1
    BY <1>2, <2>3
  <2>5. h.pc \in Loops /\ FrameOK(h)
    BY <2>1 DEF FrameOK, Makers, Loops
  <2>6. Looped(a, 1)
    BY <1>1, <1>3, <2>2, <2>4, <2>5 DEF Looped
  <2>7. Woken(a) => Woken(a)'
    <3>1. ~At(a, "s_wakeup") /\ ~At(a, "rs_wake")
      BY DEF GetQueue, At
    <3>2. \A m : a \notin Outsiders
      BY ThreadSendAssumption
    <3> QED
      BY <1>0, <1>1, <2>4, <3>1, <3>2, WokenKept DEF Parts
  <2>8. SleepOK(a)'
    <3>1. sendlist[a] # <<>> => Woken(a)'
      BY <1>2, <2>7 DEF SleepOK
    <3>2. stack'[a][1].pc # "get_wait"
      BY <2>1, <2>4
    <3> QED
      BY <1>1, <1>4, <2>2, <3>1, <3>2 DEF SleepOK
  <2> QED
    BY <1>0, <2>6, <2>8, LoopKeeps
<1>5. CASE msgq[a] # <<>>
  <2>1. PICK m \in Msgs : m = Head(msgq[a])
    <3>1. msgq[a] \in Seq(Msgs)
      BY <1>3
    <3> QED
      BY <1>5, <3>1, HeadTailProperties
  <2>2. PICK g \in Frames, h \in Frames, r \in Frames :
           /\ Loop = <<g, h>> /\ g.pc = "get_queue" /\ g.waited = FALSE
           /\ h.pc = "rs_test" /\ h.waited = FALSE
           /\ r = Handler(m) /\ r.pc = "run" /\ r.m = m /\ r.waited = FALSE
    <3> DEFINE g == LoopAt("get_queue")
               h == Receiving
               r == Handler(m)
    <3>1. /\ g \in Frames /\ h \in Frames /\ Loop = <<g, h>>
          /\ g.pc = "get_queue" /\ g.waited = FALSE /\ h.pc = "rs_test" /\ h.waited = FALSE
      BY DEF LoopAt, Receiving, Frame, Frames, PCs, Loop
    <3>2. r \in Frames /\ r.pc = "run" /\ r.m = m /\ r.waited = FALSE
      BY DEF Handler, Frame, Frames, PCs
    <3> QED
      BY <3>1, <3>2
  <2>3. PICK fs \in Seq(Frames) : /\ fs = Loop \o <<r>> /\ Len(fs) = 3
                                  /\ fs[1] = g /\ fs[2] = h /\ fs[3] = r
    <3>1. PICK s \in Seq(Frames) : s = <<g, h>> /\ Len(s) = 2 /\ s[1] = g /\ s[2] = h
      BY TwoFrames
    <3>2. PICK t \in Seq(Frames) : t = <<r>> /\ Len(t) = 1 /\ t[1] = r
      BY OneFrame
    <3>3. /\ s \o t \in Seq(Frames) /\ Len(s \o t) = Len(s) + Len(t)
          /\ \A i \in 1..(Len(s) + Len(t)) :
               (s \o t)[i] = IF i <= Len(s) THEN s[i] ELSE t[i - Len(s)]
      BY ConcatProperties
    <3>4. s \o t = Loop \o <<r>>
      BY <2>2, <3>1, <3>2
    <3>5. /\ s \o t \in Seq(Frames) /\ Len(s \o t) = 3
          /\ (s \o t)[1] = g /\ (s \o t)[2] = h /\ (s \o t)[3] = r
      BY <3>1, <3>2, <3>3
    <3> QED
      BY <3>4, <3>5
  <2>4. /\ Call(a, fs) /\ msgq' = [msgq EXCEPT ![a] = Tail(@)]
        /\ fate' = [fate EXCEPT ![Head(msgq[a])] = "running"]
    <3>1. /\ Call(a, Loop \o <<Handler(Head(msgq[a]))>>) /\ msgq' = [msgq EXCEPT ![a] = Tail(@)]
          /\ fate' = [fate EXCEPT ![Head(msgq[a])] = "running"]
      BY <1>5 DEF GetQueue
    <3> QED
      BY <2>1, <2>2, <2>3, <3>1
  <2>5. /\ Becomes(a, 1 - 1, 1 - 1 + Len(fs))
        /\ \A i \in 1..Len(fs) : stack'[a][1 - 1 + i] = fs[i]
    <3>1. Call(a, fs)
      BY <2>4
    <3>2. Innermost(a, pc, 1, stack[a][1])
      BY <1>2
    <3> QED
      BY <1>0, <3>1, <3>2, CallStep
  <2>6. Becomes(a, 0, 3) /\ stack'[a][1] = g /\ stack'[a][2] = h /\ stack'[a][3] = r
    <3>1. /\ Len(fs) = 3 /\ 1 - 1 = 0 /\ 1 - 1 + 3 = 3 /\ 1 - 1 + 1 = 1 /\ 1 - 1 + 2 = 2
          /\ 1 \in 1..3 /\ 2 \in 1..3 /\ 3 \in 1..3
      BY <2>3
    <3>2. Becomes(a, 0, 3)
      BY <2>5, <3>1
    <3>3. stack'[a][1] = fs[1] /\ stack'[a][2] = fs[2] /\ stack'[a][3] = fs[3]
      BY <2>5, <3>1
    <3> QED
      BY <2>3, <3>2, <3>3
  <2>7. /\ FrameOK(g) /\ FrameOK(h) /\ FrameOK(r) /\ g.pc \in Loops
        /\ \A i \in 1..3 : i = 1 \/ i = 2 \/ i = 3
    BY <2>2 DEF FrameOK, Makers, Loops
  <2>8. Looped(a, 3)
    BY <1>1, <1>3, <1>5, <2>1, <2>2, <2>4, <2>6, <2>7 DEF Looped
  <2>9. SleepOK(a)'
    BY <2>6 DEF Becomes, SleepOK
  <2> QED
    BY <1>0, <2>8, <2>9, LoopKeeps
<1> QED
  BY <1>4, <1>5

-------------------------------------------------------------------------------
LEMMA StutterKeeps ==
  ASSUME Parts, UNCHANGED vars
  PROVE  SendInv' /\ SendsGoOn
<1>1. UNCHANGED <<sendlist, hasSends, msgq, fStop, signaled, ready, stack, fate>>
  BY DEF vars
<1>2. TypeOK' /\ Known'
  BY <1>1 DEF Parts, TypeOK, Known
<1>3. Shape' /\ OneMaker' /\ Runs'
  BY <1>1 DEF Parts, Shape, OneMaker, Runs
<1>4. \A b \in Actors : \A m : InSend(b, m) <=> InSend(b, m)'
  BY <1>1 DEF InSend
<1>5. SendsGoOn
  BY <1>4 DEF SendsGoOn
<1>6. Listed'
  <2> DEFINE M == {}
  <2>1. (\A m \in Msgs \ M : fate'[m] = fate[m]) /\ \A m \in M \cap Msgs : FALSE
    BY <1>1
  <2> HIDE DEF M
  <2> QED
    BY <1>1, <1>5, <2>1, ListsStay
<1>7. Handled'
  BY <1>1 DEF Parts, Handled, HandlingOK, InSend
<1>8. \A b \in Actors : Woken(b) => Woken(b)'
  BY <1>1 DEF Woken, At, Top, Gone, InSend
<1>9. Waits'
  BY <1>1, <1>8 DEF Parts, Waits, WaitOK, Owed, Looks
<1>10. Sleeps'
  <2>1. \A b \in Threads : b \in Actors
    BY DEF Actors
  <2> QED
    BY <1>1, <1>8, <2>1 DEF Parts, Sleeps, SleepOK
<1> QED
  BY <1>2, <1>3, <1>5, <1>6, <1>7, <1>9, <1>10 DEF SendInv

LEMMA NextKeeps ==
  ASSUME SendInv, [Next]_vars
  PROVE  SendInv' /\ SendsGoOn
<1>1. Parts
  BY PartsHold
<1>2. CASE UNCHANGED vars
  BY <1>1, <1>2, StutterKeeps
<1>3. ASSUME NEW a \in Actors, Advance(a) PROVE SendInv' /\ SendsGoOn
  <2>1. CASE SendPush(a) \/ SendWakeUp(a) \/ SendCheck(a) \/ SendWait(a) \/ SendRewake(a)
    BY <1>1, <2>1, SendPushKeeps, SendWakeUpKeeps, SendCheckKeeps, SendWaitKeeps, SendRewakeKeeps
  <2>2. CASE PostPush(a)
    BY <1>1, <2>2, PostPushKeeps
  <2>3. CASE a \in Threads /\ (ReceiveTest(a) \/ ReceiveReady(a) \/ ReceiveWake(a))
    BY <1>1, <2>3, ReceiveTestKeeps, ReceiveReadyKeeps, ReceiveWakeKeeps
  <2>4. CASE a \in Threads /\ (GetQueue(a) \/ GetStop(a) \/ GetWait(a) \/ HandlerReturn(a))
    BY <1>1, <2>4, GetQueueKeeps, GetStopKeeps, GetWaitKeeps, HandlerReturnKeeps
  <2>5. CASE a \in Outsiders /\ Joined(a)
    BY <1>1, <2>5, JoinedKeeps
  <2> QED
    BY <1>3, <2>1, <2>2, <2>3, <2>4, <2>5 DEF Advance
<1>4. ASSUME NEW a \in Actors, NEW q \in Threads, NEW m \in Msgs,
             StartSend(a, q, m) \/ StartPost(a, q, m)
      PROVE  SendInv' /\ SendsGoOn
  BY <1>1, <1>4, StartSendKeeps, StartPostKeeps
<1>5. ASSUME NEW a \in Actors, NEW q \in Threads, NEW S \in (SUBSET Msgs) \ {{}}, Clear(a, q, S)
      PROVE  SendInv' /\ SendsGoOn
  BY <1>1, <1>5, ClearKeeps
<1>6. ASSUME NEW o \in Outsiders, NEW q \in Stoppable, Stop(o, q)
      PROVE  SendInv' /\ SendsGoOn
  <2>1. q \in Threads
    BY ThreadSendAssumption
  <2> QED
    BY <1>1, <1>6, <2>1, StopKeeps
<1> QED
  BY <1>2, <1>3, <1>4, <1>5, <1>6 DEF Next

\* At first the threads are in their loops, those with code of their own before it in a
\* handler, and the outsiders outside.
LEMMA InitSend == Init => SendInv
<1> SUFFICES ASSUME Init PROVE SendInv
  OBVIOUS
<1>1. PICK g \in Frames, h \in Frames, r \in Frames :
         /\ Loop = <<g, h>> /\ g.pc = "get_queue" /\ g.waited = FALSE
         /\ h.pc = "rs_test" /\ h.waited = FALSE
         /\ r = Handler(None) /\ r.pc = "run" /\ r.m = None /\ r.waited = FALSE
  <2> DEFINE g == LoopAt("get_queue")
             h == Receiving
             r == Handler(None)
  <2>1. /\ g \in Frames /\ h \in Frames /\ Loop = <<g, h>>
        /\ g.pc = "get_queue" /\ g.waited = FALSE /\ h.pc = "rs_test" /\ h.waited = FALSE
    BY DEF LoopAt, Receiving, Frame, Frames, PCs, Loop
  <2>2. r \in Frames /\ r.pc = "run" /\ r.m = None /\ r.waited = FALSE
    BY DEF Handler, Frame, Frames, PCs
  <2> QED
    BY <2>1, <2>2
<1>2. /\ \A a \in Threads : a \in Actors /\ a \notin Outsiders
      /\ \A a \in Outsiders : a \in Actors /\ a \notin Threads
      /\ \A a \in Actors : a \in Threads \/ a \in Outsiders
      /\ None \notin Msgs
  BY ThreadSendAssumption DEF Actors, Msgs
<1>3. ASSUME NEW a \in Threads
      PROVE  /\ stack[a] \in Seq(Frames) /\ Len(stack[a]) \in {2, 3}
             /\ stack[a][1] = g /\ stack[a][2] = h
             /\ Len(stack[a]) = 3 => stack[a][3] = r
  <2>1. PICK s \in Seq(Frames) : s = <<g, h>> /\ Len(s) = 2 /\ s[1] = g /\ s[2] = h
    BY TwoFrames
  <2>2. CASE a \in Starters
    <3>1. PICK t \in Seq(Frames) : t = <<r>> /\ Len(t) = 1 /\ t[1] = r
      BY OneFrame
    <3>2. /\ s \o t \in Seq(Frames) /\ Len(s \o t) = Len(s) + Len(t)
          /\ \A i \in 1..(Len(s) + Len(t)) :
               (s \o t)[i] = IF i <= Len(s) THEN s[i] ELSE t[i - Len(s)]
      BY ConcatProperties
    <3>3. stack[a] = s \o t
      BY <1>1, <1>2, <2>1, <2>2, <3>1 DEF Init
    <3>4. /\ s \o t \in Seq(Frames) /\ Len(s \o t) = 3
          /\ (s \o t)[1] = g /\ (s \o t)[2] = h /\ (s \o t)[3] = r
      BY <2>1, <3>1, <3>2
    <3> QED
      BY <3>3, <3>4
  <2>3. CASE a \notin Starters
    <3>1. stack[a] = s \o <<>>
      BY <1>1, <1>2, <2>1, <2>3 DEF Init
    <3>2. s \o <<>> = s
      BY ConcatEmptySeq
    <3> QED
      BY <2>1, <3>1, <3>2
  <2> QED
    BY <2>2, <2>3
<1>4. \A a \in Outsiders : stack[a] = <<>> /\ Len(stack[a]) = 0
  BY <1>2 DEF Init
<1>5. /\ sendlist = [q \in Threads |-> <<>>] /\ hasSends = [q \in Threads |-> FALSE]
      /\ msgq = [q \in Threads |-> <<>>] /\ fStop = [q \in Threads |-> FALSE]
      /\ signaled = [a \in Actors |-> FALSE] /\ ready = {}
      /\ fate = [m \in Msgs |-> "unused"]
  BY DEF Init
<1>6. ASSUME NEW a \in Actors, NEW i \in 1..Len(stack[a])
      PROVE  /\ a \in Threads /\ FrameOK(stack[a][i])
             /\ stack[a][i].pc \in {"get_queue", "rs_test", "run"}
             /\ stack[a][i].pc = "run" => stack[a][i].m \notin Msgs
             /\ i # 1 => stack[a][i].pc \notin Loops \cup {"join"}
  <2>1. a \in Threads
    BY <1>2, <1>4
  <2>2. (i = 1 /\ stack[a][i] = g) \/ (i = 2 /\ stack[a][i] = h) \/ stack[a][i] = r
    <3>1. CASE Len(stack[a]) = 2
      <4>1. i = 1 \/ i = 2
        BY <3>1
      <4> QED
        BY <1>3, <2>1, <4>1
    <3>2. CASE Len(stack[a]) = 3
      <4>1. i = 1 \/ i = 2 \/ i = 3
        BY <3>2
      <4> QED
        BY <1>3, <2>1, <3>2, <4>1
    <3> QED
      BY <1>3, <2>1, <3>1, <3>2
  <2>3. FrameOK(g) /\ FrameOK(h) /\ FrameOK(r)
    BY <1>1 DEF FrameOK, Makers
  <2> QED
    BY <1>1, <1>2, <2>1, <2>2, <2>3 DEF Loops
<1>7. TypeOK
  <2>1. stack \in [Actors -> Seq(Frames)]
    <3>1. \A a \in Actors : stack[a] \in Seq(Frames)
      <4>1. <<>> \in Seq(Frames)
        BY EmptySeq
      <4> QED
        BY <1>2, <1>3, <1>4, <4>1
    <3>2. stack = [a \in Actors |-> stack[a]]
      BY DEF Init
    <3> QED
      BY <3>1, <3>2
  <2>2. sendlist \in [Threads -> Seq(Entries)] /\ msgq \in [Threads -> Seq(Msgs)]
    BY <1>5, EmptySeq
  <2> QED
    BY <1>5, <2>1, <2>2 DEF TypeOK, Frames, Entries, Fates
<1>8. Shape
  <2>1. ASSUME NEW a \in Threads
        PROVE  /\ Len(stack[a]) >= 1
               /\ stack[a][1].pc \in Loops
               /\ Len(stack[a]) > 1 => stack[a][1].pc = "get_queue"
               /\ Len(stack[a]) > 1 => stack[a][2].pc \in Receives
               /\ \A i \in 2..Len(stack[a]) : stack[a][i].pc \notin Loops \cup {"join"}
    <3>1. \A i \in 2..Len(stack[a]) : i \in 1..Len(stack[a]) /\ i # 1
      BY <1>3
    <3>2. \A i \in 2..Len(stack[a]) : stack[a][i].pc \notin Loops \cup {"join"}
      BY <1>2, <1>6, <3>1
    <3> QED
      BY <1>1, <1>3, <3>2 DEF Loops, Receives
  <2>2. \A a \in Outsiders :
          /\ Len(stack[a]) <= 1
          /\ \A i \in 1..Len(stack[a]) : stack[a][i].pc \in Makers \cup {"join"}
    BY <1>4
  <2> QED
    BY <1>6, <2>1, <2>2 DEF Shape
<1>9. OneMaker /\ Runs
  BY <1>6 DEF OneMaker, Runs, Makers
<1>10. Listed /\ Known
  <2>1. \A q \in Threads : sendlist[q] = <<>> /\ msgq[q] = <<>>
    BY <1>5
  <2> QED
    BY <2>1 DEF Listed, SentOnce, PostedOnce, Known
<1>11. Handled
  BY <1>5, <1>6 DEF Handled
<1>12. Waits
  BY <1>6 DEF Waits, WaitOK
<1>13. Sleeps
  BY <1>3 DEF Sleeps, SleepOK
<1> QED
  BY <1>7, <1>8, <1>9, <1>10, <1>11, <1>12, <1>13 DEF SendInv

LEMMA Inductive == Spec => []SendInv
<1>1. SendInv /\ [Next]_vars => SendInv'
  BY NextKeeps
<1> QED
  BY InitSend, <1>1, PTL DEF Spec

-------------------------------------------------------------------------------
\* The variables keep their types in every behaviour (the send list, the queue, the
\* wake-up and the calls in progress of each thread of thread.cc and messagequeue.cc).
THEOREM TypeCorrect == Spec => []TypeOK
<1>1. SendInv => TypeOK
  BY DEF SendInv
<1> QED
  BY Inductive, <1>1, PTL

\* A sender that waits for a finished message, or a thread that sleeps while a send, a
\* message or a stop is there for it, has a wake-up on its way (Thread::Send's Wait loop
\* and its WakeUp at the end; MessageQueue::Get).
THEOREM WakeUpsAreKept == Spec => []NoLostWakeup
<1>1. ASSUME SendInv PROVE NoLostWakeup
  <2> SUFFICES ASSUME NEW a \in Actors
               PROVE  /\ At(a, "s_wait") /\ (Top(a).m \in ready \/
                                             (a \in Threads /\ sendlist[a] # <<>>))
                           => WakeComing(a)
                      /\ At(a, "get_wait") /\ (sendlist[a] # <<>> \/ msgq[a] # <<>> \/ fStop[a])
                           => WakeComing(a)
    BY DEF NoLostWakeup
  <2>1. Parts
    BY <1>1, PartsHold
  <2>2. Woken(a) => WakeComing(a)
    BY DEF Woken, WakeComing
  <2>3. ASSUME At(a, "s_wait"), Top(a).m \in ready \/ (a \in Threads /\ sendlist[a] # <<>>)
        PROVE  WakeComing(a)
    <3> DEFINE pc == "s_wait"
    <3>1. PICK n \in Nat \ {0}, f \in Frames : Innermost(a, pc, n, f)
      BY <2>1, <2>3, InnermostIs
    <3>2. n = Len(stack[a]) /\ n \in 1..Len(stack[a]) /\ stack[a][n] = Top(a) /\ Top(a).pc = "s_wait"
      BY <3>1 DEF Innermost
    <3>3. \A j \in (n + 1)..Len(stack[a]) : FALSE
      BY <3>2
    <3>4. WaitOK(a, n)
      BY <2>1, <3>2 DEF Parts, Waits
    <3> QED
      BY <2>2, <2>3, <3>2, <3>3, <3>4 DEF WaitOK, Owed, Looks
  <2>4. ASSUME At(a, "get_wait"), sendlist[a] # <<>> \/ msgq[a] # <<>> \/ fStop[a]
        PROVE  WakeComing(a)
    <3> DEFINE pc == "get_wait"
    <3>1. pc \in Loops /\ At(a, pc) /\ pc \notin Makers \cup {"join"}
      BY <2>4 DEF Loops, Makers
    <3>2. a \in Threads
      <4>1. TypeOK /\ Shape
        BY <1>1 DEF SendInv
      <4>2. stack[a] # <<>> /\ Len(stack[a]) \in Nat \ {0} /\ stack[a][Len(stack[a])].pc = pc
        BY <3>1, <4>1, TopFrame
      <4>3. Len(stack[a]) \in 1..Len(stack[a])
        BY <4>2
      <4>4. a \notin Outsiders
        BY <3>1, <4>1, <4>2, <4>3 DEF Shape
      <4> QED
        BY <4>4 DEF Actors
    <3>3. Len(stack[a]) = 1 /\ stack[a][1].pc = "get_wait" /\ SleepOK(a)
      BY <2>1, <3>1, <3>2, LoopAlone
    <3> QED
      BY <2>2, <2>4, <3>3 DEF SleepOK
  <2> QED
    BY <2>3, <2>4
<1> QED
  BY Inductive, <1>1, PTL

\* The handler that ReceiveSends runs for another thread runs while that thread is still
\* inside its Send (the message's data may be a local variable of the sender).
THEOREM SenderWaits == Spec => []SenderBlockedWhileHandled
<1>1. ASSUME SendInv PROVE SenderBlockedWhileHandled
  <2> SUFFICES ASSUME NEW q \in Threads, NEW i \in DOMAIN stack[q], stack[q][i].pc = "rs_ready"
               PROVE  InSend(stack[q][i].peer, stack[q][i].m)
    BY DEF SenderBlockedWhileHandled
  <2>1. q \in Actors /\ stack[q] \in Seq(Frames)
    BY <1>1, Typed DEF SendInv, Actors
  <2>2. i \in 1..Len(stack[q])
    BY <2>1
  <2> QED
    BY <1>1, <2>1, <2>2 DEF SendInv, Handled, HandlingOK
<1> QED
  BY Inductive, <1>1, PTL

\* Send returns only when its message has been handled or cleared.
THEOREM SendsReturnLate == Spec => SendIsSynchronous
<1>1. ASSUME SendInv, [Next]_vars
      PROVE  [\A a \in Actors, m \in Msgs :
                InSend(a, m) /\ ~InSend(a, m)' => fate[m] \in {"done", "cleared"}]_vars
  <2>1. SendsGoOn
    BY <1>1, NextKeeps
  <2>2. \A m \in ready : fate[m] \in {"done", "cleared"}
    BY <1>1 DEF SendInv, Handled
  <2> QED
    BY <2>1, <2>2 DEF SendsGoOn
<1> QED
  BY Inductive, <1>1, PTL DEF Spec, SendIsSynchronous
=============================================================================
