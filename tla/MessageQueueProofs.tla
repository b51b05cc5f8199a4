-------------------------- MODULE MessageQueueProofs --------------------------
(***************************************************************************)
(* The locks of MessageQueueManager and of the queues, what goes away with *)
(* a handler, the wait of Get, and the mailbox that a queue implements,    *)
(* for any number of threads, handlers and messages.                       *)
(***************************************************************************)
EXTENDS MessageQueue, ListsProofs

\* A message is in a queue only if it was posted, and there is a number left for
\* each that is on its way.
Numbered ==
  /\ Len(post) + Cardinality(Posters) <= MaxMsgs
  /\ \A q \in Readers : In(q) \subseteq DOMAIN post

\* Until a Post has put its message into the queue the handler lives and the
\* queue is active or empty; while it makes the queue active, no other does.
PostOK(t) ==
  /\ pc[t] \in {"post", "add"} =>
       /\ posting[t] \in Postings /\ posting[t].h \in alive \cup {None}
       /\ posting[t].delayed \/ posting[t].due = 0
       /\ \A q \in Readers : posting[t].q = q => q \in ToSet(managed) \/ In(q) = {}
  /\ pc[t] = "add" =>
       /\ posting[t].q \notin ToSet(managed)
       /\ \A u \in Threads \ {t} : pc[u] = "add" => posting[u].q # posting[t].q

\* One thread at a time is in MessageQueueManager::Clear, and what it has still to
\* clear is still with the manager.
ClearOK(t) ==
  pc[t] = "clear" =>
    /\ \A u \in Threads \ {t} : pc[u] # "clear"
    /\ ToSet(todo) \subseteq ToSet(managed)
    /\ arg[t] \in Handlers \/ (arg[t] \in DOMAIN post /\ post[arg[t]].doomed # None)

\* A reader that deletes a disposed handler, or that has left its loop.
Ending(t) ==
  \/ pc[t] \in {"left", "removed", "gone", "dispose"}
  \/ pc[t] = "clear" /\ arg[t] \in Msgs

EndOK(t) ==
  /\ pc[t] = "dispose" => arg[t] \in DOMAIN post /\ post[arg[t]].doomed # None
  /\ Ending(t) => t \in Readers /\ (fStop[t] \/ t \in ToSet(managed))
  /\ pc[t] \in {"left", "removed", "gone"} => fStop[t]

Locks == \A t \in Threads : PostOK(t) /\ ClearOK(t) /\ EndOK(t)

\* Only a queue that is active, or that has stopped, has messages.
Inactive == \A q \in Readers : q \in ToSet(managed) \/ fStop[q] \/ In(q) = {}

\* The messages of a dead handler are in queues that its destructor has still to
\* clear.
Buried ==
  \A h \in Handlers \ alive : \A q \in Readers : \A m \in In(q) :
    /\ q \in ToSet(managed) \/ ~fStop[q]
    /\ post[m].h = h
    => \E t \in Threads : pc[t] = "clear" /\ Cleared(t) = h /\ q \in ToSet(todo)

Held == TypeOK /\ Numbered /\ Locks /\ Inactive /\ Buried

-------------------------------------------------------------------------------
\* The members of a list.
LEMMA ToSetProps ==
  ASSUME NEW E, NEW s \in Seq(E)
  PROVE  /\ ToSet(s) \subseteq E
         /\ s = <<>> <=> ToSet(s) = {}
         /\ \A x \in E : ToSet(Append(s, x)) = ToSet(s) \cup {x}
<1>1. Len(s) \in Nat /\ DOMAIN s = 1..Len(s)
  OBVIOUS
<1>2. ToSet(s) \subseteq E
  BY <1>1 DEF ToSet
<1>3. s = <<>> <=> ToSet(s) = {}
  <2>1. s = <<>> <=> Len(s) = 0
    BY EmptySeq
  <2>2. Len(s) # 0 => 1 \in DOMAIN s
    BY <1>1
  <2>3. Len(s) = 0 => DOMAIN s = {}
    BY <1>1
  <2> QED
    BY <2>1, <2>2, <2>3, Zenon DEF ToSet
<1>4. ASSUME NEW x \in E PROVE ToSet(Append(s, x)) = ToSet(s) \cup {x}
  <2> DEFINE a == Append(s, x)
  <2>1. /\ a \in Seq(E) /\ Len(a) = Len(s) + 1 /\ DOMAIN a = 1..(Len(s) + 1)
        /\ \A i \in 1..Len(s) : a[i] = s[i]
        /\ a[Len(s) + 1] = x
    BY AppendProperties, LenProperties
  <2> HIDE DEF a
  <2>2. \A i \in 1..(Len(s) + 1) : i \in 1..Len(s) \/ i = Len(s) + 1
    BY <1>1
  <2>3. ToSet(a) \subseteq ToSet(s) \cup {x}
    BY <1>1, <2>1, <2>2 DEF ToSet
  <2>4. ToSet(s) \cup {x} \subseteq ToSet(a)
    BY <1>1, <2>1 DEF ToSet
  <2> QED
    BY <2>3, <2>4 DEF a
<1> QED
  BY <1>2, <1>3, <1>4

LEMMA ToSetTail ==
  ASSUME NEW E, NEW s \in Seq(E), s # <<>>
  PROVE  /\ Head(s) \in ToSet(s) /\ Tail(s) \in Seq(E)
         /\ ToSet(s) = {Head(s)} \cup ToSet(Tail(s))
<1>1. /\ Len(s) \in Nat \ {0} /\ DOMAIN s = 1..Len(s)
      /\ Tail(s) \in Seq(E) /\ Len(Tail(s)) = Len(s) - 1 /\ DOMAIN Tail(s) = 1..(Len(s) - 1)
      /\ \A i \in 1..(Len(s) - 1) : Tail(s)[i] = s[i + 1]
      /\ Head(s) = s[1]
  BY HeadTailProperties, LenProperties, EmptySeq
<1>2. Head(s) \in ToSet(s)
  BY <1>1 DEF ToSet
<1>3. ToSet(Tail(s)) \subseteq ToSet(s)
  BY <1>1 DEF ToSet
<1>4. ASSUME NEW i \in 1..Len(s) PROVE s[i] \in {Head(s)} \cup ToSet(Tail(s))
  <2>1. CASE i = 1
    BY <1>1, <2>1
  <2>2. CASE i # 1
    <3>1. i - 1 \in 1..(Len(s) - 1) /\ (i - 1) + 1 = i
      BY <1>1, <2>2
    <3>2. Tail(s)[i - 1] = s[i]
      BY <1>1, <3>1
    <3> QED
      BY <1>1, <3>1, <3>2 DEF ToSet
  <2> QED
    BY <2>1, <2>2
<1> QED
  BY <1>1, <1>2, <1>3, <1>4 DEF ToSet

LEMMA ToSetConcat ==
  ASSUME NEW E, NEW s \in Seq(E), NEW t \in Seq(E)
  PROVE  s \o t \in Seq(E) /\ ToSet(s \o t) = ToSet(s) \cup ToSet(t)
<1>1. /\ Len(s) \in Nat /\ DOMAIN s = 1..Len(s) /\ Len(t) \in Nat /\ DOMAIN t = 1..Len(t)
      /\ s \o t \in Seq(E) /\ Len(s \o t) = Len(s) + Len(t)
      /\ \A i \in 1..(Len(s) + Len(t)) :
           (s \o t)[i] = IF i <= Len(s) THEN s[i] ELSE t[i - Len(s)]
  BY ConcatProperties, LenProperties
<1>2. DOMAIN (s \o t) = 1..(Len(s) + Len(t))
  BY <1>1
<1>3. ASSUME NEW i \in 1..(Len(s) + Len(t)) PROVE (s \o t)[i] \in ToSet(s) \cup ToSet(t)
  <2>1. i <= Len(s) => i \in 1..Len(s)
    BY <1>1
  <2>2. ~(i <= Len(s)) => i - Len(s) \in 1..Len(t)
    BY <1>1
  <2> QED
    BY <1>1, <2>1, <2>2 DEF ToSet
<1>4. ASSUME NEW i \in 1..Len(s) PROVE s[i] \in ToSet(s \o t)
  <2>1. i \in 1..(Len(s) + Len(t)) /\ i <= Len(s)
    BY <1>1
  <2>2. (s \o t)[i] = s[i]
    BY <1>1, <2>1
  <2> QED
    BY <1>2, <2>1, <2>2 DEF ToSet
<1>5. ASSUME NEW i \in 1..Len(t) PROVE t[i] \in ToSet(s \o t)
  <2>1. i + Len(s) \in 1..(Len(s) + Len(t)) /\ ~(i + Len(s) <= Len(s)) /\ (i + Len(s)) - Len(s) = i
    BY <1>1
  <2>2. (s \o t)[i + Len(s)] = t[i]
    BY <1>1, <2>1
  <2> QED
    BY <1>2, <2>1, <2>2 DEF ToSet
<1> QED
  BY <1>1, <1>2, <1>3, <1>4, <1>5 DEF ToSet

LEMMA ToSetKeep ==
  ASSUME NEW E, NEW s \in Seq(E), NEW K
  PROVE  Keep(s, K) \in Seq(E) /\ ToSet(Keep(s, K)) = ToSet(s) \cap K
<1>1. Keep(s, K) \in Seq(E)
  BY KeepType
<1>2. DOMAIN Keep(s, K) = 1..Len(Keep(s, K)) /\ DOMAIN s = 1..Len(s)
  BY <1>1, LenProperties
<1>3. /\ \A k \in 1..Len(Keep(s, K)) :
           Keep(s, K)[k] \in K /\ \E i \in 1..Len(s) : s[i] = Keep(s, K)[k]
      /\ \A i \in 1..Len(s) :
           s[i] \in K => \E k \in 1..Len(Keep(s, K)) : Keep(s, K)[k] = s[i]
  BY KeepMembers
<1> DEFINE w == Keep(s, K)
<1> HIDE DEF w
<1>4. ToSet(w) = ToSet(s) \cap K
  <2>1. /\ \A k \in DOMAIN w : w[k] \in K /\ \E i \in DOMAIN s : s[i] = w[k]
        /\ \A i \in DOMAIN s : s[i] \in K => \E k \in DOMAIN w : w[k] = s[i]
    BY <1>2, <1>3, Zenon DEF w
  <2> QED
    BY <2>1 DEF ToSet
<1> QED
  BY <1>1, <1>4 DEF w

-------------------------------------------------------------------------------
\* What was posted, and the queues it is in.
LEMMA PostFacts ==
  ASSUME TypeOK, Numbered
  PROVE  /\ post \in Seq(Postings) /\ Len(post) \in Nat
         /\ DOMAIN post = 1..Len(post) /\ DOMAIN post \subseteq Msgs
         /\ \A m \in DOMAIN post : post[m] \in Postings
         /\ IsFiniteSet(Posters) /\ Cardinality(Posters) \in Nat
         /\ Len(post) + Cardinality(Posters) <= MaxMsgs
<1>1. post \in Seq(Postings)
  BY DEF TypeOK, Postings
<1>2. Len(post) \in Nat /\ DOMAIN post = 1..Len(post) /\ MaxMsgs \in Nat
  BY <1>1, LenProperties, MessageQueueAssumption
<1>3. IsFiniteSet(Posters) /\ Cardinality(Posters) \in Nat
  <2>1. IsFiniteSet(Threads) /\ Posters \in SUBSET Threads
    BY MessageQueueAssumption DEF Posters
  <2> QED
    BY <2>1, FS_Subset, FS_CardinalityType
<1>4. Len(post) + Cardinality(Posters) <= MaxMsgs
  BY DEF Numbered
<1>5. DOMAIN post \subseteq Msgs
  BY <1>2, <1>3, <1>4 DEF Msgs
<1>6. \A m \in DOMAIN post : post[m] \in Postings
  BY <1>1, <1>2
<1> QED
  BY <1>1, <1>2, <1>3, <1>4, <1>5, <1>6

\* A step that starts and ends no Post leaves as many as before.
LEMMA SamePosters ==
  ASSUME \A u \in Threads : pc'[u] \in {"post", "add"} <=> pc[u] \in {"post", "add"}
  PROVE  Posters' = Posters
BY DEF Posters

LEMMA ClearQueueProps ==
  ASSUME TypeOK, NEW q \in Readers, NEW h, ClearQueue(q, h)
  PROVE  /\ msgq' \in [Readers -> Seq(Msgs)] /\ dmsgq' \in [Readers -> SUBSET Msgs]
         /\ UNCHANGED <<signaled, taken>>
         /\ \A r \in Readers \ {q} : msgq'[r] = msgq[r] /\ dmsgq'[r] = dmsgq[r]
         /\ \E K : msgq'[q] = Keep(msgq[q], K) /\ dmsgq'[q] = dmsgq[q] \cap K
         /\ \A r \in Readers : In(r)' \subseteq In(r)
         /\ \A m \in In(q)' : h # None /\ post[m].h # h
<1> DEFINE K == {m \in DOMAIN post : h # None /\ post[m].h # h}
<1>1. msgq \in [Readers -> Seq(Msgs)] /\ dmsgq \in [Readers -> SUBSET Msgs]
  BY DEF TypeOK
<1>2. /\ msgq' = [msgq EXCEPT ![q] = Keep(@, K)]
      /\ dmsgq' = [dmsgq EXCEPT ![q] = @ \cap K]
      /\ UNCHANGED <<signaled, taken>>
  BY DEF ClearQueue
<1>3. \A m \in K : h # None /\ post[m].h # h
  OBVIOUS
<1> HIDE DEF K
<1>4. /\ Keep(msgq[q], K) \in Seq(Msgs)
      /\ ToSet(Keep(msgq[q], K)) = ToSet(msgq[q]) \cap K
  BY <1>1, ToSetKeep
<1>5. /\ msgq' \in [Readers -> Seq(Msgs)] /\ msgq'[q] = Keep(msgq[q], K)
      /\ \A r \in Readers \ {q} : msgq'[r] = msgq[r]
  BY <1>1, <1>2, <1>4
<1>6. /\ dmsgq' \in [Readers -> SUBSET Msgs] /\ dmsgq'[q] = dmsgq[q] \cap K
      /\ \A r \in Readers \ {q} : dmsgq'[r] = dmsgq[r]
  BY <1>1, <1>2
<1>7. In(q)' = In(q) \cap K /\ \A r \in Readers \ {q} : In(r)' = In(r)
  BY <1>4, <1>5, <1>6 DEF In
<1> QED
  BY <1>2, <1>3, <1>5, <1>6, <1>7

-------------------------------------------------------------------------------
(***************************************************************************)
(* The order of the delayed messages.                                      *)
(***************************************************************************)
LEMMA InTimeOrder ==
  ASSUME TypeOK, Numbered, NEW D, D \subseteq DOMAIN post
  PROVE  IsFiniteSet(D) /\ IsOrder(D, InTime(D)) /\ \A m \in D : Trigger(m) \in 0..TimeRange - 1
<1>1. /\ Len(post) \in Nat /\ DOMAIN post = 1..Len(post)
      /\ \A m \in DOMAIN post : post[m].due \in Nat
  BY PostFacts, MessageQueueAssumption DEF Postings
<1>2. IsFiniteSet(D)
  <2>1. IsFiniteSet(1..Len(post)) /\ D \in SUBSET (1..Len(post))
    BY <1>1, FS_Interval
  <2> QED
    BY <2>1, FS_Subset
<1>3. ASSUME NEW m \in D PROVE Trigger(m) \in 0..TimeRange - 1
  <2>1. Start \in Nat /\ TimeRange \in Nat \ {0} /\ post[m].due \in Nat
    BY <1>1, MessageQueueAssumption
  <2>2. Start + post[m].due \in Nat
    BY <2>1
  <2>3. \A x \in Nat, n \in Nat \ {0} : x % n \in 0..n - 1
    OBVIOUS
  <2>4. Trigger(m) = (Start + post[m].due) % TimeRange
    BY DEF Trigger, Time
  <2> QED
    BY <2>1, <2>2, <2>3, <2>4, Zenon
<1>4. \A m \in D : Trigger(m) \in Int /\ m \in Int
  BY <1>1, <1>3, MessageQueueAssumption
<1>5. \A m, n \in D : <<m, n>> \in InTime(D) <=> Sooner(m, n)
  BY DEF InTime
<1>6. IsOrder(D, InTime(D))
  <2>1. \A x \in D : ~Sooner(x, x)
    BY <1>4 DEF Sooner
  <2>2. \A x, y \in D : x # y => Sooner(x, y) \/ Sooner(y, x)
    BY <1>4 DEF Sooner
  <2>3. \A x, y, z \in D : Sooner(x, y) /\ Sooner(y, z) => Sooner(x, z)
    BY <1>4 DEF Sooner
  <2> QED
    BY <1>5, <2>1, <2>2, <2>3 DEF IsOrder
<1> QED
  BY <1>2, <1>3, <1>6

\* top() is the first of them.
LEMMA TopFirst ==
  ASSUME TypeOK, Numbered, NEW D, D \subseteq DOMAIN post, D # {}
  PROVE  Top(D) \in D /\ \A n \in D \ {Top(D)} : Sooner(Top(D), n)
<1> DEFINE f == Ranked(D, InTime(D))
           N == Cardinality(D)
<1>1. N \in Nat /\ Lists(f, D, InTime(D))
  BY InTimeOrder, RankedLists
<1>2. /\ f \in [1..N -> D] /\ \A x \in D : \E i \in 1..N : f[i] = x
      /\ \A i, j \in 1..N : i < j => Sooner(f[i], f[j])
  BY <1>1 DEF Lists, InTime
<1> HIDE DEF f, N
<1>3. N # 0 /\ 1 \in 1..N
  BY <1>1, <1>2
<1>4. f[1] \in D /\ \A n \in D \ {f[1]} : Sooner(f[1], n)
  <2>1. ASSUME NEW n \in D \ {f[1]} PROVE Sooner(f[1], n)
    <3>1. PICK i \in 1..N : f[i] = n
      BY <1>2
    <3>2. 1 < i
      BY <1>1, <3>1
    <3> QED
      BY <1>2, <1>3, <3>1, <3>2
  <2> QED
    BY <1>2, <1>3, <2>1
<1> QED
  BY <1>4 DEF Top

\* What Get has in msgq_ after it has moved the delayed messages that are due.
Moved(t) == Triggered(dmsgq[t], cur[t])
Queued(t) == msgq[t] \o Ranked(Moved(t), InTime(Moved(t)))

LEMMA MovedProps ==
  ASSUME TypeOK, Numbered, NEW t \in Readers
  PROVE  /\ Moved(t) \subseteq dmsgq[t]
         /\ Lists(Ranked(Moved(t), InTime(Moved(t))), Moved(t), InTime(Moved(t)))
         /\ Ranked(Moved(t), InTime(Moved(t))) \in Seq(Msgs)
         /\ ToSet(Ranked(Moved(t), InTime(Moved(t)))) = Moved(t)
         /\ Queued(t) \in Seq(Msgs) /\ ToSet(Queued(t)) = ToSet(msgq[t]) \cup Moved(t)
<1> DEFINE D == Moved(t)
           f == Ranked(D, InTime(D))
           N == Cardinality(D)
<1>1. msgq[t] \in Seq(Msgs) /\ dmsgq[t] \subseteq Msgs /\ dmsgq[t] \subseteq DOMAIN post
  BY DEF TypeOK, Numbered, In
<1>2. D \subseteq dmsgq[t] /\ D \subseteq DOMAIN post /\ D \subseteq Msgs
  BY <1>1 DEF Moved, Triggered
<1> HIDE DEF D
<1>3. N \in Nat /\ Lists(f, D, InTime(D))
  BY <1>2, InTimeOrder, RankedLists
<1>4. f \in [1..N -> D] /\ \A x \in D : \E i \in 1..N : f[i] = x
  BY <1>3 DEF Lists
<1>5. Queued(t) = msgq[t] \o f
  BY DEF Queued, D
<1> HIDE DEF f, N
<1>6. f \in Seq(Msgs) /\ DOMAIN f = 1..N
  BY <1>2, <1>3, <1>4
<1>7. ToSet(f) = D
  BY <1>4, <1>6 DEF ToSet
<1>8. msgq[t] \o f \in Seq(Msgs) /\ ToSet(msgq[t] \o f) = ToSet(msgq[t]) \cup D
  BY <1>1, <1>6, <1>7, ToSetConcat
<1> QED
  BY <1>2, <1>3, <1>5, <1>6, <1>7, <1>8 DEF D, f

-------------------------------------------------------------------------------
(***************************************************************************)
(* The locks, and who holds a message.  Most steps are of one thread that  *)
(* is neither in Post nor in Clear, and put nothing into a queue.          *)
(***************************************************************************)
Loses(t) ==
  /\ UNCHANGED <<posting, post, alive, managed, todo>>
  /\ \A q \in Readers : (fStop[q] => fStop'[q]) /\ In(q)' \subseteq In(q)
  /\ pc[t] \notin {"post", "add", "clear"} /\ pc'[t] \notin {"post", "add", "clear"}
  /\ \A u \in Threads \ {t} : pc'[u] = pc[u] /\ arg'[u] = arg[u]
  /\ EndOK(t)'

LEMMA LosesHeld ==
  ASSUME Numbered, Locks, Inactive, Buried, TypeOK, NEW t \in Threads, Loses(t)
  PROVE  Numbered' /\ Locks' /\ Inactive' /\ Buried'
<1>1. /\ posting' = posting /\ post' = post /\ alive' = alive /\ managed' = managed
      /\ todo' = todo
      /\ \A q \in Readers : (fStop[q] => fStop'[q]) /\ In(q)' \subseteq In(q)
  BY DEF Loses
<1>2. Numbered' /\ Inactive'
  <2>1. Posters' = Posters
    BY SamePosters DEF Loses
  <2> QED
    BY <1>1, <2>1 DEF Numbered, Inactive
<1>3. ASSUME NEW u \in Threads PROVE PostOK(u)'
  <2>1. CASE u = t
    BY <2>1 DEF Loses, PostOK
  <2>2. CASE u # t
    <3>1. PostOK(u) /\ pc'[u] = pc[u]
      BY <2>2 DEF Locks, Loses
    <3>2. \A v \in Threads \ {u} : pc'[v] = "add" => pc[v] = "add"
      BY <2>2 DEF Loses
    <3> QED
      BY <1>1, <3>1, <3>2 DEF PostOK
  <2> QED
    BY <2>1, <2>2
<1>4. ASSUME NEW u \in Threads PROVE ClearOK(u)'
  <2>1. CASE u = t
    BY <2>1 DEF Loses, ClearOK
  <2>2. CASE u # t
    <3>1. ClearOK(u) /\ pc'[u] = pc[u] /\ arg'[u] = arg[u]
      BY <2>2 DEF Locks, Loses
    <3>2. \A v \in Threads \ {u} : pc'[v] = "clear" => pc[v] = "clear"
      BY <2>2 DEF Loses
    <3> QED
      BY <1>1, <3>1, <3>2 DEF ClearOK
  <2> QED
    BY <2>1, <2>2
<1>5. ASSUME NEW u \in Threads PROVE EndOK(u)'
  <2>1. CASE u = t
    BY <2>1 DEF Loses
  <2>2. CASE u # t
    <3>1. EndOK(u) /\ pc'[u] = pc[u] /\ arg'[u] = arg[u]
      BY <2>2 DEF Locks, Loses
    <3> QED
      BY <1>1, <3>1 DEF EndOK, Ending
  <2> QED
    BY <2>1, <2>2
<1>6. Buried'
  <2> SUFFICES ASSUME NEW h \in Handlers \ alive, NEW q \in Readers, NEW m \in In(q)',
                      q \in ToSet(managed) \/ ~fStop'[q], post[m].h = h
               PROVE  \E u \in Threads : /\ pc'[u] = "clear" /\ Cleared(u)' = h
                                         /\ q \in ToSet(todo)
    BY <1>1 DEF Buried
  <2>1. m \in In(q) /\ (q \in ToSet(managed) \/ ~fStop[q])
    BY <1>1
  <2>2. PICK u \in Threads : pc[u] = "clear" /\ Cleared(u) = h /\ q \in ToSet(todo)
    BY <2>1 DEF Buried
  <2>3. u # t /\ pc'[u] = "clear" /\ arg'[u] = arg[u]
    BY <2>2 DEF Loses
  <2>4. Cleared(u)' = h
    BY <1>1, <2>2, <2>3 DEF Cleared
  <2> QED
    BY <2>2, <2>3, <2>4
<1> QED
  BY <1>2, <1>3, <1>4, <1>5, <1>6 DEF Locks

LEMMA TickHeld ==
  ASSUME Held, Tick PROVE Held'
<1>1. TypeOK /\ Numbered /\ Locks /\ Inactive /\ Buried
  BY DEF Held
<1>2. /\ now' \in 0..Span
      /\ UNCHANGED <<msgq, dmsgq, fStop, managed, signaled, posting, post, taken, alive, pc,
                     running, arg, todo, cur, next, until>>
  BY <1>1, MessageQueueAssumption DEF Tick, TypeOK, queues, clock
<1>3. TypeOK'
  BY <1>1, <1>2 DEF TypeOK
<1>4. Numbered' /\ Inactive'
  BY <1>1, <1>2 DEF Numbered, Inactive, In, Posters
<1>5. Locks'
  BY <1>1, <1>2 DEF Locks, PostOK, ClearOK, EndOK, Ending, In
<1>6. Buried'
  BY <1>1, <1>2 DEF Buried, In, Cleared
<1> QED
  BY <1>3, <1>4, <1>5, <1>6 DEF Held

LEMMA QuitHeld ==
  ASSUME Held, NEW t \in Threads, NEW q \in Readers, Quit(t, q) PROVE Held'
<1>1. TypeOK /\ Numbered /\ Locks /\ Inactive /\ Buried
  BY DEF Held
<1>2. /\ fStop' = [fStop EXCEPT ![q] = TRUE] /\ signaled' = [signaled EXCEPT ![q] = TRUE]
      /\ pc[t] = "run"
      /\ UNCHANGED <<now, msgq, dmsgq, taken, managed, posting, post, alive, running, pc, arg,
                     todo, cur, next, until>>
  BY DEF Quit, clock
<1>3. TypeOK'
  BY <1>1, <1>2 DEF TypeOK
<1>4. \A r \in Readers : (fStop[r] => fStop'[r]) /\ In(r)' = In(r)
  BY <1>1, <1>2 DEF TypeOK, In
<1>5. EndOK(t)'
  BY <1>2 DEF EndOK, Ending
<1>6. Loses(t)
  BY <1>2, <1>4, <1>5 DEF Loses
<1> QED
  BY <1>1, <1>3, <1>6, LosesHeld DEF Held

LEMMA ClearHeld ==
  ASSUME Held, NEW t \in Threads, NEW q \in Readers, NEW h \in Handlers, Clear(t, q, h)
  PROVE  Held'
<1>1. TypeOK /\ Numbered /\ Locks /\ Inactive /\ Buried
  BY DEF Held
<1>2. /\ ClearQueue(q, h) /\ pc[t] = "run"
      /\ UNCHANGED <<now, fStop, managed, posting, post, alive, running, pc, arg, todo, cur,
                     next, until>>
  BY DEF Clear, clock
<1>3. /\ msgq' \in [Readers -> Seq(Msgs)] /\ dmsgq' \in [Readers -> SUBSET Msgs]
      /\ UNCHANGED <<signaled, taken>>
      /\ \A r \in Readers : In(r)' \subseteq In(r)
  BY <1>1, <1>2, ClearQueueProps
<1>4. TypeOK'
  BY <1>1, <1>2, <1>3 DEF TypeOK
<1>5. EndOK(t)'
  BY <1>2 DEF EndOK, Ending
<1>6. Loses(t)
  BY <1>2, <1>3, <1>5 DEF Loses
<1> QED
  BY <1>1, <1>4, <1>6, LosesHeld DEF Held

LEMMA HandlerReturnHeld ==
  ASSUME Held, NEW t \in Readers, HandlerReturn(t) PROVE Held'
<1>1. TypeOK /\ Numbered /\ Locks /\ Inactive /\ Buried /\ t \in Threads
  BY MessageQueueAssumption DEF Held
<1>2. /\ pc[t] = "run" /\ pc' = [pc EXCEPT ![t] = "scan"]
      /\ running' = [running EXCEPT ![t] = None] /\ cur' = [cur EXCEPT ![t] = now]
      /\ UNCHANGED <<now, msgq, dmsgq, signaled, taken, fStop, managed, posting, post, alive,
                     arg, todo, next, until>>
  BY DEF HandlerReturn, queues, Goto
<1>3. TypeOK'
  BY <1>1, <1>2 DEF TypeOK, PCs
<1>4. pc'[t] = "scan" /\ \A u \in Threads \ {t} : pc'[u] = pc[u]
  BY <1>1, <1>2 DEF TypeOK
<1>5. EndOK(t)' /\ \A r \in Readers : In(r)' = In(r)
  BY <1>2, <1>4 DEF EndOK, Ending, In
<1>6. Loses(t)
  BY <1>2, <1>4, <1>5 DEF Loses
<1> QED
  BY <1>1, <1>3, <1>6, LosesHeld DEF Held

LEMMA CheckStopHeld ==
  ASSUME Held, NEW t \in Readers, CheckStop(t) PROVE Held'
<1>1. TypeOK /\ Numbered /\ Locks /\ Inactive /\ Buried /\ t \in Threads
  BY MessageQueueAssumption DEF Held
<1>2. /\ pc[t] = "check"
      /\ pc' = [pc EXCEPT ![t] = IF fStop[t] THEN "left" ELSE "wait"]
      /\ until' \in [Readers -> Int]
      /\ UNCHANGED <<now, msgq, dmsgq, signaled, taken, fStop, managed, posting, post, alive,
                     running, arg, todo, cur, next>>
  <2>1. now \in Int /\ next[t] \in Int /\ Forever \in Int /\ until \in [Readers -> Int]
    BY <1>1, MessageQueueAssumption DEF TypeOK, Forever
  <2>2. now + next[t] \in Int
    BY <2>1
  <2> QED
    BY <2>1, <2>2 DEF CheckStop, queues, Goto
<1>3. TypeOK'
  BY <1>1, <1>2 DEF TypeOK, PCs
<1>4. /\ pc'[t] \in {"left", "wait"} /\ (pc'[t] = "left" => fStop[t])
      /\ \A u \in Threads \ {t} : pc'[u] = pc[u]
  BY <1>1, <1>2 DEF TypeOK
<1>5. EndOK(t)' /\ \A r \in Readers : In(r)' = In(r)
  BY <1>2, <1>4 DEF EndOK, Ending, In
<1>6. Loses(t)
  BY <1>2, <1>4, <1>5 DEF Loses
<1> QED
  BY <1>1, <1>3, <1>6, LosesHeld DEF Held

LEMMA WaitReturnsHeld ==
  ASSUME Held, NEW t \in Readers, WaitReturns(t) PROVE Held'
<1>1. TypeOK /\ Numbered /\ Locks /\ Inactive /\ Buried /\ t \in Threads
  BY MessageQueueAssumption DEF Held
<1>2. /\ pc[t] = "wait" /\ pc' = [pc EXCEPT ![t] = "scan"]
      /\ signaled' = [signaled EXCEPT ![t] = FALSE] /\ cur' = [cur EXCEPT ![t] = now]
      /\ next' = [next EXCEPT ![t] = 0] /\ until' = [until EXCEPT ![t] = Forever]
      /\ UNCHANGED <<now, msgq, dmsgq, taken, fStop, managed, posting, post, alive, running,
                     arg, todo>>
  BY DEF WaitReturns, Goto
<1>3. TypeOK'
  <2>1. 0 \in Int /\ Forever \in Int
    BY DEF Forever
  <2> QED
    BY <1>1, <1>2, <2>1 DEF TypeOK, PCs
<1>4. pc'[t] = "scan" /\ \A u \in Threads \ {t} : pc'[u] = pc[u]
  BY <1>1, <1>2 DEF TypeOK
<1>5. EndOK(t)' /\ \A r \in Readers : In(r)' = In(r)
  BY <1>2, <1>4 DEF EndOK, Ending, In
<1>6. Loses(t)
  BY <1>2, <1>4, <1>5 DEF Loses
<1> QED
  BY <1>1, <1>3, <1>6, LosesHeld DEF Held

LEMMA TimeDiffInt ==
  ASSUME NEW a \in Int, NEW b \in Int PROVE TimeDiff(a, b) \in Int
<1>1. TimeRange \in Nat \ {0} /\ a - b \in Int
  BY MessageQueueAssumption
<1>2. \A x \in Int, n \in Nat \ {0} : x % n \in Int
  OBVIOUS
<1>3. (a - b) % TimeRange \in Int
  BY <1>1, <1>2, Zenon
<1> QED
  BY <1>1, <1>3 DEF TimeDiff

\* What Scan does, with the list that it looks at named.
Scans(t) ==
  /\ pc[t] = "scan" /\ QueueFree(t, t)
  /\ dmsgq' = [dmsgq EXCEPT ![t] = @ \ Moved(t)]
  /\ IF Queued(t) = <<>> THEN NothingReady(t, dmsgq[t] \ Moved(t))
                         ELSE Take(t, Queued(t), Head(Queued(t)))
  /\ UNCHANGED <<now, signaled, fStop, managed, posting, post, alive, todo, until>>

LEMMA ScanScans ==
  ASSUME NEW t, Scan(t) PROVE Scans(t)
BY DEF Scan, Scans, Moved, Queued

\* No message is ready.
LEMMA NothingReadyHeld ==
  ASSUME Held, NEW t \in Readers, Scans(t), Queued(t) = <<>>
  PROVE  /\ Held' /\ msgq' = msgq /\ msgq[t] = <<>> /\ taken' = taken
         /\ pc'[t] = "check" /\ In(t)' = dmsgq[t] \ Moved(t)
<1>1. TypeOK /\ Numbered /\ Locks /\ Inactive /\ Buried /\ t \in Threads
  BY MessageQueueAssumption DEF Held
<1> DEFINE rest == dmsgq[t] \ Moved(t)
           wait == IF rest = {} THEN Forever ELSE TimeDiff(Trigger(Top(rest)), Time(cur[t]))
<1>2. /\ pc[t] = "scan" /\ pc' = [pc EXCEPT ![t] = "check"]
      /\ dmsgq' = [dmsgq EXCEPT ![t] = rest]
      /\ next' = [next EXCEPT ![t] = wait]
      /\ UNCHANGED <<now, msgq, taken, arg, running, cur, signaled, fStop, managed,
                     posting, post, alive, todo, until>>
  BY <1>1 DEF Scans, NothingReady, Goto, TypeOK
<1>3. Moved(t) \subseteq dmsgq[t] /\ ToSet(Queued(t)) = ToSet(msgq[t]) \cup Moved(t)
  BY <1>1, MovedProps
<1>4. rest \subseteq DOMAIN post /\ rest \subseteq Msgs /\ rest \subseteq dmsgq[t]
  BY <1>1 DEF Numbered, In, TypeOK
<1>5. wait \in Int
  <2>1. CASE rest = {}
    BY <2>1 DEF Forever
  <2>2. CASE rest # {}
    <3>1. Top(rest) \in rest
      BY <1>1, <1>4, <2>2, TopFirst
    <3>2. Trigger(Top(rest)) \in 0..TimeRange - 1
      BY <1>1, <1>4, <3>1, InTimeOrder
    <3>3. Trigger(Top(rest)) \in Int /\ TimeRange \in Nat \ {0} /\ Start + cur[t] \in Int
      BY <1>1, <3>2, MessageQueueAssumption DEF TypeOK
    <3>4. \A x \in Int, n \in Nat \ {0} : x % n \in Int
      OBVIOUS
    <3>5. Time(cur[t]) \in Int
      BY <3>3, <3>4, Zenon DEF Time
    <3> QED
      BY <2>2, <3>3, <3>5, TimeDiffInt
  <2> QED
    BY <2>1, <2>2
<1> HIDE DEF wait, rest
<1>6. TypeOK'
  BY <1>1, <1>2, <1>4, <1>5 DEF TypeOK, PCs
<1>7. msgq[t] = <<>> /\ ToSet(msgq[t]) = {}
  <2>1. msgq[t] \in Seq(Msgs) /\ Queued(t) \in Seq(Msgs)
    BY <1>1, MovedProps DEF TypeOK
  <2>2. ToSet(Queued(t)) = {}
    BY <2>1, ToSetProps
  <2> QED
    BY <1>3, <2>1, <2>2, ToSetProps
<1>8. /\ pc'[t] = "check" /\ \A u \in Threads \ {t} : pc'[u] = pc[u]
      /\ dmsgq'[t] = rest /\ \A r \in Readers \ {t} : dmsgq'[r] = dmsgq[r]
  BY <1>1, <1>2 DEF TypeOK
<1>9. In(t)' = rest /\ \A r \in Readers : In(r)' \subseteq In(r)
  BY <1>2, <1>4, <1>7, <1>8 DEF In
<1>10. EndOK(t)'
  BY <1>2, <1>8 DEF EndOK, Ending
<1>11. Loses(t)
  BY <1>2, <1>8, <1>9, <1>10 DEF Loses
<1>12. Held'
  BY <1>1, <1>6, <1>11, LosesHeld DEF Held
<1> QED
  BY <1>2, <1>7, <1>8, <1>9, <1>12 DEF rest

\* The first message is returned, or disposed of.
LEMMA TakeHeld ==
  ASSUME Held, NEW t \in Readers, Scans(t), Queued(t) # <<>>
  PROVE  /\ Held' /\ Head(Queued(t)) \in In(t)
         /\ msgq' \in [Readers -> Seq(Msgs)] /\ msgq'[t] = Tail(Queued(t))
         /\ \A r \in Readers \ {t} : msgq'[r] = msgq[r] /\ dmsgq'[r] = dmsgq[r]
         /\ dmsgq'[t] = dmsgq[t] \ Moved(t)
         /\ taken' = taken \cup {Head(Queued(t))}
         /\ pc'[t] \notin {"add", "check", "wait"}
<1>1. TypeOK /\ Numbered /\ Locks /\ Inactive /\ Buried /\ t \in Threads
  BY MessageQueueAssumption DEF Held
<1> DEFINE m == Head(Queued(t))
           q == Queued(t)
<1>2. /\ Moved(t) \subseteq dmsgq[t] /\ q \in Seq(Msgs)
      /\ ToSet(q) = ToSet(msgq[t]) \cup Moved(t)
  BY <1>1, MovedProps
<1>3. m \in ToSet(q) /\ Tail(q) \in Seq(Msgs) /\ ToSet(Tail(q)) \subseteq ToSet(q)
  BY <1>2, ToSetTail
<1>4. m \in In(t) /\ m \in DOMAIN post /\ post[m] \in Postings
  BY <1>1, <1>2, <1>3, PostFacts DEF Numbered, In
<1>5. /\ pc[t] = "scan"
      /\ dmsgq' = [dmsgq EXCEPT ![t] = @ \ Moved(t)] /\ msgq' = [msgq EXCEPT ![t] = Tail(q)]
      /\ taken' = taken \cup {m}
      /\ UNCHANGED <<now, signaled, fStop, managed, posting, post, alive, todo, until, next>>
  BY DEF Scans, Take
<1>6. \/ /\ pc' = [pc EXCEPT ![t] = "run"] /\ running' = [running EXCEPT ![t] = m]
         /\ cur' = [cur EXCEPT ![t] = 0] /\ arg' = arg
      \/ /\ post[m].doomed # None /\ pc' = [pc EXCEPT ![t] = "dispose"]
         /\ arg' = [arg EXCEPT ![t] = m] /\ running' = running /\ cur' = cur
      \/ UNCHANGED <<pc, arg, running, cur>>
  BY DEF Scans, Take, Goto
<1> HIDE DEF m, q
<1>7. /\ msgq' \in [Readers -> Seq(Msgs)] /\ dmsgq' \in [Readers -> SUBSET Msgs]
      /\ msgq'[t] = Tail(q) /\ dmsgq'[t] = dmsgq[t] \ Moved(t)
      /\ \A r \in Readers \ {t} : msgq'[r] = msgq[r] /\ dmsgq'[r] = dmsgq[r]
  BY <1>1, <1>3, <1>5 DEF TypeOK
<1>8. /\ running' \in [Threads -> DOMAIN post \cup {None}]
      /\ arg' \in [Threads -> DOMAIN post \cup Handlers \cup {None}]
      /\ cur' \in [Readers -> 0..Span] /\ pc' \in [Threads -> PCs]
  <2>1. 0 \in 0..Span /\ {"run", "dispose"} \subseteq PCs
    BY MessageQueueAssumption DEF PCs
  <2>2. /\ running \in [Threads -> DOMAIN post \cup {None}]
        /\ arg \in [Threads -> DOMAIN post \cup Handlers \cup {None}]
        /\ cur \in [Readers -> 0..Span] /\ pc \in [Threads -> PCs]
    BY <1>1 DEF TypeOK
  <2> QED
    BY <1>4, <1>6, <2>1, <2>2
<1>9. TypeOK'
  BY <1>1, <1>4, <1>5, <1>7, <1>8 DEF TypeOK
<1>10. /\ \A u \in Threads \ {t} : pc'[u] = pc[u] /\ arg'[u] = arg[u]
       /\ pc'[t] \in {"run", "dispose", "scan"}
       /\ pc'[t] = "dispose" => arg'[t] = m /\ post[m].doomed # None
  BY <1>1, <1>5, <1>6 DEF TypeOK
<1>11. \A r \in Readers : In(r)' \subseteq In(r)
  BY <1>2, <1>3, <1>7 DEF In
<1>12. fStop[t] \/ t \in ToSet(managed)
  BY <1>1, <1>4 DEF Inactive
<1>13. EndOK(t)'
  BY <1>4, <1>5, <1>10, <1>12 DEF EndOK, Ending
<1>14. Loses(t)
  BY <1>4, <1>5, <1>10, <1>11, <1>13 DEF Loses
<1>15. Held'
  BY <1>1, <1>9, <1>14, LosesHeld DEF Held
<1> QED
  BY <1>4, <1>5, <1>7, <1>10, <1>15 DEF m, q

LEMMA ScanHeld ==
  ASSUME Held, NEW t \in Readers, Scan(t) PROVE Held'
BY ScanScans, NothingReadyHeld, TakeHeld

LEMMA ClearAllHeld ==
  ASSUME Held, NEW t \in Readers, ClearAll(t) PROVE Held'
<1>1. TypeOK /\ Numbered /\ Locks /\ Inactive /\ Buried /\ t \in Threads
  BY MessageQueueAssumption DEF Held
<1>2. /\ pc[t] = "removed"
      /\ UNCHANGED <<now, fStop, managed, posting, post, alive, running, todo, cur, next, until>>
  BY DEF ClearAll, clock
<1>3. EndOK(t) /\ fStop[t]
  BY <1>1, <1>2 DEF Locks, EndOK
<1>4. CASE ClearQueue(t, None) /\ pc' = [pc EXCEPT ![t] = "gone"] /\ arg' = arg
  <2>1. /\ msgq' \in [Readers -> Seq(Msgs)] /\ dmsgq' \in [Readers -> SUBSET Msgs]
        /\ UNCHANGED <<signaled, taken>> /\ \A r \in Readers : In(r)' \subseteq In(r)
    BY <1>1, <1>4, ClearQueueProps
  <2>2. TypeOK'
    BY <1>1, <1>2, <1>4, <2>1 DEF TypeOK, PCs
  <2>3. pc'[t] = "gone" /\ \A u \in Threads \ {t} : pc'[u] = pc[u] /\ arg'[u] = arg[u]
    BY <1>1, <1>4 DEF TypeOK
  <2>4. EndOK(t)'
    BY <1>2, <1>3, <2>3 DEF EndOK, Ending
  <2>5. Loses(t)
    BY <1>2, <2>1, <2>3, <2>4 DEF Loses
  <2> QED
    BY <1>1, <2>2, <2>5, LosesHeld DEF Held
<1>5. ASSUME NEW m \in ToSet(msgq[t]), post[m].doomed # None,
             msgq' = [msgq EXCEPT ![t] = Keep(@, Msgs \ {m})],
             pc' = [pc EXCEPT ![t] = "dispose"], arg' = [arg EXCEPT ![t] = m],
             UNCHANGED <<dmsgq, signaled, taken>>
      PROVE  Held'
  <2> DEFINE K == Msgs \ {m}
  <2>1. msgq' = [msgq EXCEPT ![t] = Keep(@, K)] /\ msgq \in [Readers -> Seq(Msgs)]
    BY <1>1, <1>5 DEF TypeOK
  <2> HIDE DEF K
  <2>2. Keep(msgq[t], K) \in Seq(Msgs) /\ ToSet(Keep(msgq[t], K)) = ToSet(msgq[t]) \cap K
    BY <2>1, ToSetKeep
  <2>3. /\ msgq' \in [Readers -> Seq(Msgs)] /\ msgq'[t] = Keep(msgq[t], K)
        /\ \A r \in Readers \ {t} : msgq'[r] = msgq[r]
    BY <2>1, <2>2
  <2>4. \A r \in Readers : In(r)' \subseteq In(r)
    BY <1>5, <2>2, <2>3 DEF In
  <2>5. m \in DOMAIN post
    BY <1>1, <1>5 DEF Numbered, In
  <2>6. TypeOK'
    BY <1>1, <1>2, <1>5, <2>3, <2>5 DEF TypeOK, PCs
  <2>7. /\ pc'[t] = "dispose" /\ arg'[t] = m
        /\ \A u \in Threads \ {t} : pc'[u] = pc[u] /\ arg'[u] = arg[u]
    BY <1>1, <1>5 DEF TypeOK
  <2>8. EndOK(t)'
    BY <1>2, <1>3, <1>5, <2>5, <2>7 DEF EndOK, Ending
  <2>9. Loses(t)
    BY <1>2, <1>5, <2>4, <2>7, <2>8 DEF Loses
  <2> QED
    BY <1>1, <2>6, <2>9, LosesHeld DEF Held
<1> DEFINE doomed == {m \in ToSet(msgq[t]) : post[m].doomed # None}
<1>6. CASE doomed = {}
  BY <1>4, <1>6 DEF ClearAll, Goto
<1>7. CASE doomed # {}
  <2>1. PICK m \in doomed : /\ msgq' = [msgq EXCEPT ![t] = Keep(@, Msgs \ {m})]
                            /\ pc' = [pc EXCEPT ![t] = "dispose"]
                            /\ arg' = [arg EXCEPT ![t] = m]
                            /\ UNCHANGED <<dmsgq, signaled, taken>>
    BY <1>7 DEF ClearAll, Goto
  <2> QED
    BY <1>5, <2>1
<1> QED
  BY <1>6, <1>7

-------------------------------------------------------------------------------
\* The message of a Post is numbered after all others.
LEMMA NewPost ==
  ASSUME TypeOK, Numbered, NEW t \in Posters, NEW p \in Postings, Push(t, p)
  PROVE  /\ Len(post') = Len(post) + 1 /\ Len(post') \in Msgs
         /\ post' \in Seq(Postings)
         /\ DOMAIN post' = DOMAIN post \cup {Len(post')} /\ Len(post') \notin DOMAIN post
         /\ \A m \in DOMAIN post : post'[m] = post[m] /\ m < Len(post')
         /\ post'[Len(post')].q = p.q /\ post'[Len(post')].h = p.h
         /\ post'[Len(post')].delayed = p.delayed /\ post'[Len(post')].due = p.due
         /\ post'[Len(post')].doomed = p.doomed
         /\ p.delayed => post'[Len(post')].at = now
<1> DEFINE s == Stamped(p)
<1>1. /\ post \in Seq(Postings) /\ Len(post) \in Nat /\ DOMAIN post = 1..Len(post)
      /\ MaxMsgs \in Nat /\ Cardinality(Posters) \in Nat /\ IsFiniteSet(Posters)
      /\ Len(post) + Cardinality(Posters) <= MaxMsgs
  BY PostFacts, MessageQueueAssumption
<1>2. /\ s \in Postings /\ s.q = p.q /\ s.h = p.h /\ s.delayed = p.delayed
      /\ s.due = p.due /\ s.doomed = p.doomed /\ (p.delayed => s.at = now)
  <2>1. now \in 0..Span /\ 0 \in 0..Span
    BY MessageQueueAssumption DEF TypeOK
  <2> QED
    BY <2>1 DEF Stamped, Postings
<1>3. post' = Append(post, s)
  BY DEF Push
<1> HIDE DEF s
<1>4. /\ post' \in Seq(Postings) /\ Len(post') = Len(post) + 1
      /\ DOMAIN post' = 1..(Len(post) + 1)
      /\ \A i \in 1..Len(post) : post'[i] = post[i]
      /\ post'[Len(post) + 1] = s
  BY <1>1, <1>2, <1>3, AppendProperties, LenProperties
<1>5. Cardinality(Posters) # 0
  BY <1>1, FS_EmptySet
<1>6. Len(post) + 1 \in Msgs
  BY <1>1, <1>5 DEF Msgs
<1> QED
  BY <1>1, <1>2, <1>4, <1>6

\* A Post that ends: the number that was kept for it is used.
LEMMA OnePosterLess ==
  ASSUME TypeOK, Numbered, NEW t \in Posters, Posters' = Posters \ {t}, Len(post') = Len(post) + 1
  PROVE  Len(post') + Cardinality(Posters') <= MaxMsgs
<1>1. /\ Len(post) \in Nat /\ MaxMsgs \in Nat /\ Cardinality(Posters) \in Nat
      /\ IsFiniteSet(Posters) /\ Len(post) + Cardinality(Posters) <= MaxMsgs
  BY PostFacts, MessageQueueAssumption
<1>2. Cardinality(Posters \ {t}) = Cardinality(Posters) - 1
  BY <1>1, FS_RemoveElement
<1> QED
  BY <1>1, <1>2

LEMMA OnePosterMore ==
  ASSUME TypeOK, Numbered, NEW t \in Threads \ Posters, Posters' = Posters \cup {t},
         Len(post) + Cardinality(Posters) < MaxMsgs, post' = post
  PROVE  Len(post') + Cardinality(Posters') <= MaxMsgs
<1>1. /\ Len(post) \in Nat /\ MaxMsgs \in Nat /\ Cardinality(Posters) \in Nat
      /\ IsFiniteSet(Posters)
  BY PostFacts, MessageQueueAssumption
<1>2. Cardinality(Posters \cup {t}) = Cardinality(Posters) + 1
  BY <1>1, FS_AddElement
<1> QED
  BY <1>1, <1>2

LEMMA PushProps ==
  ASSUME TypeOK, Numbered, NEW t \in Posters, NEW p \in Postings, Push(t, p)
  PROVE  /\ msgq' \in [Readers -> Seq(Msgs)] /\ dmsgq' \in [Readers -> SUBSET Msgs]
         /\ signaled' \in [Readers -> BOOLEAN] /\ signaled'[p.q] /\ p.q \in Readers
         /\ \A r \in Readers \ {p.q} :
              msgq'[r] = msgq[r] /\ dmsgq'[r] = dmsgq[r] /\ signaled'[r] = signaled[r]
         /\ IF p.delayed
            THEN msgq'[p.q] = msgq[p.q] /\ dmsgq'[p.q] = dmsgq[p.q] \cup {Len(post')}
            ELSE msgq'[p.q] = Append(msgq[p.q], Len(post')) /\ dmsgq'[p.q] = dmsgq[p.q]
         /\ In(p.q)' = In(p.q) \cup {Len(post')}
         /\ \A r \in Readers \ {p.q} : In(r)' = In(r)
         /\ pc' = [pc EXCEPT ![t] = "run"] /\ posting' = [posting EXCEPT ![t] = None]
<1> DEFINE m == Len(post')
           q == p.q
<1>1. /\ msgq \in [Readers -> Seq(Msgs)] /\ dmsgq \in [Readers -> SUBSET Msgs]
      /\ signaled \in [Readers -> BOOLEAN] /\ p.delayed \in BOOLEAN /\ q \in Readers
  BY DEF TypeOK, Postings
<1>2. m \in Msgs
  BY NewPost
<1>3. /\ IF p.delayed
         THEN dmsgq' = [dmsgq EXCEPT ![q] = @ \cup {m}] /\ UNCHANGED msgq
         ELSE msgq' = [msgq EXCEPT ![q] = Append(@, m)] /\ UNCHANGED dmsgq
      /\ signaled' = [signaled EXCEPT ![q] = TRUE]
      /\ pc' = [pc EXCEPT ![t] = "run"] /\ posting' = [posting EXCEPT ![t] = None]
  BY DEF Push, Goto
<1> HIDE DEF m, q
<1>4. Append(msgq[q], m) \in Seq(Msgs) /\ ToSet(Append(msgq[q], m)) = ToSet(msgq[q]) \cup {m}
  BY <1>1, <1>2, ToSetProps, AppendProperties
<1>5. /\ signaled' \in [Readers -> BOOLEAN] /\ signaled'[q]
      /\ \A r \in Readers \ {q} : signaled'[r] = signaled[r]
  BY <1>1, <1>3
<1> DEFINE Queues1 ==
      /\ msgq' \in [Readers -> Seq(Msgs)] /\ dmsgq' \in [Readers -> SUBSET Msgs]
      /\ \A r \in Readers \ {q} : msgq'[r] = msgq[r] /\ dmsgq'[r] = dmsgq[r]
      /\ IF p.delayed
         THEN msgq'[q] = msgq[q] /\ dmsgq'[q] = dmsgq[q] \cup {m}
         ELSE msgq'[q] = Append(msgq[q], m) /\ dmsgq'[q] = dmsgq[q]
      /\ ToSet(msgq'[q]) \cup dmsgq'[q] = ToSet(msgq[q]) \cup dmsgq[q] \cup {m}
<1>6. Queues1
  <2>1. CASE p.delayed
    <3>1. /\ msgq' = msgq /\ dmsgq' \in [Readers -> SUBSET Msgs]
          /\ dmsgq'[q] = dmsgq[q] \cup {m} /\ \A r \in Readers \ {q} : dmsgq'[r] = dmsgq[r]
      BY <1>1, <1>2, <1>3, <2>1
    <3> QED
      BY <1>1, <2>1, <3>1
  <2>2. CASE ~p.delayed
    <3>1. dmsgq' = dmsgq /\ msgq' = [msgq EXCEPT ![q] = Append(@, m)]
      BY <1>1, <1>3, <2>2
    <3>2. /\ msgq' \in [Readers -> Seq(Msgs)]
          /\ msgq'[q] = Append(msgq[q], m) /\ \A r \in Readers \ {q} : msgq'[r] = msgq[r]
      BY <1>1, <1>4, <3>1
    <3> QED
      BY <1>1, <1>4, <2>2, <3>1, <3>2
  <2> QED
    BY <1>1, <2>1, <2>2
<1>7. In(p.q)' = In(p.q) \cup {m} /\ \A r \in Readers \ {p.q} : In(r)' = In(r)
  BY <1>6 DEF In, q
<1> QED
  BY <1>1, <1>3, <1>5, <1>6, <1>7 DEF m, q

LEMMA StartPostHeld ==
  ASSUME Held, NEW t \in Threads, NEW p \in Postings, p.h \in alive \cup {None},
         p.delayed \/ p.due = 0, StartPost(t, p)
  PROVE  Held'
<1>1. TypeOK /\ Numbered /\ Locks /\ Inactive /\ Buried
  BY DEF Held
<1>2. /\ pc[t] = "run" /\ Len(post) + Cardinality(Posters) < MaxMsgs /\ ~fStop[p.q]
      /\ posting' = [posting EXCEPT ![t] = p] /\ pc' = [pc EXCEPT ![t] = "post"]
      /\ UNCHANGED <<now, msgq, dmsgq, signaled, taken, fStop, managed, post, alive, running,
                     arg, todo, cur, next, until>>
  BY DEF StartPost, queues, clock, Goto
<1>3. /\ pc'[t] = "post" /\ posting'[t] = p
      /\ \A u \in Threads \ {t} : pc'[u] = pc[u] /\ posting'[u] = posting[u]
  BY <1>1, <1>2 DEF TypeOK
<1>4. TypeOK'
  BY <1>1, <1>2 DEF TypeOK, PCs
<1>5. \A r \in Readers : In(r)' = In(r)
  BY <1>2 DEF In
<1>6. Numbered' /\ Inactive'
  <2>1. Posters' = Posters \cup {t} /\ t \notin Posters
    BY <1>2, <1>3 DEF Posters
  <2>2. Len(post') + Cardinality(Posters') <= MaxMsgs
    BY <1>1, <1>2, <2>1, OnePosterMore
  <2> QED
    BY <1>1, <1>2, <1>5, <2>2 DEF Numbered, Inactive
<1>7. PostOK(t)'
  BY <1>1, <1>2, <1>3, <1>5 DEF PostOK, Inactive
<1>8. ASSUME NEW u \in Threads \ {t} PROVE PostOK(u)'
  <2>1. PostOK(u)
    BY <1>1 DEF Locks
  <2> QED
    BY <1>2, <1>3, <1>5, <2>1 DEF PostOK
<1>9. ASSUME NEW u \in Threads PROVE ClearOK(u)' /\ EndOK(u)'
  <2>1. ClearOK(u) /\ EndOK(u)
    BY <1>1 DEF Locks
  <2> QED
    BY <1>2, <1>3, <2>1 DEF ClearOK, EndOK, Ending
<1>10. Buried'
  <2> SUFFICES ASSUME NEW h \in Handlers \ alive, NEW q \in Readers, NEW m \in In(q),
                      q \in ToSet(managed) \/ ~fStop[q], post[m].h = h
               PROVE  \E u \in Threads : pc'[u] = "clear" /\ Cleared(u)' = h /\ q \in ToSet(todo)
    BY <1>2, <1>5 DEF Buried
  <2>1. PICK u \in Threads : pc[u] = "clear" /\ Cleared(u) = h /\ q \in ToSet(todo)
    BY <1>1 DEF Buried
  <2>2. u # t /\ Cleared(u)' = h
    BY <1>2, <2>1 DEF Cleared
  <2> QED
    BY <1>3, <2>1, <2>2
<1> QED
  BY <1>4, <1>6, <1>7, <1>8, <1>9, <1>10 DEF Held, Locks

\* What holds once t has put its message into a queue that the manager has, or
\* now has.
Delivers(t, p) ==
  /\ p = posting[t] /\ t \in Posters /\ Push(t, p)
  /\ managed' \in Seq(Readers) /\ ToSet(managed') = ToSet(managed) \cup {p.q}
  /\ managed' = managed \/ ManagerFree
  /\ \A u \in Threads \ {t} : pc[u] = "add" => posting[u].q # p.q
  /\ UNCHANGED <<now, fStop, taken, alive, running, arg, todo, cur, next, until>>

LEMMA DeliversHeld ==
  ASSUME Held, NEW t \in Threads, NEW p, Delivers(t, p) PROVE Held'
<1>1. TypeOK /\ Numbered /\ Locks /\ Inactive /\ Buried
  BY DEF Held
<1>2. /\ p = posting[t] /\ t \in Posters /\ pc[t] \in {"post", "add"} /\ Push(t, p)
      /\ managed' \in Seq(Readers) /\ ToSet(managed') = ToSet(managed) \cup {p.q}
      /\ managed' = managed \/ ManagerFree
      /\ \A u \in Threads \ {t} : pc[u] = "add" => posting[u].q # p.q
      /\ UNCHANGED <<now, fStop, taken, alive, running, arg, todo, cur, next, until>>
  BY DEF Delivers, Posters
<1>3. /\ p \in Postings /\ p.q \in Readers /\ p.h \in alive \cup {None}
      /\ p.q \in ToSet(managed) \/ In(p.q) = {}
  BY <1>1, <1>2 DEF Locks, PostOK, Postings
<1>4. PICK n : n = Len(post')
  OBVIOUS
<1>5. /\ post' \in Seq(Postings) /\ n = Len(post) + 1 /\ n \in Msgs
      /\ DOMAIN post' = DOMAIN post \cup {n} /\ n \notin DOMAIN post
      /\ \A m \in DOMAIN post : post'[m] = post[m]
      /\ post'[n].h = p.h
  BY <1>1, <1>2, <1>3, <1>4, NewPost
<1>6. /\ msgq' \in [Readers -> Seq(Msgs)] /\ dmsgq' \in [Readers -> SUBSET Msgs]
      /\ signaled' \in [Readers -> BOOLEAN]
      /\ In(p.q)' = In(p.q) \cup {n} /\ \A r \in Readers \ {p.q} : In(r)' = In(r)
      /\ pc' = [pc EXCEPT ![t] = "run"] /\ posting' = [posting EXCEPT ![t] = None]
  BY <1>1, <1>2, <1>3, <1>4, PushProps
<1>7. /\ pc'[t] = "run"
      /\ \A u \in Threads \ {t} : pc'[u] = pc[u] /\ posting'[u] = posting[u]
  BY <1>1, <1>6 DEF TypeOK
<1>8. TypeOK'
  <2>1. /\ pc' \in [Threads -> PCs] /\ posting' \in [Threads -> Postings \cup {None}]
        /\ running' \in [Threads -> DOMAIN post' \cup {None}]
        /\ arg' \in [Threads -> DOMAIN post' \cup Handlers \cup {None}]
        /\ taken' \subseteq DOMAIN post'
    BY <1>1, <1>2, <1>5, <1>6 DEF TypeOK, PCs
  <2> QED
    BY <1>1, <1>2, <1>5, <1>6, <2>1 DEF TypeOK, Postings
<1>9. Numbered'
  <2>1. Posters' = Posters \ {t}
    BY <1>7 DEF Posters
  <2>2. Len(post') + Cardinality(Posters') <= MaxMsgs
    BY <1>1, <1>2, <1>4, <1>5, <2>1, OnePosterLess
  <2>3. \A r \in Readers : In(r) \subseteq DOMAIN post
    BY <1>1 DEF Numbered
  <2>4. \A r \in Readers : In(r)' \subseteq DOMAIN post'
    BY <1>3, <1>5, <1>6, <2>3
  <2> QED
    BY <2>2, <2>4 DEF Numbered
<1>10. PostOK(t)' /\ ClearOK(t)' /\ EndOK(t)'
  BY <1>7 DEF PostOK, ClearOK, EndOK, Ending
<1>11. ASSUME NEW u \in Threads \ {t} PROVE PostOK(u)' /\ ClearOK(u)' /\ EndOK(u)'
  <2>1. /\ PostOK(u) /\ ClearOK(u) /\ EndOK(u) /\ pc'[u] = pc[u] /\ posting'[u] = posting[u]
        /\ arg'[u] = arg[u]
    BY <1>1, <1>2, <1>7 DEF Locks
  <2>2. PostOK(u)'
    <3>1. \A q \in Readers : posting[u].q = q /\ pc[u] \in {"post", "add"} =>
                                q \in ToSet(managed') \/ In(q)' = {}
      BY <1>2, <1>3, <1>6, <2>1 DEF PostOK
    <3>2. pc[u] = "add" => posting[u].q \notin ToSet(managed')
      BY <1>2, <2>1 DEF PostOK
    <3>3. \A v \in Threads \ {u} : pc'[v] = "add" => v # t /\ pc[v] = "add"
      BY <1>7
    <3> QED
      BY <1>2, <1>7, <2>1, <3>1, <3>2, <3>3 DEF PostOK
  <2>3. ClearOK(u)'
    BY <1>2, <1>5, <1>7, <2>1 DEF ClearOK
  <2>4. EndOK(u)'
    BY <1>2, <1>5, <2>1 DEF EndOK, Ending
  <2> QED
    BY <2>2, <2>3, <2>4
<1>12. Inactive'
  BY <1>1, <1>2, <1>6 DEF Inactive
<1>13. Buried'
  <2> SUFFICES ASSUME NEW h \in Handlers \ alive, NEW q \in Readers, NEW m \in In(q)',
                      q \in ToSet(managed') \/ ~fStop[q], post'[m].h = h
               PROVE  \E u \in Threads : pc'[u] = "clear" /\ Cleared(u)' = h /\ q \in ToSet(todo)
    BY <1>2 DEF Buried
  <2>1. m # n
    BY <1>3, <1>5, MessageQueueAssumption
  <2>2. m \in In(q)
    <3>1. CASE q = p.q
      BY <1>6, <2>1, <3>1, Zenon
    <3>2. CASE q # p.q
      BY <1>6, <3>2
    <3> QED
      BY <3>1, <3>2
  <2>3. m \in DOMAIN post /\ post[m].h = h /\ (q \in ToSet(managed) \/ ~fStop[q])
    BY <1>1, <1>2, <1>3, <1>5, <2>2 DEF Numbered
  <2>4. PICK u \in Threads : pc[u] = "clear" /\ Cleared(u) = h /\ q \in ToSet(todo)
    BY <1>1, <2>2, <2>3 DEF Buried
  <2>5. u # t /\ (arg[u] \in Msgs => arg[u] \in DOMAIN post)
    BY <1>1, <1>2, <2>4, MessageQueueAssumption DEF Locks, ClearOK, Msgs
  <2>6. Cleared(u)' = h
    BY <1>2, <1>5, <2>4, <2>5 DEF Cleared
  <2> QED
    BY <1>7, <2>4, <2>5, <2>6
<1>14. Locks'
  BY <1>10, <1>11 DEF Locks
<1> QED
  BY <1>8, <1>9, <1>12, <1>13, <1>14 DEF Held

LEMMA EnqueueDelivers ==
  ASSUME Held, NEW t \in Threads, Enqueue(t), posting[t].q \in ToSet(managed)
  PROVE  Delivers(t, posting[t])
<1>1. /\ pc[t] = "post" /\ QueueFree(posting[t].q, t) /\ Push(t, posting[t])
      /\ UNCHANGED <<now, fStop, managed, taken, alive, running, arg, todo, cur, next, until>>
  BY DEF Enqueue, clock
<1>2. managed \in Seq(Readers)
  BY DEF Held, TypeOK
<1>3. \A u \in Threads \ {t} : pc[u] = "add" => posting[u].q # posting[t].q
  BY <1>1 DEF QueueFree, HoldsQueue
<1> QED
  BY <1>1, <1>2, <1>3 DEF Delivers, Posters

LEMMA EnsureActiveDelivers ==
  ASSUME Held, NEW t \in Threads, EnsureActive(t) PROVE Delivers(t, posting[t])
<1>1. /\ pc[t] = "add" /\ ManagerFree /\ managed' = Append(managed, posting[t].q)
      /\ Push(t, posting[t])
      /\ UNCHANGED <<now, fStop, taken, alive, running, arg, todo, cur, next, until>>
  BY DEF EnsureActive, clock
<1>2. /\ posting[t] \in Postings /\ posting[t].q \in Readers
      /\ \A u \in Threads \ {t} : pc[u] = "add" => posting[u].q # posting[t].q
  BY <1>1 DEF Held, Locks, PostOK, Postings
<1>3. managed' \in Seq(Readers) /\ ToSet(managed') = ToSet(managed) \cup {posting[t].q}
  BY <1>1, <1>2, ToSetProps, AppendProperties DEF Held, TypeOK
<1> QED
  BY <1>1, <1>2, <1>3 DEF Delivers, Posters

LEMMA EnsureActiveHeld ==
  ASSUME Held, NEW t \in Threads, EnsureActive(t) PROVE Held'
BY EnsureActiveDelivers, DeliversHeld

LEMMA EnqueueHeld ==
  ASSUME Held, NEW t \in Threads, Enqueue(t) PROVE Held'
<1>1. CASE posting[t].q \in ToSet(managed)
  BY <1>1, EnqueueDelivers, DeliversHeld
<1>2. CASE posting[t].q \notin ToSet(managed)
  <2>1. TypeOK /\ Numbered /\ Locks /\ Inactive /\ Buried
    BY DEF Held
  <2>2. /\ pc[t] = "post" /\ QueueFree(posting[t].q, t) /\ pc' = [pc EXCEPT ![t] = "add"]
        /\ UNCHANGED <<now, msgq, dmsgq, signaled, posting, post, fStop, managed, taken, alive,
                       running, arg, todo, cur, next, until>>
    BY <1>2 DEF Enqueue, Goto, clock
  <2>3. pc'[t] = "add" /\ \A u \in Threads \ {t} : pc'[u] = pc[u]
    BY <2>1, <2>2 DEF TypeOK
  <2>4. TypeOK'
    BY <2>1, <2>2 DEF TypeOK, PCs
  <2>5. \A r \in Readers : In(r)' = In(r)
    BY <2>2 DEF In
  <2>6. Numbered' /\ Inactive'
    <3>1. Posters' = Posters
      BY <2>2, <2>3, SamePosters
    <3> QED
      BY <2>1, <2>2, <2>5, <3>1 DEF Numbered, Inactive
  <2>7. \A u \in Threads \ {t} : pc[u] = "add" => posting[u].q # posting[t].q
    BY <2>2 DEF QueueFree, HoldsQueue
  <2>8. PostOK(t)'
    <3>1. PostOK(t)
      BY <2>1 DEF Locks
    <3> QED
      BY <1>2, <2>2, <2>3, <2>5, <2>7, <3>1 DEF PostOK
  <2>9. ASSUME NEW u \in Threads \ {t} PROVE PostOK(u)'
    <3>1. PostOK(u)
      BY <2>1 DEF Locks
    <3> QED
      BY <2>2, <2>3, <2>5, <2>7, <3>1 DEF PostOK
  <2>10. ASSUME NEW u \in Threads PROVE ClearOK(u)' /\ EndOK(u)'
    <3>1. ClearOK(u) /\ EndOK(u)
      BY <2>1 DEF Locks
    <3> QED
      BY <2>2, <2>3, <3>1 DEF ClearOK, EndOK, Ending
  <2>11. Buried'
    <3> SUFFICES ASSUME NEW h \in Handlers \ alive, NEW q \in Readers, NEW m \in In(q),
                        q \in ToSet(managed) \/ ~fStop[q], post[m].h = h
                 PROVE  \E u \in Threads : /\ pc'[u] = "clear" /\ Cleared(u)' = h
                                           /\ q \in ToSet(todo)
      BY <2>2, <2>5 DEF Buried
    <3>1. PICK u \in Threads : pc[u] = "clear" /\ Cleared(u) = h /\ q \in ToSet(todo)
      BY <2>1 DEF Buried
    <3>2. u # t /\ Cleared(u)' = h
      BY <2>2, <3>1 DEF Cleared
    <3> QED
      BY <2>3, <3>1, <3>2
  <2> QED
    BY <2>4, <2>6, <2>8, <2>9, <2>10, <2>11 DEF Held, Locks
<1> QED
  BY <1>1, <1>2

\* A destructor begins: t clears h from every queue that the manager has.
StartsClear(t, h) ==
  /\ pc[t] \in {"run", "dispose"} /\ ManagerFree /\ ~InUse(h, t) /\ h \in Handlers
  /\ alive' = alive \ {h} /\ todo' = managed
  /\ pc' = [pc EXCEPT ![t] = "clear"]
  /\ \A u \in Threads \ {t} : arg'[u] = arg[u]
  /\ Cleared(t)' = h
  /\ UNCHANGED <<now, running, msgq, dmsgq, signaled, taken, fStop, managed, posting, post,
                 cur, next, until>>

LEMMA StartsClearHeld ==
  ASSUME Held, NEW t \in Threads, NEW h, StartsClear(t, h), TypeOK', EndOK(t)',
         arg'[t] \in Handlers \/ (arg'[t] \in DOMAIN post /\ post[arg'[t]].doomed # None)
  PROVE  Held'
<1>1. TypeOK /\ Numbered /\ Locks /\ Inactive /\ Buried
  BY DEF Held
<1>2. /\ pc[t] \in {"run", "dispose"} /\ ManagerFree /\ ~InUse(h, t) /\ h \in Handlers
      /\ alive' = alive \ {h} /\ todo' = managed
      /\ \A u \in Threads \ {t} : arg'[u] = arg[u]
      /\ Cleared(t)' = h
      /\ UNCHANGED <<now, running, msgq, dmsgq, signaled, taken, fStop, managed, posting, post,
                     cur, next, until>>
  BY DEF StartsClear
<1>3. /\ pc'[t] = "clear" /\ \A u \in Threads \ {t} : pc'[u] = pc[u]
      /\ \A u \in Threads : pc[u] # "clear"
  BY <1>1, <1>2 DEF StartsClear, TypeOK, ManagerFree, HoldsManager
<1>4. \A q \in Readers : In(q)' = In(q)
  BY <1>2 DEF In
<1>5. Numbered' /\ Inactive'
  <2>1. Posters' = Posters
    BY <1>2, <1>3, SamePosters
  <2> QED
    BY <1>1, <1>2, <1>4, <2>1 DEF Numbered, Inactive
<1>6. ClearOK(t)' /\ PostOK(t)'
  BY <1>2, <1>3 DEF ClearOK, PostOK
<1>7. ASSUME NEW u \in Threads \ {t} PROVE PostOK(u)' /\ ClearOK(u)' /\ EndOK(u)'
  <2>1. PostOK(u) /\ EndOK(u) /\ pc'[u] = pc[u] /\ arg'[u] = arg[u]
    BY <1>1, <1>2, <1>3 DEF Locks
  <2>2. ClearOK(u)' /\ EndOK(u)'
    BY <1>2, <1>3, <2>1 DEF ClearOK, EndOK, Ending
  <2>3. pc[u] \in {"post", "add"} => posting[u].h # h
    BY <1>2 DEF InUse, Posters
  <2>4. \A v \in Threads \ {u} : pc'[v] = "add" => pc[v] = "add"
    BY <1>3
  <2>5. PostOK(u)'
    BY <1>2, <1>4, <2>1, <2>3, <2>4 DEF PostOK
  <2> QED
    BY <2>2, <2>5
<1>8. Buried'
  <2> SUFFICES ASSUME NEW g \in Handlers \ alive', NEW q \in Readers, NEW m \in In(q),
                      q \in ToSet(managed) \/ ~fStop[q], post[m].h = g
               PROVE  \E u \in Threads : pc'[u] = "clear" /\ Cleared(u)' = g /\ q \in ToSet(todo')
    BY <1>2, <1>4 DEF Buried
  <2>1. q \in ToSet(managed)
    BY <1>1 DEF Inactive
  <2>2. g = h
    BY <1>1, <1>2, <1>3 DEF Buried
  <2> QED
    BY <1>2, <1>3, <2>1, <2>2
<1>9. Locks'
  BY <1>6, <1>7 DEF Locks
<1> QED
  BY <1>5, <1>8, <1>9 DEF Held

LEMMA DestroyHeld ==
  ASSUME Held, NEW t \in Threads, NEW h \in Handlers, Destroy(t, h) PROVE Held'
<1>1. TypeOK /\ Numbered /\ Locks
  BY DEF Held
<1>2. /\ pc[t] = "run" /\ ~InUse(h, t) /\ ManagerFree /\ alive' = alive \ {h}
      /\ pc' = [pc EXCEPT ![t] = "clear"] /\ arg' = [arg EXCEPT ![t] = h] /\ todo' = managed
      /\ UNCHANGED <<now, running, msgq, dmsgq, signaled, taken, fStop, managed, posting, post,
                     cur, next, until>>
  BY DEF Destroy, Goto, queues, clock
<1>3. pc'[t] = "clear" /\ arg'[t] = h /\ \A u \in Threads \ {t} : arg'[u] = arg[u]
  BY <1>1, <1>2 DEF TypeOK
<1>4. h \notin Msgs
  BY MessageQueueAssumption DEF Msgs
<1>5. Cleared(t)' = h /\ EndOK(t)'
  BY <1>3, <1>4 DEF Cleared, EndOK, Ending
<1>6. TypeOK'
  BY <1>1, <1>2 DEF TypeOK, PCs
<1>7. StartsClear(t, h)
  BY <1>2, <1>3, <1>5 DEF StartsClear
<1> QED
  BY <1>3, <1>5, <1>6, <1>7, StartsClearHeld

LEMMA DestroyDisposedHeld ==
  ASSUME Held, NEW t \in Threads, DestroyDisposed(t) PROVE Held'
<1> DEFINE h == post[arg[t]].doomed
<1>1. TypeOK /\ Numbered /\ Locks
  BY DEF Held
<1>2. /\ pc[t] = "dispose" /\ ~InUse(h, t) /\ ManagerFree /\ alive' = alive \ {h}
      /\ pc' = [pc EXCEPT ![t] = "clear"] /\ todo' = managed
      /\ UNCHANGED <<now, running, msgq, dmsgq, signaled, taken, fStop, managed, posting, post,
                     arg, cur, next, until>>
  BY DEF DestroyDisposed, Goto, queues, clock
<1>3. EndOK(t) /\ arg[t] \in DOMAIN post /\ h # None /\ arg[t] \in Msgs
  BY <1>1, <1>2, PostFacts DEF Locks, EndOK
<1>4. h \in Handlers
  BY <1>1, <1>3, PostFacts, MessageQueueAssumption DEF Postings
<1>5. pc'[t] = "clear"
  BY <1>1, <1>2 DEF TypeOK
<1>6. Cleared(t)' = h
  BY <1>2, <1>3 DEF Cleared
<1>7. EndOK(t)'
  BY <1>2, <1>3, <1>5 DEF EndOK, Ending
<1>8. TypeOK'
  BY <1>1, <1>2 DEF TypeOK, PCs
<1>9. StartsClear(t, h)
  BY <1>2, <1>4, <1>6 DEF StartsClear
<1> HIDE DEF h
<1>10. arg'[t] \in DOMAIN post /\ post[arg'[t]].doomed # None
  BY <1>2, <1>3 DEF h
<1> QED
  BY <1>7, <1>8, <1>9, <1>10, StartsClearHeld

LEMMA ClearNextHeld ==
  ASSUME Held, NEW t \in Threads, ClearNext(t) PROVE Held'
<1>1. TypeOK /\ Numbered /\ Locks /\ Inactive /\ Buried
  BY DEF Held
<1>2. PICK q, h : q = Head(todo) /\ h = Cleared(t)
  OBVIOUS
<1>3. /\ pc[t] = "clear" /\ todo # <<>> /\ ClearQueue(q, h) /\ todo' = Tail(todo)
      /\ UNCHANGED <<now, fStop, managed, posting, post, alive, running, pc, arg, cur, next, until>>
  BY <1>2 DEF ClearNext, clock
<1>4. /\ q \in Readers /\ Tail(todo) \in Seq(Readers)
      /\ ToSet(todo) = {q} \cup ToSet(Tail(todo))
  <2>1. todo \in Seq(Readers)
    BY <1>1 DEF TypeOK
  <2>2. Head(todo) \in ToSet(todo) /\ ToSet(todo) \subseteq Readers
    BY <1>3, <2>1, ToSetTail, ToSetProps
  <2>3. Tail(todo) \in Seq(Readers) /\ ToSet(todo) = {Head(todo)} \cup ToSet(Tail(todo))
    BY <1>3, <2>1, ToSetTail
  <2> QED
    BY <1>2, <2>2, <2>3
<1>5. /\ msgq' \in [Readers -> Seq(Msgs)] /\ dmsgq' \in [Readers -> SUBSET Msgs]
      /\ UNCHANGED <<signaled, taken>>
      /\ \A r \in Readers : In(r)' \subseteq In(r)
      /\ \A m \in In(q)' : h # None /\ post[m].h # h
  BY <1>1, <1>3, <1>4, ClearQueueProps
<1>6. TypeOK'
  BY <1>1, <1>3, <1>4, <1>5 DEF TypeOK
<1>7. Numbered' /\ Inactive'
  BY <1>1, <1>3, <1>5 DEF Numbered, Inactive, Posters
<1>8. ASSUME NEW u \in Threads PROVE PostOK(u)' /\ ClearOK(u)' /\ EndOK(u)'
  <2>1. PostOK(u) /\ ClearOK(u) /\ EndOK(u)
    BY <1>1 DEF Locks
  <2>2. ClearOK(u)' /\ EndOK(u)'
    BY <1>3, <1>4, <2>1 DEF ClearOK, EndOK, Ending
  <2>3. PostOK(u)'
    BY <1>3, <1>5, <2>1 DEF PostOK
  <2> QED
    BY <2>2, <2>3
<1>9. Buried'
  <2> SUFFICES ASSUME NEW g \in Handlers \ alive, NEW r \in Readers, NEW m \in In(r)',
                      r \in ToSet(managed) \/ ~fStop[r], post[m].h = g
               PROVE  \E u \in Threads : pc[u] = "clear" /\ Cleared(u) = g /\ r \in ToSet(todo')
    BY <1>3 DEF Buried, Cleared
  <2>1. m \in In(r)
    BY <1>5
  <2>2. PICK u \in Threads : pc[u] = "clear" /\ Cleared(u) = g /\ r \in ToSet(todo)
    BY <1>1, <2>1 DEF Buried
  <2>3. u = t
    BY <1>1, <1>3, <2>2 DEF Locks, ClearOK
  <2>4. r # q
    BY <1>2, <1>5, <2>2, <2>3
  <2> QED
    BY <1>3, <1>4, <2>2, <2>4
<1>10. Locks'
  BY <1>8 DEF Locks
<1> QED
  BY <1>6, <1>7, <1>9, <1>10 DEF Held

LEMMA ClearDoneHeld ==
  ASSUME Held, NEW t \in Threads, ClearDone(t) PROVE Held'
<1>1. TypeOK /\ Numbered /\ Locks /\ Inactive /\ Buried
  BY DEF Held
<1> DEFINE l == IF arg[t] \in Handlers THEN "run"
                ELSE IF t \in ToSet(managed) THEN "scan" ELSE "removed"
<1>2. /\ pc[t] = "clear" /\ todo = <<>> /\ pc' = [pc EXCEPT ![t] = l]
      /\ arg' = [arg EXCEPT ![t] = None]
      /\ UNCHANGED <<now, msgq, dmsgq, signaled, taken, fStop, managed, posting, post, alive, running,
                     todo, cur, next, until>>
  BY DEF ClearDone, Goto, queues, clock
<1>3. l \in {"run", "scan", "removed"} /\ (l = "removed" => t \in Readers /\ fStop[t])
  <2>1. ClearOK(t) /\ EndOK(t)
    BY <1>1 DEF Locks
  <2>2. arg[t] \in Handlers \/ Ending(t)
    BY <1>1, <1>2, <2>1, PostFacts DEF ClearOK, Ending
  <2> QED
    BY <2>1, <2>2 DEF EndOK
<1> HIDE DEF l
<1>4. /\ pc'[t] = l /\ \A u \in Threads \ {t} : pc'[u] = pc[u] /\ arg'[u] = arg[u]
      /\ l \in PCs
  BY <1>1, <1>2, <1>3 DEF TypeOK, PCs
<1>5. TypeOK'
  BY <1>1, <1>2, <1>4 DEF TypeOK
<1>6. \A r \in Readers : In(r)' = In(r)
  BY <1>2 DEF In
<1>7. Numbered' /\ Inactive'
  <2>1. Posters' = Posters
    BY <1>2, <1>3, <1>4, SamePosters
  <2> QED
    BY <1>1, <1>2, <1>6, <2>1 DEF Numbered, Inactive
<1>8. \A u \in Threads \ {t} : pc[u] # "clear"
  BY <1>1, <1>2 DEF Locks, ClearOK
<1>9. PostOK(t)' /\ ClearOK(t)' /\ EndOK(t)'
  BY <1>2, <1>3, <1>4 DEF PostOK, ClearOK, EndOK, Ending
<1>10. ASSUME NEW u \in Threads \ {t} PROVE PostOK(u)' /\ ClearOK(u)' /\ EndOK(u)'
  <2>1. PostOK(u) /\ EndOK(u) /\ pc'[u] = pc[u] /\ arg'[u] = arg[u]
    BY <1>1, <1>4 DEF Locks
  <2>2. ClearOK(u)' /\ EndOK(u)'
    BY <1>2, <1>8, <2>1 DEF ClearOK, EndOK, Ending
  <2>3. \A v \in Threads \ {u} : pc'[v] = "add" => pc[v] = "add"
    BY <1>3, <1>4
  <2>4. PostOK(u)'
    BY <1>2, <1>6, <2>1, <2>3 DEF PostOK
  <2> QED
    BY <2>2, <2>4
<1>11. Buried'
  <2>1. ToSet(todo) = {}
    BY <1>1, <1>2, ToSetProps DEF TypeOK
  <2> QED
    BY <1>1, <1>2, <1>6, <2>1 DEF Buried
<1>12. Locks'
  BY <1>9, <1>10 DEF Locks
<1> QED
  BY <1>5, <1>7, <1>11, <1>12 DEF Held

LEMMA RemoveQueueHeld ==
  ASSUME Held, NEW t \in Readers, RemoveQueue(t) PROVE Held'
<1>1. TypeOK /\ Numbered /\ Locks /\ Inactive /\ Buried /\ t \in Threads
  BY MessageQueueAssumption DEF Held
<1> DEFINE K == Readers \ {t}
<1>2. /\ pc[t] = "left" /\ ManagerFree /\ managed' = Keep(managed, K)
      /\ \A u \in Posters : posting[u].q # t
      /\ pc' = [pc EXCEPT ![t] = "removed"]
      /\ UNCHANGED <<now, msgq, dmsgq, signaled, taken, fStop, posting, post, alive,
                     running, arg, todo, cur, next, until>>
  BY DEF RemoveQueue, Goto, queues, clock
<1>3. K = Readers \ {t} /\ managed \in Seq(Readers)
  BY <1>1 DEF TypeOK
<1> HIDE DEF K
<1>4. managed' \in Seq(Readers) /\ ToSet(managed') = ToSet(managed) \cap K
  BY <1>2, <1>3, ToSetKeep
<1>5. TypeOK'
  BY <1>1, <1>2, <1>4 DEF TypeOK, PCs
<1>6. /\ pc'[t] = "removed" /\ \A u \in Threads \ {t} : pc'[u] = pc[u]
      /\ \A u \in Threads : pc[u] # "clear"
      /\ \A r \in Readers : In(r)' = In(r)
  BY <1>1, <1>2 DEF TypeOK, ManagerFree, HoldsManager, In
<1>7. fStop[t] /\ \A r \in Readers \ {t} : r \in ToSet(managed) => r \in ToSet(managed')
  BY <1>1, <1>2, <1>3, <1>4 DEF Locks, EndOK
<1>8. Numbered' /\ Inactive'
  <2>1. Posters' = Posters
    BY <1>2, <1>6, SamePosters
  <2> QED
    BY <1>1, <1>2, <1>6, <1>7, <2>1 DEF Numbered, Inactive
<1>9. PostOK(t)' /\ ClearOK(t)' /\ EndOK(t)'
  BY <1>2, <1>6, <1>7 DEF PostOK, ClearOK, EndOK, Ending
<1>10. ASSUME NEW u \in Threads \ {t} PROVE PostOK(u)' /\ ClearOK(u)' /\ EndOK(u)'
  <2>1. PostOK(u) /\ EndOK(u) /\ pc'[u] = pc[u]
    BY <1>1, <1>6 DEF Locks
  <2>2. ClearOK(u)' /\ EndOK(u)'
    BY <1>2, <1>6, <1>7, <2>1 DEF ClearOK, EndOK, Ending
  <2>3. pc[u] \in {"post", "add"} => posting[u].q # t
    BY <1>2 DEF Posters
  <2>4. \A v \in Threads \ {u} : pc'[v] = "add" => pc[v] = "add"
    BY <1>6
  <2>5. ToSet(managed') \subseteq ToSet(managed)
    BY <1>4
  <2>6. PostOK(u)'
    BY <1>2, <1>6, <1>7, <2>1, <2>3, <2>4, <2>5 DEF PostOK
  <2> QED
    BY <2>2, <2>6
<1>11. Buried'
  <2> SUFFICES ASSUME NEW g \in Handlers \ alive, NEW r \in Readers, NEW m \in In(r),
                      r \in ToSet(managed') \/ ~fStop[r], post[m].h = g
               PROVE  FALSE
    BY <1>2, <1>6 DEF Buried
  <2> QED
    BY <1>1, <1>4, <1>6 DEF Buried
<1>12. Locks'
  BY <1>9, <1>10 DEF Locks
<1> QED
  BY <1>5, <1>8, <1>11, <1>12 DEF Held

LEMMA InitHeld == Init => Held
<1> SUFFICES ASSUME Init PROVE Held
  OBVIOUS
<1>1. /\ now = 0 /\ msgq = [q \in Readers |-> <<>>] /\ dmsgq = [q \in Readers |-> {}]
      /\ fStop = [q \in Readers |-> FALSE] /\ managed = <<>>
      /\ signaled = [q \in Readers |-> FALSE] /\ post = <<>> /\ taken = {}
      /\ posting = [t \in Threads |-> None]
      /\ alive = Handlers /\ pc = [t \in Threads |-> "run"]
      /\ running = [t \in Threads |-> None] /\ arg = [t \in Threads |-> None]
      /\ todo = <<>> /\ cur = [t \in Readers |-> 0] /\ next = [t \in Readers |-> 0]
      /\ until = [t \in Readers |-> Forever]
  BY DEF Init
<1>2. TypeOK
  <2>1. 0 \in 0..Span /\ Forever \in Int
    BY MessageQueueAssumption DEF Forever
  <2> QED
    BY <1>1, <2>1 DEF TypeOK, PCs
<1>3. \A q \in Readers : In(q) = {}
  <2> TAKE q \in Readers
  <2>1. msgq[q] = <<>> /\ dmsgq[q] = {} /\ msgq[q] \in Seq(Msgs)
    BY <1>1
  <2>2. ToSet(msgq[q]) = {}
    BY <2>1, ToSetProps
  <2> QED
    BY <2>1, <2>2 DEF In
<1>4. Numbered
  <2>1. Len(post) = 0 /\ MaxMsgs \in Nat /\ Posters = {}
    BY <1>1, MessageQueueAssumption DEF Posters
  <2>2. Cardinality(Posters) = 0
    BY <2>1, FS_EmptySet
  <2> QED
    BY <1>3, <2>1, <2>2 DEF Numbered
<1>5. Locks
  BY <1>1 DEF Locks, PostOK, ClearOK, EndOK, Ending
<1>6. Inactive /\ Buried
  BY <1>3 DEF Inactive, Buried
<1> QED
  BY <1>2, <1>4, <1>5, <1>6 DEF Held

\* The three ways to post a message start alike.
Starts(t, p) ==
  /\ p.h \in alive \cup {None} /\ (p.delayed \/ p.due = 0)
  /\ StartPost(t, p)

LEMMA PostingOK ==
  ASSUME TypeOK, NEW q \in Readers, NEW h \in alive \cup {None}, NEW delayed \in BOOLEAN,
         NEW due \in 0..Span, NEW doomed \in Disposables \cup {None}, delayed \/ due = 0
  PROVE  LET p == Posting(q, h, delayed, due, doomed) IN
         p \in Postings /\ p.h \in alive \cup {None} /\ (p.delayed \/ p.due = 0)
<1>1. alive \subseteq Handlers /\ 0 \in 0..Span
  BY MessageQueueAssumption DEF TypeOK
<1> QED
  BY <1>1 DEF Posting, Postings

LEMMA NextSteps ==
  ASSUME TypeOK, Next
  PROVE  \/ Tick
         \/ \E t \in Threads, p \in Postings : Starts(t, p)
         \/ \E t \in Threads, q \in Readers, h \in Handlers : Clear(t, q, h)
         \/ \E t \in Threads :
              \/ Enqueue(t) \/ EnsureActive(t)
              \/ DestroyDisposed(t) \/ ClearNext(t) \/ ClearDone(t)
              \/ \E h \in Handlers : Destroy(t, h)
              \/ \E q \in Readers : Quit(t, q)
         \/ \E t \in Readers :
              \/ HandlerReturn(t) \/ Scan(t) \/ CheckStop(t) \/ WaitReturns(t)
              \/ RemoveQueue(t) \/ ClearAll(t)
<1>1. /\ now \in Nat /\ Delays \subseteq Nat /\ Span \in Nat /\ 0 \in 0..Span
      /\ None \in Disposables \cup {None} /\ None \in alive \cup {None}
  BY MessageQueueAssumption DEF TypeOK
<1>2. ASSUME NEW t \in Threads, NEW q \in Readers, NEW h \in Handlers, Post(t, q, h)
      PROVE  \E p \in Postings : Starts(t, p)
  <2>1. PICK p : p = Posting(q, h, FALSE, 0, None)
    OBVIOUS
  <2>2. h \in alive \cup {None} /\ StartPost(t, p)
    BY <1>2, <2>1 DEF Post
  <2>3. p \in Postings /\ p.h \in alive \cup {None} /\ (p.delayed \/ p.due = 0)
    BY <1>1, <2>1, <2>2, PostingOK
  <2> QED
    BY <2>2, <2>3 DEF Starts
<1>3. ASSUME NEW t \in Threads, NEW q \in Readers, NEW h \in Handlers, NEW d \in Delays,
             PostDelayed(t, q, h, d)
      PROVE  \E p \in Postings : Starts(t, p)
  <2>1. PICK p : p = Posting(q, h, TRUE, now + d, None)
    OBVIOUS
  <2>2. h \in alive \cup {None} /\ now + d <= Span /\ StartPost(t, p)
    BY <1>3, <2>1 DEF PostDelayed
  <2>3. now + d \in 0..Span
    BY <1>1, <2>2
  <2>4. p \in Postings /\ p.h \in alive \cup {None} /\ (p.delayed \/ p.due = 0)
    BY <1>1, <2>1, <2>2, <2>3, PostingOK
  <2> QED
    BY <2>2, <2>4 DEF Starts
<1>4. ASSUME NEW t \in Threads, NEW q \in Readers, NEW h \in Disposables \cup {None},
             Dispose(t, q, h)
      PROVE  \E p \in Postings : Starts(t, p)
  <2>1. PICK p : p = Posting(q, None, FALSE, 0, h)
    OBVIOUS
  <2>2. StartPost(t, p)
    BY <1>4, <2>1 DEF Dispose
  <2>3. p \in Postings /\ p.h \in alive \cup {None} /\ (p.delayed \/ p.due = 0)
    BY <1>1, <2>1, PostingOK
  <2> QED
    BY <2>2, <2>3 DEF Starts
<1> QED
  BY <1>2, <1>3, <1>4 DEF Next

LEMMA HeldStep == Held /\ [Next]_vars => Held'
<1> SUFFICES ASSUME Held, [Next]_vars PROVE Held'
  OBVIOUS
<1>1. CASE UNCHANGED vars
  <2>1. UNCHANGED <<now, msgq, dmsgq, fStop, managed, signaled, posting, post, taken,
                    alive, pc, running, arg, todo, cur, next, until>>
    BY <1>1 DEF vars
  <2>2. TypeOK' /\ Numbered' /\ Inactive'
    BY <2>1 DEF Held, TypeOK, Numbered, Inactive, In, Posters
  <2>3. Locks'
    BY <2>1 DEF Held, Locks, PostOK, ClearOK, EndOK, Ending, In
  <2>4. Buried'
    BY <2>1 DEF Held, Buried, In, Cleared
  <2> QED
    BY <2>2, <2>3, <2>4 DEF Held
<1>2. ASSUME NEW t \in Threads, NEW p \in Postings, Starts(t, p) PROVE Held'
  BY <1>2, StartPostHeld DEF Starts
<1>3. CASE Next
  BY <1>2, <1>3, NextSteps, TickHeld, ClearHeld, EnqueueHeld, EnsureActiveHeld,
     DestroyDisposedHeld, ClearNextHeld, ClearDoneHeld, DestroyHeld, QuitHeld, HandlerReturnHeld, ScanHeld,
     CheckStopHeld, WaitReturnsHeld, RemoveQueueHeld, ClearAllHeld DEF Held
<1> QED
  BY <1>1, <1>3

LEMMA HeldAlways == Spec => []Held
<1>1. Init => Held
  BY InitHeld
<1>2. Held /\ [Next]_vars => Held'
  BY HeldStep
<1> QED
  BY <1>1, <1>2, PTL DEF Spec

\* The variables keep their types: in particular a message is only ever in a queue
\* or with a handler under its own number, and top() of a queue that is not empty
\* is one of its messages.
THEOREM TypeCorrect == Spec => []TypeOK
<1>1. Held => TypeOK
  BY DEF Held
<1> QED
  BY <1>1, HeldAlways, PTL

\* Once ~MessageHandler has returned, no queue that is still read has a message for
\* the handler: a queue that MessageQueueManager::Clear did not find was empty, and
\* nobody was about to make it active for a message of the handler's.
THEOREM DeadGetNothing == Spec => []NoneForDead
<1>1. Held => NoneForDead
  <2> SUFFICES ASSUME Held, NEW h \in Handlers \ alive,
                      \A t \in Threads : ~(pc[t] = "clear" /\ Cleared(t) = h),
                      NEW q \in Readers, q \in ToSet(managed) \/ ~fStop[q],
                      NEW m \in In(q), post[m].h = h
               PROVE  FALSE
    BY DEF NoneForDead
  <2> QED
    BY DEF Held, Buried
<1> QED
  BY <1>1, HeldAlways, PTL

\* Two threads wait for each other only when one deletes a disposed handler with its
\* queue locked: a queue that Post is making active is not with the manager, so that
\* Clear, which holds the manager's lock, never waits for it.
THEOREM DeadlocksNeedDispose == Spec => []OnlyDisposeDeadlocks
<1>1. Held => OnlyDisposeDeadlocks
  <2> SUFFICES ASSUME Held, NEW t \in Threads, NEW u \in Threads,
                      u \in WaitsFor(t), t \in WaitsFor(u),
                      pc[t] # "dispose", pc[u] # "dispose"
               PROVE  FALSE
    BY DEF OnlyDisposeDeadlocks
  <2>1. \A v \in Threads : PostOK(v) /\ ClearOK(v)
    BY DEF Held, Locks
  <2>2. t # u /\ todo \in Seq(Readers)
    BY DEF WaitsFor, Held, TypeOK
  <2>3. \A v, w \in Threads : v # w => ~(pc[v] = "clear" /\ pc[w] = "clear")
    BY <2>1 DEF ClearOK
  <2>4. todo # <<>> => Head(todo) \in ToSet(todo)
    BY <2>2, ToSetTail
  <2>5. ASSUME NEW v \in Threads, NEW w \in Threads, pc[v] = "add", pc[w] = "clear",
               w \in WaitsFor(v), v \in WaitsFor(w)
        PROVE  FALSE
    <3>1. todo # <<>> /\ Head(todo) = posting[v].q
      BY <2>5 DEF WaitsFor, HoldsManager, HoldsQueue
    <3>2. Head(todo) \in ToSet(managed)
      BY <2>1, <2>4, <2>5, <3>1 DEF ClearOK
    <3> QED
      BY <2>1, <2>5, <3>1, <3>2 DEF PostOK
  <2>6. /\ pc[t] = "add" => pc[u] = "clear"
        /\ pc[u] = "add" => pc[t] = "clear"
        /\ pc[t] \in {"add", "clear"} /\ pc[u] \in {"add", "clear"}
    BY DEF WaitsFor, HoldsManager
  <2> QED
    BY <2>2, <2>3, <2>5, <2>6
<1> QED
  BY <1>1, HeldAlways, PTL

-------------------------------------------------------------------------------
(***************************************************************************)
(* The time.  What follows is about a program that does not run into the   *)
(* wrap of its 32-bit milliseconds, and whose delays are less than half of *)
(* their range: DelayedMessage compares them as unsigned numbers.          *)
(***************************************************************************)
NoWrap == Start + Span < TimeRange /\ 2 * Span < TimeRange

LEMMA Times ==
  ASSUME NoWrap, NEW a \in 0..Span, NEW b \in 0..Span
  PROVE  Time(a) = Start + a /\ TimeDiff(Time(a), Time(b)) = a - b
<1>1. Start \in Nat /\ TimeRange \in Nat \ {0} /\ Span \in Nat /\ a \in Nat /\ b \in Nat
      /\ a <= Span /\ b <= Span
  BY MessageQueueAssumption
<1>2. \A x \in Int, n \in Nat \ {0} : 0 <= x /\ x < n => x % n = x
  OBVIOUS
<1>3. Time(a) = Start + a /\ Time(b) = Start + b
  <2>1. Start + a \in Int /\ 0 <= Start + a /\ Start + a < TimeRange
    BY <1>1 DEF NoWrap
  <2>2. Start + b \in Int /\ 0 <= Start + b /\ Start + b < TimeRange
    BY <1>1 DEF NoWrap
  <2> QED
    BY <1>1, <1>2, <2>1, <2>2 DEF Time
<1>4. CASE b <= a
  <2>1. (Start + a) - (Start + b) = a - b /\ a - b \in Int /\ 0 <= a - b /\ a - b < TimeRange
        /\ 2 * (a - b) < TimeRange
    BY <1>1, <1>4 DEF NoWrap
  <2>2. (a - b) % TimeRange = a - b
    BY <1>1, <1>2, <2>1
  <2> QED
    BY <1>3, <2>1, <2>2 DEF TimeDiff
<1>5. CASE a < b
  <2>1. \A x \in Int, n \in Nat \ {0} : 0 < x /\ x < n => (0 - x) % n = n - x
    OBVIOUS
  <2>2. (Start + a) - (Start + b) = 0 - (b - a) /\ b - a \in Int /\ 0 < b - a
        /\ b - a < TimeRange /\ 2 * (b - a) < TimeRange
    BY <1>1, <1>5 DEF NoWrap
  <2>3. (0 - (b - a)) % TimeRange = TimeRange - (b - a)
    BY <1>1, <2>1, <2>2
  <2>4. ~(2 * (TimeRange - (b - a)) < TimeRange)
        /\ (TimeRange - (b - a)) - TimeRange = a - b
    BY <1>1, <2>2
  <2> QED
    BY <1>3, <2>2, <2>3, <2>4 DEF TimeDiff
<1> QED
  BY <1>1, <1>4, <1>5

\* By its time, and then as it was posted.
Precedes(m, n) ==
  post[m].due < post[n].due \/ (post[m].due = post[n].due /\ m < n)

LEMMA SoonerPrecedes ==
  ASSUME NoWrap, TypeOK, Numbered, NEW m \in DOMAIN post, NEW n \in DOMAIN post
  PROVE  /\ Sooner(m, n) <=> Precedes(m, n)
         /\ \A t \in Readers : TimeIsLater(Time(cur[t]), Trigger(m)) <=> post[m].due > cur[t]
<1>1. post[m].due \in 0..Span /\ post[n].due \in 0..Span
  BY PostFacts DEF Postings
<1>2. Trigger(m) = Start + post[m].due /\ Trigger(n) = Start + post[n].due
  BY <1>1, Times DEF Trigger
<1>3. Start \in Int /\ post[m].due \in Int /\ post[n].due \in Int
  BY <1>1, MessageQueueAssumption
<1>4. Sooner(m, n) <=> Precedes(m, n)
  BY <1>2, <1>3 DEF Sooner, Precedes
<1>5. ASSUME NEW t \in Readers
      PROVE  TimeIsLater(Time(cur[t]), Trigger(m)) <=> post[m].due > cur[t]
  <2>1. cur[t] \in 0..Span /\ cur[t] \in Int
    BY DEF TypeOK
  <2>2. TimeDiff(Time(post[m].due), Time(cur[t])) = post[m].due - cur[t]
    BY <1>1, <2>1, Times
  <2>3. TimeIsLater(Time(cur[t]), Trigger(m)) <=> post[m].due - cur[t] > 0
    BY <2>2 DEF TimeIsLater, Trigger
  <2> QED
    BY <1>3, <2>1, <2>3
<1> QED
  BY <1>4, <1>5

-------------------------------------------------------------------------------
(***************************************************************************)
(* The wait of Get.  From its look at an empty queue until its Wait ends,  *)
(* every message that is pushed leaves a wake-up.                          *)
(***************************************************************************)
Waiting ==
  \A t \in Readers : pc[t] \in {"check", "wait"} /\ ~signaled[t] =>
    /\ msgq[t] = <<>>
    /\ \A m \in dmsgq[t] : next[t] # Forever /\ cur[t] + next[t] <= post[m].due

\* Reader t does not come to wait for longer, or for more.
Calm(t) ==
  pc'[t] \in {"check", "wait"} /\ ~signaled'[t] =>
    /\ pc[t] \in {"check", "wait"} /\ ~signaled[t]
    /\ next'[t] = next[t] /\ cur'[t] = cur[t]
    /\ msgq[t] = <<>> => msgq'[t] = <<>>
    /\ dmsgq'[t] \subseteq dmsgq[t]
    /\ \A m \in dmsgq[t] : post'[m] = post[m]

LEMMA CalmWaiting == Waiting /\ (\A t \in Readers : Calm(t)) => Waiting'
BY DEF Waiting, Calm

LEMMA DeliversCalm ==
  ASSUME Held, NEW t \in Threads, NEW p, Delivers(t, p) PROVE \A r \in Readers : Calm(r)
<1>1. TypeOK /\ Numbered /\ PostOK(t) /\ t \in Posters /\ p = posting[t]
      /\ Push(t, p) /\ UNCHANGED <<cur, next>>
  BY DEF Held, Locks, Delivers
<1>2. p \in Postings
  BY <1>1 DEF PostOK, Posters
<1> TAKE r \in Readers
<1>3. CASE r = p.q
  BY <1>1, <1>2, <1>3, PushProps DEF Calm
<1>4. CASE r # p.q
  <2>1. /\ msgq'[r] = msgq[r] /\ dmsgq'[r] = dmsgq[r] /\ signaled'[r] = signaled[r]
        /\ pc' = [pc EXCEPT ![t] = "run"]
    BY <1>1, <1>2, <1>4, PushProps
  <2>2. dmsgq[r] \subseteq DOMAIN post /\ \A m \in DOMAIN post : post'[m] = post[m]
    BY <1>1, <1>2, NewPost DEF Numbered, In
  <2>3. pc'[r] \in {"check", "wait"} => pc[r] = pc'[r]
    BY <1>1, <2>1, MessageQueueAssumption DEF TypeOK
  <2> QED
    BY <1>1, <2>1, <2>2, <2>3 DEF Calm
<1> QED
  BY <1>3, <1>4

LEMMA ClearQueueCalm ==
  ASSUME Held, NEW q \in Readers, NEW h, ClearQueue(q, h), UNCHANGED <<post, cur, next>>,
         \A t \in Readers : pc'[t] \in {"check", "wait"} => pc[t] = pc'[t]
  PROVE  \A t \in Readers : Calm(t)
<1>1. TypeOK
  BY DEF Held
<1> TAKE t \in Readers
<1>2. signaled' = signaled /\ (t # q => msgq'[t] = msgq[t] /\ dmsgq'[t] = dmsgq[t])
  BY <1>1, ClearQueueProps
<1>3. dmsgq'[q] \subseteq dmsgq[q] /\ (msgq[q] = <<>> => msgq'[q] = <<>>)
  <2>1. PICK K : msgq'[q] = Keep(msgq[q], K) /\ dmsgq'[q] = dmsgq[q] \cap K
    BY <1>1, ClearQueueProps
  <2>2. msgq[q] \in Seq(Msgs)
    BY <1>1 DEF TypeOK
  <2>3. Keep(msgq[q], K) \in Seq(Msgs) /\ ToSet(Keep(msgq[q], K)) = ToSet(msgq[q]) \cap K
    BY <2>2, ToSetKeep
  <2>4. msgq[q] = <<>> => ToSet(Keep(msgq[q], K)) = {}
    BY <2>2, <2>3, ToSetProps
  <2>5. msgq[q] = <<>> => Keep(msgq[q], K) = <<>>
    BY <2>3, <2>4, ToSetProps
  <2> QED
    BY <2>1, <2>5
<1> QED
  BY <1>2, <1>3 DEF Calm

\* The wait that Get computes: until the first of the delayed messages.
LEMMA ScanWaiting ==
  ASSUME NoWrap, Held, Waiting, NEW t \in Readers, Scan(t) PROVE Waiting'
<1>1. TypeOK /\ Numbered /\ Scans(t) /\ t \in Threads
  BY ScanScans, MessageQueueAssumption DEF Held
<1>2. UNCHANGED <<signaled, post>>
  BY <1>1 DEF Scans
<1>3. CASE Queued(t) # <<>>
  <2>1. /\ pc'[t] \notin {"check", "wait"}
        /\ \A r \in Readers \ {t} : msgq'[r] = msgq[r] /\ dmsgq'[r] = dmsgq[r]
    BY <1>1, <1>3, TakeHeld
  <2>2. /\ next' = next /\ \A r \in Readers \ {t} : pc'[r] = pc[r] /\ cur'[r] = cur[r]
    <3>1. /\ next' = next
          /\ \/ pc' = [pc EXCEPT ![t] = "run"] /\ cur' = [cur EXCEPT ![t] = 0]
             \/ pc' = [pc EXCEPT ![t] = "dispose"] /\ cur' = cur
             \/ UNCHANGED <<pc, cur>>
      BY <1>1, <1>3 DEF Scans, Take, Goto
    <3>2. pc \in [Threads -> PCs] /\ cur \in [Readers -> 0..Span]
      BY <1>1 DEF TypeOK
    <3> QED
      BY <1>1, <3>1, <3>2, MessageQueueAssumption
  <2>3. \A r \in Readers : Calm(r)
    BY <1>2, <2>1, <2>2 DEF Calm
  <2> QED
    BY <2>3, CalmWaiting
<1>4. CASE Queued(t) = <<>>
  <2> DEFINE rest == dmsgq[t] \ Moved(t)
             wait == IF rest = {} THEN Forever ELSE TimeDiff(Trigger(Top(rest)), Time(cur[t]))
  <2>1. msgq' = msgq /\ msgq[t] = <<>>
    BY <1>1, <1>4, NothingReadyHeld
  <2>2. /\ dmsgq' = [dmsgq EXCEPT ![t] = rest] /\ next' = [next EXCEPT ![t] = wait]
        /\ pc' = [pc EXCEPT ![t] = "check"] /\ UNCHANGED cur
    BY <1>1, <1>4 DEF Scans, NothingReady, Goto
  <2>3. rest \subseteq DOMAIN post
    BY <1>1 DEF Numbered, In
  <2>4. ASSUME rest # {}
        PROVE  wait # Forever /\ \A m \in rest : cur[t] + wait <= post[m].due
    <3>1. PICK n : n = Top(rest) /\ n \in rest /\ \A m \in rest \ {n} : Sooner(n, m)
      <4> HIDE DEF rest
      <4>1. Top(rest) \in rest /\ \A m \in rest \ {Top(rest)} : Sooner(Top(rest), m)
        BY <1>1, <2>3, <2>4, TopFirst
      <4> QED
        BY <4>1
    <3>2. n \in DOMAIN post /\ \A m \in rest : m = n \/ Precedes(n, m)
      BY <1>1, <2>3, <3>1, SoonerPrecedes
    <3>3. \A m \in rest : post[m].due \in Int /\ post[m].due \in 0..Span
      BY <1>1, <2>3, PostFacts, MessageQueueAssumption DEF Postings
    <3>4. \A m \in rest : post[n].due <= post[m].due
      <4> TAKE m \in rest
      <4>1. post[n].due \in Int /\ post[m].due \in Int
        BY <3>1, <3>3
      <4>2. m = n \/ post[n].due < post[m].due \/ post[n].due = post[m].due
        BY <3>2 DEF Precedes
      <4> QED
        BY <4>1, <4>2
    <3>5. cur[t] \in 0..Span /\ cur[t] \in Int
      BY <1>1 DEF TypeOK
    <3>6. wait = post[n].due - cur[t]
      <4>1. TimeDiff(Time(post[n].due), Time(cur[t])) = post[n].due - cur[t]
        BY <3>1, <3>3, <3>5, Times
      <4>2. wait = TimeDiff(Trigger(n), Time(cur[t]))
        BY <2>4, <3>1
      <4> QED
        BY <4>1, <4>2 DEF Trigger
    <3>7. post[n].due > cur[t]
      <4>1. PICK k \in dmsgq[t] : (k = n \/ Sooner(k, n)) /\ TimeIsLater(Time(cur[t]), Trigger(k))
        <5>1. n \in dmsgq[t] /\ n \notin Triggered(dmsgq[t], cur[t])
          BY <3>1 DEF Moved
        <5> QED
          BY <5>1 DEF Triggered
      <4>2. k \in DOMAIN post
        BY <1>1, <4>1 DEF Numbered, In
      <4>3. post[k].due > cur[t] /\ (k = n \/ Precedes(k, n))
        BY <1>1, <3>2, <4>1, <4>2, SoonerPrecedes
      <4>4. post[k].due \in Int
        BY <1>1, <4>2, PostFacts, MessageQueueAssumption DEF Postings
      <4> QED
        BY <3>1, <3>3, <3>5, <4>3, <4>4 DEF Precedes
    <3> HIDE DEF wait
    <3>8. wait # Forever
      BY <3>1, <3>3, <3>5, <3>6, <3>7 DEF Forever
    <3>9. \A m \in rest : cur[t] + wait <= post[m].due
      <4> TAKE m \in rest
      <4>1. post[n].due \in Int /\ post[m].due \in Int /\ post[n].due <= post[m].due
        BY <3>1, <3>3, <3>4
      <4>2. cur[t] + wait = post[n].due
        BY <3>5, <3>6, <4>1
      <4> QED
        BY <4>1, <4>2
    <3> QED
      BY <3>8, <3>9
  <2> HIDE DEF rest, wait
  <2>5. /\ dmsgq'[t] = rest /\ next'[t] = wait
        /\ \A r \in Readers \ {t} : /\ dmsgq'[r] = dmsgq[r] /\ next'[r] = next[r]
                                    /\ pc'[r] = pc[r]
    BY <1>1, <2>2 DEF TypeOK
  <2>6. ASSUME NEW r \in Readers, pc'[r] \in {"check", "wait"}, ~signaled'[r]
        PROVE  /\ msgq'[r] = <<>>
               /\ \A m \in dmsgq'[r] : next'[r] # Forever /\ cur'[r] + next'[r] <= post'[m].due
    <3>1. CASE r = t
      BY <1>2, <2>1, <2>2, <2>4, <2>5, <3>1
    <3>2. CASE r # t
      BY <1>2, <2>1, <2>2, <2>5, <2>6, <3>2 DEF Waiting
    <3> QED
      BY <3>1, <3>2
  <2> QED
    BY <2>6 DEF Waiting
<1> QED
  BY <1>3, <1>4

LEMMA WaitingStep ==
  ASSUME NoWrap, Held, Waiting, [Next]_vars PROVE Waiting'
<1>1. TypeOK /\ Numbered /\ Readers \subseteq Threads
  BY MessageQueueAssumption DEF Held
<1>2. CASE UNCHANGED vars \/ Tick
  BY <1>2 DEF vars, Tick, Waiting, queues, clock
<1>4. ASSUME NEW t \in Threads, NEW q \in Readers, NEW h, ClearQueue(q, h),
             UNCHANGED <<post, cur, next>>,
             \A r \in Readers : pc'[r] \in {"check", "wait"} => pc[r] = pc'[r]
      PROVE  Waiting'
  BY <1>4, ClearQueueCalm, CalmWaiting
<1>5. ASSUME NEW t \in Threads, NEW q \in Readers, NEW h \in Handlers, Clear(t, q, h)
      PROVE  Waiting'
  <2>1. ClearQueue(q, h) /\ UNCHANGED <<post, pc, cur, next>>
    BY <1>5 DEF Clear, clock
  <2> QED
    BY <1>4, <2>1
<1>6. ASSUME NEW t \in Threads, NEW p, Delivers(t, p) PROVE Waiting'
  BY <1>6, DeliversCalm, CalmWaiting
<1>7. ASSUME NEW t \in Threads, ClearNext(t) PROVE Waiting'
  <2>1. PICK q, h : q = Head(todo) /\ h = Cleared(t)
    OBVIOUS
  <2>2. ClearQueue(q, h) /\ todo # <<>> /\ UNCHANGED <<post, pc, cur, next>>
    BY <1>7, <2>1 DEF ClearNext, clock
  <2>3. q \in Readers
    BY <1>1, <2>1, <2>2, ToSetTail, ToSetProps DEF TypeOK
  <2> QED
    BY <1>4, <2>2, <2>3
<1>8. ASSUME NEW t \in Threads, UNCHANGED <<msgq, dmsgq, signaled, post, cur, next>>,
             NEW l, l \notin {"check", "wait"}, pc' = [pc EXCEPT ![t] = l]
      PROVE  Waiting'
  BY <1>1, <1>8 DEF TypeOK, Waiting
<1>3. ASSUME NEW t \in Threads, (\E p \in Postings : Starts(t, p)) \/ Enqueue(t)
      PROVE  Waiting'
  <2>1. CASE \E p \in Postings : Starts(t, p)
    <3>1. UNCHANGED <<msgq, dmsgq, signaled, post, cur, next>> /\ pc' = [pc EXCEPT ![t] = "post"]
      BY <2>1 DEF Starts, StartPost, queues, clock, Goto
    <3> QED
      BY <1>8, <3>1
  <2>2. CASE Enqueue(t) /\ posting[t].q \in ToSet(managed)
    BY <1>6, <2>2, EnqueueDelivers
  <2>3. CASE Enqueue(t) /\ posting[t].q \notin ToSet(managed)
    <3>1. UNCHANGED <<msgq, dmsgq, signaled, post, cur, next>> /\ pc' = [pc EXCEPT ![t] = "add"]
      BY <2>3 DEF Enqueue, clock, Goto
    <3> QED
      BY <1>8, <3>1
  <2> QED
    BY <1>3, <2>1, <2>2, <2>3
<1>9. ASSUME NEW t \in Threads,
             \/ DestroyDisposed(t) \/ ClearDone(t) \/ \E h \in Handlers : Destroy(t, h)
             \/ t \in Readers /\ RemoveQueue(t)
      PROVE  Waiting'
  <2>1. UNCHANGED <<msgq, dmsgq, signaled, post, cur, next>>
    BY <1>9 DEF DestroyDisposed, ClearDone, Destroy, RemoveQueue, queues, clock
  <2>2. \E l \in {"clear", "run", "scan", "removed"} : pc' = [pc EXCEPT ![t] = l]
    BY <1>9 DEF DestroyDisposed, ClearDone, Destroy, RemoveQueue, Goto
  <2> QED
    BY <1>8, <2>1, <2>2
<1>10. ASSUME NEW t \in Threads, NEW q \in Readers, Quit(t, q) PROVE Waiting'
  BY <1>1, <1>10 DEF Quit, clock, TypeOK, Waiting
<1>11. ASSUME NEW t \in Readers, HandlerReturn(t) \/ WaitReturns(t) PROVE Waiting'
  <2>1. /\ pc' = [pc EXCEPT ![t] = "scan"] /\ UNCHANGED <<msgq, dmsgq, post>>
        /\ \A r \in Readers \ {t} : cur'[r] = cur[r] /\ next'[r] = next[r] /\ signaled'[r] = signaled[r]
    BY <1>1, <1>11 DEF HandlerReturn, WaitReturns, queues, Goto, TypeOK
  <2>2. pc'[t] = "scan" /\ \A r \in Readers \ {t} : pc'[r] = pc[r]
    BY <1>1, <2>1 DEF TypeOK
  <2> QED
    BY <2>1, <2>2 DEF Waiting
<1>12. ASSUME NEW t \in Readers, CheckStop(t) PROVE Waiting'
  <2>1. /\ pc[t] = "check" /\ UNCHANGED <<msgq, dmsgq, post, cur, next, signaled>>
        /\ \A r \in Readers \ {t} : pc'[r] = pc[r]
    BY <1>1, <1>12 DEF CheckStop, queues, Goto, TypeOK
  <2> QED
    BY <2>1 DEF Waiting
<1>13. ASSUME NEW t \in Readers, ClearAll(t) PROVE Waiting'
  <2>1. pc[t] = "removed" /\ UNCHANGED <<post, cur, next>>
    BY <1>13 DEF ClearAll, clock
  <2>2. CASE ClearQueue(t, None) /\ pc' = [pc EXCEPT ![t] = "gone"]
    <3>1. \A r \in Readers : pc'[r] \in {"check", "wait"} => pc[r] = pc'[r]
      BY <1>1, <2>2 DEF TypeOK
    <3> QED
      BY <1>1, <1>4, <2>1, <2>2, <3>1
  <2>3. CASE \E m : /\ msgq' = [msgq EXCEPT ![t] = Keep(@, Msgs \ {m})]
                    /\ pc' = [pc EXCEPT ![t] = "dispose"] /\ UNCHANGED <<dmsgq, signaled>>
    <3>1. pc'[t] = "dispose" /\ \A r \in Readers \ {t} : pc'[r] = pc[r] /\ msgq'[r] = msgq[r]
      BY <1>1, <2>3 DEF TypeOK
    <3> QED
      BY <2>1, <2>3, <3>1 DEF Waiting
  <2> QED
    BY <1>13, <2>2, <2>3 DEF ClearAll, Goto
<1>14. CASE Next
  BY <1>1, <1>2, <1>3, <1>5, <1>6, <1>7, <1>9, <1>10, <1>11, <1>12, <1>13, <1>14, NextSteps,
     ScanWaiting, EnsureActiveDelivers
<1> QED
  BY <1>2, <1>14

\* A thread that waits with no wake-up on its way has nothing to deliver, and its
\* wait ends by the time of its first delayed message.
THEOREM WaitsAreShort ==
  ASSUME NoWrap PROVE Spec => []WakesInTime
<1>1. Init => Waiting
  BY DEF Init, Waiting
<1>2. Held /\ Waiting /\ [Next]_vars => Waiting'
  BY WaitingStep
<1>3. Waiting => WakesInTime
  BY DEF Waiting, WakesInTime
<1> QED
  BY <1>1, <1>2, <1>3, HeldAlways, PTL DEF Spec

-------------------------------------------------------------------------------
(***************************************************************************)
(* The order of the messages in a queue.                                   *)
(***************************************************************************)
\* By its time, or it was due already when the other was put into the queue.
Comes(m, n) ==
  Precedes(m, n) \/ (post[m].delayed /\ m < n /\ post[m].due <= post[n].at)

\* Posted messages and delayed ones are each in order in the list s; what is in it is
\* due, and no delayed message of D comes before a delayed one of s.
LineUp(s, D) ==
  /\ \A i, j \in 1..Len(s) :
       i < j /\ post[s[i]].delayed = post[s[j]].delayed => Comes(s[i], s[j])
  /\ \A i \in 1..Len(s) :
       /\ post[s[i]].due <= now
       /\ post[s[i]].delayed => \A m \in D : Comes(s[i], m)

Stored ==
  /\ \A m \in DOMAIN post : post[m].delayed \/ post[m].due = 0
  /\ \A t \in Readers : cur[t] <= now

Ordered ==
  \A q \in Readers : LineUp(msgq[q], dmsgq[q]) /\ \A m \in dmsgq[q] : post[m].delayed

\* Time goes on and more is posted.
Onward == now <= now' /\ now' \in Int /\ \A m \in DOMAIN post : post'[m] = post[m]

LEMMA LineUpOnward ==
  ASSUME TypeOK, Numbered, Onward, NEW s \in Seq(Msgs), NEW D,
         ToSet(s) \subseteq DOMAIN post, D \subseteq DOMAIN post, LineUp(s, D)
  PROVE  LineUp(s, D)'
<1>1. \A i \in 1..Len(s) : s[i] \in DOMAIN post
  BY LenProperties DEF ToSet
<1>2. now \in Int /\ now' \in Int /\ now <= now'
  BY DEF TypeOK, Onward
<1>3. \A i \in 1..Len(s) : post'[s[i]] = post[s[i]] /\ post[s[i]].due \in Int
  BY <1>1, PostFacts, MessageQueueAssumption DEF Onward, Postings
<1>4. \A m \in D : post'[m] = post[m]
  BY DEF Onward
<1>5. \A i \in 1..Len(s) : post[s[i]].due <= now => post'[s[i]].due <= now'
  BY <1>2, <1>3
<1> QED
  BY <1>3, <1>4, <1>5 DEF LineUp, Comes, Precedes

\* What reader r has is part of what it had, in the order that it had it.
Lines(r) ==
  \E s \in Seq(Msgs), D \in SUBSET dmsgq[r] :
    msgq'[r] = s /\ dmsgq'[r] = D /\ LineUp(s, D) /\ ToSet(s) \subseteq In(r)

LEMMA LinesOrdered ==
  ASSUME TypeOK, Numbered, Ordered, Onward, NEW r \in Readers, Lines(r)
  PROVE  LineUp(msgq[r], dmsgq[r])' /\ \A m \in dmsgq'[r] : post'[m].delayed
<1>1. PICK s \in Seq(Msgs), D \in SUBSET dmsgq[r] :
             msgq'[r] = s /\ dmsgq'[r] = D /\ LineUp(s, D) /\ ToSet(s) \subseteq In(r)
  BY DEF Lines
<1>2. ToSet(s) \subseteq DOMAIN post /\ D \subseteq DOMAIN post
  BY <1>1 DEF Numbered, In
<1>3. LineUp(s, D)'
  BY <1>1, <1>2, LineUpOnward
<1>4. LineUp(msgq[r], dmsgq[r])'
  BY <1>1, <1>3 DEF LineUp
<1>5. \A m \in D : post'[m].delayed
  BY <1>1, <1>2 DEF Ordered, Onward
<1> QED
  BY <1>1, <1>4, <1>5

LEMMA SameLines ==
  ASSUME TypeOK, Ordered, NEW r \in Readers, msgq'[r] = msgq[r], dmsgq'[r] = dmsgq[r]
  PROVE  Lines(r)
<1>1. msgq[r] \in Seq(Msgs) /\ LineUp(msgq[r], dmsgq[r]) /\ ToSet(msgq[r]) \subseteq In(r)
  BY DEF TypeOK, Ordered, In
<1> QED
  BY <1>1 DEF Lines

LEMMA KeepLines ==
  ASSUME TypeOK, Ordered, NEW r \in Readers, NEW K, msgq'[r] = Keep(msgq[r], K),
         dmsgq'[r] \subseteq dmsgq[r]
  PROVE  Lines(r)
<1>1. PICK s : s = msgq[r]
  OBVIOUS
<1>2. s \in Seq(Msgs) /\ LineUp(s, dmsgq[r]) /\ ToSet(s) \subseteq In(r)
  BY <1>1 DEF TypeOK, Ordered, In
<1>3. PICK w : w = Keep(s, K)
  OBVIOUS
<1>4. w \in Seq(Msgs) /\ ToSet(w) = ToSet(s) \cap K
  BY <1>2, <1>3, ToSetKeep
<1>5. \A i, j \in 1..Len(w) : i < j =>
        \E p, q \in 1..Len(s) : p < q /\ s[p] = w[i] /\ s[q] = w[j]
  BY <1>2, <1>3, KeepOrder
<1>6. \A i \in 1..Len(w) : \E p \in 1..Len(s) : s[p] = w[i]
  BY <1>2, <1>3, KeepMembers
<1>7. PICK D : D = dmsgq'[r] /\ D \in SUBSET dmsgq[r]
  OBVIOUS
<1>8. LineUp(w, D)
  <2>1. ASSUME NEW i \in 1..Len(w), NEW j \in 1..Len(w), i < j,
               post[w[i]].delayed = post[w[j]].delayed
        PROVE  Comes(w[i], w[j])
    <3>1. PICK p, q \in 1..Len(s) : p < q /\ s[p] = w[i] /\ s[q] = w[j]
      BY <1>5, <2>1
    <3> QED
      BY <1>2, <2>1, <3>1 DEF LineUp
  <2>2. ASSUME NEW i \in 1..Len(w)
        PROVE  post[w[i]].due <= now /\ (post[w[i]].delayed => \A m \in D : Comes(w[i], m))
    <3>1. PICK p \in 1..Len(s) : s[p] = w[i]
      BY <1>6
    <3> QED
      BY <1>2, <1>7, <3>1 DEF LineUp
  <2> QED
    BY <2>1, <2>2 DEF LineUp
<1> QED
  BY <1>1, <1>2, <1>3, <1>4, <1>7, <1>8 DEF Lines

\* What Get looks at is in order: what it moves precedes what it leaves.
LEMMA QueuedLineUp ==
  ASSUME NoWrap, TypeOK, Numbered, Stored, Ordered, NEW t \in Readers
  PROVE  LineUp(Queued(t), dmsgq[t] \ Moved(t))
<1> DEFINE D == dmsgq[t]
           M == Moved(t)
           N == Cardinality(M)
           f == Ranked(M, InTime(M))
           s == msgq[t]
<1>1. /\ M \subseteq D /\ D \subseteq DOMAIN post /\ s \in Seq(Msgs) /\ f \in Seq(Msgs)
      /\ Lists(f, M, InTime(M)) /\ N \in Nat
  <2>1. M \subseteq D /\ Lists(f, M, InTime(M)) /\ f \in Seq(Msgs)
    BY MovedProps
  <2>2. D \subseteq DOMAIN post /\ s \in Seq(Msgs)
    BY DEF Numbered, In, TypeOK
  <2>3. N \in Nat
    BY <2>1, <2>2, InTimeOrder, FS_CardinalityType
  <2> QED
    BY <2>1, <2>2, <2>3
<1>2. \A m \in D : post[m].delayed /\ post[m].due \in Int
  BY <1>1, PostFacts, MessageQueueAssumption DEF Ordered, Postings
<1>3. cur[t] \in Int /\ now \in Int /\ cur[t] <= now
  BY DEF TypeOK, Stored
<1>4. ASSUME NEW m \in M
      PROVE  post[m].due <= now /\ \A n \in D \ M : Comes(m, n)
  <2>1. m \in D /\ \A n \in D : n = m \/ Sooner(n, m) => ~TimeIsLater(Time(cur[t]), Trigger(n))
    BY DEF Moved, Triggered
  <2>2. post[m].due <= now
    <3>1. ~(post[m].due > cur[t])
      BY <1>1, <2>1, SoonerPrecedes
    <3> QED
      BY <1>2, <1>3, <2>1, <3>1
  <2>3. ASSUME NEW n \in D \ M PROVE Comes(m, n)
    <3>1. PICK k \in D : (k = n \/ Sooner(k, n)) /\ TimeIsLater(Time(cur[t]), Trigger(k))
      BY DEF Moved, Triggered
    <3>2. IsOrder(D, InTime(D))
      BY <1>1, InTimeOrder
    <3>3. \A x, y \in D : <<x, y>> \in InTime(D) <=> Sooner(x, y)
      BY DEF InTime
    <3>4. ~Sooner(n, m)
      BY <2>1, <3>1, <3>2, <3>3 DEF IsOrder
    <3>5. n # m
      BY <2>3
    <3>6. Sooner(m, n)
      BY <2>1, <3>2, <3>3, <3>4, <3>5 DEF IsOrder
    <3> QED
      BY <1>1, <2>1, <3>6, SoonerPrecedes DEF Comes
  <2> QED
    BY <2>2, <2>3
<1>5. /\ f \in [1..N -> M] /\ Len(f) = N
      /\ \A i, j \in 1..N : i < j => Comes(f[i], f[j])
  <2>1. f \in [1..N -> M] /\ \A i, j \in 1..N : i < j => Sooner(f[i], f[j])
    BY <1>1 DEF Lists, InTime
  <2>2. Len(f) = N
    BY <1>1, <2>1
  <2>3. \A i \in 1..N : f[i] \in DOMAIN post
    BY <1>1, <2>1
  <2> QED
    BY <2>1, <2>2, <2>3, SoonerPrecedes DEF Comes
<1>6. LineUp(s, D)
  BY DEF Ordered
<1>7. \A i \in 1..Len(s) : s[i] \in DOMAIN post
  BY <1>1, LenProperties DEF Numbered, In, ToSet
<1>8. Queued(t) = s \o f
  BY DEF Queued
<1> HIDE DEF D, M, N, f, s
<1>9. /\ Len(s) \in Nat /\ Len(s \o f) = Len(s) + N
      /\ \A i \in 1..Len(s) : (s \o f)[i] = s[i]
      /\ \A i \in 1..(Len(s) + N) : i \notin 1..Len(s) =>
           i - Len(s) \in 1..N /\ (s \o f)[i] = f[i - Len(s)]
  <2>1. Len(s) \in Nat /\ N \in Nat
    BY <1>1, LenProperties
  <2>2. /\ Len(s \o f) = Len(s) + N
        /\ \A i \in 1..(Len(s) + N) :
             (s \o f)[i] = IF i <= Len(s) THEN s[i] ELSE f[i - Len(s)]
    BY <1>1, <1>5, ConcatProperties
  <2> QED
    BY <2>1, <2>2
<1>10. ASSUME NEW i \in 1..(Len(s) + N)
       PROVE  /\ post[(s \o f)[i]].due <= now
              /\ post[(s \o f)[i]].delayed => \A m \in D \ M : Comes((s \o f)[i], m)
  <2>1. CASE i \in 1..Len(s)
    BY <1>6, <1>9, <2>1 DEF LineUp
  <2>2. CASE i \notin 1..Len(s)
    <3>1. (s \o f)[i] \in M
      BY <1>5, <1>9, <2>2
    <3> QED
      BY <1>4, <3>1
  <2> QED
    BY <2>1, <2>2
<1>11. ASSUME NEW i \in 1..(Len(s) + N), NEW j \in 1..(Len(s) + N), i < j,
              post[(s \o f)[i]].delayed = post[(s \o f)[j]].delayed
       PROVE  Comes((s \o f)[i], (s \o f)[j])
  <2>1. CASE i \in 1..Len(s) /\ j \in 1..Len(s)
    BY <1>6, <1>9, <1>11, <2>1 DEF LineUp
  <2>2. CASE i \in 1..Len(s) /\ j \notin 1..Len(s)
    <3>1. (s \o f)[j] \in M /\ (s \o f)[i] = s[i]
      BY <1>5, <1>9, <2>2
    <3>2. post[(s \o f)[j]].delayed /\ (s \o f)[j] \in D
      BY <1>1, <1>2, <3>1
    <3>3. post[s[i]].delayed
      BY <1>11, <3>1, <3>2
    <3> QED
      BY <1>6, <2>2, <3>1, <3>2, <3>3 DEF LineUp
  <2>3. CASE i \notin 1..Len(s)
    <3>1. j \notin 1..Len(s)
      BY <1>9, <1>11, <2>3
    <3>2. i - Len(s) \in 1..N /\ j - Len(s) \in 1..N /\ i - Len(s) < j - Len(s)
      BY <1>1, <1>9, <1>11, <2>3, <3>1
    <3>3. (s \o f)[i] = f[i - Len(s)] /\ (s \o f)[j] = f[j - Len(s)]
      BY <1>9, <2>3, <3>1
    <3> QED
      BY <1>5, <3>2, <3>3
  <2> QED
    BY <2>1, <2>2, <2>3
<1>12. LineUp(s \o f, D \ M)
  BY <1>9, <1>10, <1>11 DEF LineUp
<1> QED
  BY <1>8, <1>12 DEF D, M

\* What a queue that gets a message has moved to msgq_ is due already.
LEMMA DeliversOrdered ==
  ASSUME Held, Stored, Ordered, NEW t \in Threads, NEW p, Delivers(t, p)
  PROVE  Stored' /\ Ordered'
<1>1. /\ TypeOK /\ Numbered /\ PostOK(t) /\ t \in Posters /\ p = posting[t]
      /\ Push(t, p) /\ UNCHANGED <<now, cur>>
  BY DEF Held, Locks, Delivers
<1>2. p \in Postings /\ p.q \in Readers /\ (p.delayed \/ p.due = 0)
  BY <1>1 DEF PostOK, Posters, Postings
<1>3. PICK m, q, s, D : m = Len(post') /\ q = p.q /\ s = msgq[q] /\ D = dmsgq[q]
  OBVIOUS
<1>4. /\ DOMAIN post' = DOMAIN post \cup {m} /\ post'[m].delayed = p.delayed
      /\ post'[m].due = p.due /\ (p.delayed => post'[m].at = now)
      /\ \A n \in DOMAIN post : post'[n] = post[n] /\ n < m
  BY <1>1, <1>2, <1>3, NewPost
<1>5. /\ \A r \in Readers \ {q} : msgq'[r] = msgq[r] /\ dmsgq'[r] = dmsgq[r]
      /\ IF p.delayed
         THEN msgq'[q] = s /\ dmsgq'[q] = D \cup {m}
         ELSE msgq'[q] = Append(s, m) /\ dmsgq'[q] = D
  BY <1>1, <1>2, <1>3, PushProps
<1>6. /\ \A n \in DOMAIN post : post[n].due \in Nat /\ post[n].delayed \in BOOLEAN
      /\ p.due \in Nat /\ p.delayed \in BOOLEAN /\ now \in Nat
  <2>1. \A x \in Postings : x.due \in Nat /\ x.delayed \in BOOLEAN
    BY MessageQueueAssumption DEF Postings
  <2>2. \A n \in DOMAIN post : post[n] \in Postings
    BY <1>1, PostFacts
  <2> QED
    BY <1>1, <1>2, <2>1, <2>2, MessageQueueAssumption DEF TypeOK
<1>7. Onward
  BY <1>1, <1>4, <1>6 DEF Onward
<1>8. Stored'
  BY <1>1, <1>2, <1>4 DEF Stored
<1>9. ASSUME NEW r \in Readers \ {q}
      PROVE  LineUp(msgq[r], dmsgq[r])' /\ \A n \in dmsgq'[r] : post'[n].delayed
  BY <1>1, <1>5, <1>7, SameLines, LinesOrdered
<1>10. /\ s \in Seq(Msgs) /\ D \subseteq DOMAIN post /\ ToSet(s) \subseteq DOMAIN post
       /\ LineUp(s, D) /\ \A n \in D : post[n].delayed
  BY <1>1, <1>2, <1>3 DEF TypeOK, Numbered, In, Ordered
<1>11. /\ Len(s) \in Nat /\ \A i \in 1..Len(s) : s[i] \in DOMAIN post /\ post'[s[i]] = post[s[i]]
       /\ \A n \in D : post'[n] = post[n]
  <2>1. Len(s) \in Nat /\ \A i \in 1..Len(s) : s[i] \in DOMAIN post
    BY <1>10, LenProperties DEF ToSet
  <2> QED
    BY <1>4, <1>10, <2>1
<1>12. LineUp(s, D)'
  BY <1>1, <1>7, <1>10, LineUpOnward
<1>13. ASSUME NEW i \in 1..Len(s), post[s[i]].delayed = p.delayed PROVE Comes(s[i], m)'
  <2>1. s[i] \in DOMAIN post /\ post'[s[i]] = post[s[i]] /\ s[i] < m
    BY <1>4, <1>11
  <2>2. CASE p.delayed
    <3>1. post[s[i]].due <= now
      BY <1>10 DEF LineUp
    <3> QED
      BY <1>4, <1>13, <2>1, <2>2, <3>1 DEF Comes
  <2>3. CASE ~p.delayed
    <3>1. post[s[i]].due = 0 /\ p.due = 0
      BY <1>2, <1>13, <2>1, <2>3 DEF Stored
    <3> QED
      BY <1>4, <2>1, <3>1 DEF Comes, Precedes
  <2> QED
    BY <1>6, <2>2, <2>3
<1>14. CASE p.delayed
  <2>1. msgq'[q] = s /\ dmsgq'[q] = D \cup {m}
    BY <1>5, <1>14
  <2>2. \A i \in 1..Len(s) : post'[s[i]].delayed => Comes(s[i], m)'
    BY <1>6, <1>11, <1>13, <1>14
  <2>3. LineUp(s, D \cup {m})'
    BY <1>12, <2>2 DEF LineUp
  <2>4. LineUp(msgq[q], dmsgq[q])'
    BY <2>1, <2>3 DEF LineUp
  <2>5. \A n \in dmsgq'[q] : post'[n].delayed
    BY <1>4, <1>10, <1>11, <1>14, <2>1
  <2> QED
    BY <1>8, <1>9, <2>4, <2>5 DEF Ordered
<1>15. CASE ~p.delayed
  <2>1. msgq'[q] = Append(s, m) /\ dmsgq'[q] = D
    BY <1>5, <1>15
  <2>2. PICK w : w = Append(s, m)
    OBVIOUS
  <2>3. /\ Len(w) = Len(s) + 1 /\ w[Len(s) + 1] = m
        /\ \A i \in 1..Len(s) : w[i] = s[i]
    <3>1. m \in Msgs
      BY <1>1, <1>2, <1>3, NewPost
    <3> QED
      BY <1>10, <1>11, <2>2, <3>1, AppendProperties
  <2>4. \A i \in 1..Len(w) : i \in 1..Len(s) \/ i = Len(s) + 1
    BY <1>11, <2>3
  <2>5. ASSUME NEW i \in 1..Len(w), NEW j \in 1..Len(w), i < j,
               post'[w[i]].delayed = post'[w[j]].delayed
        PROVE  Comes(w[i], w[j])'
    <3>1. i \in 1..Len(s)
      BY <1>11, <2>3, <2>5
    <3>2. CASE j \in 1..Len(s)
      BY <1>12, <2>3, <2>5, <3>1, <3>2 DEF LineUp
    <3>3. CASE j = Len(s) + 1
      BY <1>4, <1>11, <1>13, <2>3, <2>5, <3>1, <3>3
    <3> QED
      BY <2>4, <3>2, <3>3
  <2>6. ASSUME NEW i \in 1..Len(w)
        PROVE  post'[w[i]].due <= now' /\ (post'[w[i]].delayed => \A n \in D : Comes(w[i], n)')
    <3>1. CASE i \in 1..Len(s)
      BY <1>12, <2>3, <3>1 DEF LineUp
    <3>2. CASE i = Len(s) + 1
      BY <1>1, <1>2, <1>4, <1>6, <1>15, <2>3, <3>2
    <3> QED
      BY <2>4, <3>1, <3>2
  <2>7. LineUp(w, D)'
    BY <2>5, <2>6 DEF LineUp
  <2>8. LineUp(msgq[q], dmsgq[q])'
    BY <2>1, <2>2, <2>7 DEF LineUp
  <2>9. \A n \in dmsgq'[q] : post'[n].delayed
    BY <1>10, <1>11, <2>1
  <2> QED
    BY <1>8, <1>9, <2>8, <2>9 DEF Ordered
<1> QED
  BY <1>6, <1>14, <1>15

LEMMA ScanOrdered ==
  ASSUME NoWrap, Held, Stored, Ordered, NEW t \in Readers, Scan(t)
  PROVE  Stored' /\ Ordered'
<1>1. TypeOK /\ Numbered /\ Scans(t)
  BY ScanScans DEF Held
<1>2. /\ UNCHANGED <<now, post>>
      /\ dmsgq' = [dmsgq EXCEPT ![t] = @ \ Moved(t)]
  BY <1>1 DEF Scans
<1>3. Onward
  BY <1>1, <1>2, MessageQueueAssumption DEF Onward, TypeOK
<1>4. now \in Int /\ 0 <= now
  BY <1>1, MessageQueueAssumption DEF TypeOK
<1>5. CASE Queued(t) = <<>>
  <2>1. msgq' = msgq /\ cur' = cur
    BY <1>1, <1>5, NothingReadyHeld DEF Scans, NothingReady
  <2>2. ASSUME NEW r \in Readers PROVE Lines(r)
    <3>1. msgq[r] \in Seq(Msgs) /\ LineUp(msgq[r], dmsgq[r]) /\ ToSet(msgq[r]) \subseteq In(r)
      BY <1>1 DEF TypeOK, Ordered, In
    <3>2. dmsgq'[r] \subseteq dmsgq[r]
      BY <1>1, <1>2 DEF TypeOK
    <3>3. LineUp(msgq[r], dmsgq'[r])
      BY <3>1, <3>2 DEF LineUp
    <3> QED
      BY <2>1, <3>1, <3>2, <3>3 DEF Lines
  <2>3. Ordered'
    BY <1>1, <1>3, <2>2, LinesOrdered DEF Ordered
  <2> QED
    BY <1>2, <2>1, <2>3 DEF Stored
<1>6. CASE Queued(t) # <<>>
  <2>1. /\ msgq'[t] = Tail(Queued(t)) /\ dmsgq'[t] = dmsgq[t] \ Moved(t)
        /\ \A r \in Readers \ {t} : msgq'[r] = msgq[r] /\ dmsgq'[r] = dmsgq[r]
    BY <1>6, <1>1, TakeHeld
  <2>2. cur' = cur \/ cur' = [cur EXCEPT ![t] = 0]
    BY <1>1, <1>6 DEF Scans, Take
  <2>3. Stored'
    BY <1>1, <1>2, <1>4, <2>2 DEF Stored, TypeOK
  <2>4. PICK s, D : s = Queued(t) /\ D = dmsgq[t] \ Moved(t)
    OBVIOUS
  <2>5. /\ s \in Seq(Msgs) /\ s # <<>> /\ D \in SUBSET dmsgq[t] /\ LineUp(s, D)
        /\ ToSet(s) \subseteq In(t)
    <3>1. s \in Seq(Msgs) /\ ToSet(s) = ToSet(msgq[t]) \cup Moved(t) /\ Moved(t) \subseteq dmsgq[t]
      BY <1>1, <2>4, MovedProps
    <3>2. LineUp(s, D)
      BY <1>1, <2>4, QueuedLineUp
    <3> QED
      BY <1>6, <2>4, <3>1, <3>2 DEF In
  <2>6. /\ Tail(s) \in Seq(Msgs) /\ Len(s) \in Nat \ {0} /\ Len(Tail(s)) = Len(s) - 1
        /\ \A i \in 1..Len(s) - 1 : Tail(s)[i] = s[i + 1]
    BY <2>5, HeadTailProperties, LenProperties, EmptySeq
  <2>7. ToSet(Tail(s)) \subseteq In(t)
    BY <2>5, ToSetTail
  <2>8. PICK w : w = Tail(s)
    OBVIOUS
  <2>9. \A i \in 1..Len(w) : i + 1 \in 1..Len(s) /\ w[i] = s[i + 1]
    BY <2>6, <2>8
  <2>10. \A i, j \in 1..Len(w) : i < j => i + 1 < j + 1
    OBVIOUS
  <2>11. LineUp(w, D)
    <3>1. ASSUME NEW i \in 1..Len(w), NEW j \in 1..Len(w), i < j,
                 post[w[i]].delayed = post[w[j]].delayed
          PROVE  Comes(w[i], w[j])
      <4>1. i + 1 \in 1..Len(s) /\ j + 1 \in 1..Len(s) /\ i + 1 < j + 1
            /\ w[i] = s[i + 1] /\ w[j] = s[j + 1]
        BY <2>9, <2>10, <3>1
      <4> QED
        BY <2>5, <3>1, <4>1 DEF LineUp
    <3>2. ASSUME NEW i \in 1..Len(w)
          PROVE  post[w[i]].due <= now /\ (post[w[i]].delayed => \A m \in D : Comes(w[i], m))
      <4>1. i + 1 \in 1..Len(s) /\ w[i] = s[i + 1]
        BY <2>9
      <4> QED
        BY <2>5, <4>1 DEF LineUp
    <3> QED
      BY <3>1, <3>2 DEF LineUp
  <2>12. Lines(t)
    BY <2>1, <2>4, <2>5, <2>6, <2>7, <2>8, <2>11 DEF Lines
  <2>13. \A r \in Readers \ {t} : Lines(r)
    BY <1>1, <2>1, SameLines
  <2>14. Ordered'
    BY <1>1, <1>3, <2>12, <2>13, LinesOrdered DEF Ordered
  <2> QED
    BY <2>3, <2>14
<1> QED
  BY <1>5, <1>6

LEMMA OrderedStep ==
  ASSUME NoWrap, Held, Stored, Ordered, [Next]_vars PROVE Stored' /\ Ordered'
<1>1. /\ TypeOK /\ Numbered /\ Readers \subseteq Threads
      /\ now \in Int /\ 0 <= now /\ cur \in [Readers -> 0..Span]
  BY MessageQueueAssumption DEF Held, TypeOK
<1>2. ASSUME UNCHANGED post, now <= now', now' \in Int, \A r \in Readers : Lines(r),
             \A r \in Readers : cur'[r] = cur[r] \/ cur'[r] = now
      PROVE  Stored' /\ Ordered'
  <2>1. Onward
    BY <1>2 DEF Onward
  <2>2. Ordered'
    BY <1>1, <1>2, <2>1, LinesOrdered DEF Ordered
  <2>3. \A m \in DOMAIN post : post[m].delayed \/ post[m].due = 0
    BY DEF Stored
  <2>4. ASSUME NEW r \in Readers PROVE cur'[r] <= now'
    <3>1. cur[r] <= now /\ cur[r] \in Int
      BY <1>1, MessageQueueAssumption DEF Stored
    <3> QED
      BY <1>1, <1>2, <3>1
  <2> QED
    BY <1>2, <2>2, <2>3, <2>4 DEF Stored
<1>3. ASSUME UNCHANGED <<post, msgq, dmsgq>>, now <= now', now' \in Int,
             \A r \in Readers : cur'[r] = cur[r] \/ cur'[r] = now
      PROVE  Stored' /\ Ordered'
  BY <1>1, <1>2, <1>3, SameLines
<1>4. CASE UNCHANGED vars \/ Tick
  <2>1. UNCHANGED <<post, msgq, dmsgq, cur>> /\ (now' = now \/ now' = now + 1)
    BY <1>4 DEF vars, Tick, queues, clock
  <2>2. now <= now' /\ now' \in Int
    BY <1>1, <2>1
  <2> QED
    BY <1>3, <2>1, <2>2
<1>5. now <= now
  BY <1>1
<1>6. ASSUME NEW t \in Threads,
             \/ DestroyDisposed(t) \/ ClearDone(t) \/ \E h \in Handlers : Destroy(t, h)
             \/ \E q \in Readers : Quit(t, q)
             \/ t \in Readers /\ (RemoveQueue(t) \/ CheckStop(t))
      PROVE  Stored' /\ Ordered'
  <2>1. UNCHANGED <<now, post, msgq, dmsgq, cur>>
    BY <1>6 DEF DestroyDisposed, ClearDone, Destroy, Quit, RemoveQueue, CheckStop, queues, clock
  <2> QED
    BY <1>1, <1>3, <1>5, <2>1
<1>7. ASSUME NEW t \in Readers, HandlerReturn(t) \/ WaitReturns(t)
      PROVE  Stored' /\ Ordered'
  <2>1. UNCHANGED <<now, post, msgq, dmsgq>> /\ cur' = [cur EXCEPT ![t] = now]
    BY <1>7 DEF HandlerReturn, WaitReturns, queues
  <2>2. \A r \in Readers : cur'[r] = cur[r] \/ cur'[r] = now
    BY <1>1, <2>1
  <2> QED
    BY <1>1, <1>3, <1>5, <2>1, <2>2
<1>8. ASSUME NEW q \in Readers, NEW h, ClearQueue(q, h), UNCHANGED <<now, post, cur>>
      PROVE  Stored' /\ Ordered'
  <2>1. \A r \in Readers \ {q} : msgq'[r] = msgq[r] /\ dmsgq'[r] = dmsgq[r]
    BY <1>1, <1>8, ClearQueueProps
  <2>2. \E K : msgq'[q] = Keep(msgq[q], K) /\ dmsgq'[q] = dmsgq[q] \cap K
    BY <1>1, <1>8, ClearQueueProps
  <2>3. PICK K : msgq'[q] = Keep(msgq[q], K) /\ dmsgq'[q] \subseteq dmsgq[q]
    BY <2>2
  <2>4. Lines(q)
    BY <1>1, <2>3, KeepLines
  <2>5. \A r \in Readers \ {q} : Lines(r)
    BY <1>1, <2>1, SameLines
  <2> QED
    BY <1>1, <1>2, <1>5, <1>8, <2>4, <2>5
<1>9. ASSUME NEW t \in Threads, NEW q \in Readers, NEW h \in Handlers, Clear(t, q, h)
      PROVE  Stored' /\ Ordered'
  <2>1. ClearQueue(q, h) /\ UNCHANGED <<now, post, cur>>
    BY <1>9 DEF Clear, clock
  <2> QED
    BY <1>8, <2>1
<1>10. ASSUME NEW t \in Threads, ClearNext(t) PROVE Stored' /\ Ordered'
  <2>1. PICK q, h : q = Head(todo) /\ h = Cleared(t)
    OBVIOUS
  <2>2. ClearQueue(q, h) /\ todo # <<>> /\ UNCHANGED <<now, post, cur>>
    BY <1>10, <2>1 DEF ClearNext, clock
  <2>3. q \in Readers
    BY <1>1, <2>1, <2>2, ToSetTail, ToSetProps DEF TypeOK
  <2> QED
    BY <1>8, <2>2, <2>3
<1>11. ASSUME NEW t \in Readers, ClearAll(t) PROVE Stored' /\ Ordered'
  <2>1. UNCHANGED <<now, post, cur>>
    BY <1>11 DEF ClearAll, clock
  <2>2. CASE ClearQueue(t, None)
    BY <1>8, <2>1, <2>2
  <2>3. CASE \E m : msgq' = [msgq EXCEPT ![t] = Keep(@, Msgs \ {m})] /\ UNCHANGED dmsgq
    <3>1. PICK K : msgq' = [msgq EXCEPT ![t] = Keep(@, K)]
      BY <2>3
    <3>2. msgq'[t] = Keep(msgq[t], K) /\ \A r \in Readers \ {t} : msgq'[r] = msgq[r]
      BY <1>1, <3>1 DEF TypeOK
    <3>3. Lines(t)
      BY <1>1, <2>3, <3>2, KeepLines
    <3>4. \A r \in Readers \ {t} : Lines(r)
      BY <1>1, <2>3, <3>2, SameLines
    <3> QED
      BY <1>1, <1>2, <1>5, <2>1, <3>3, <3>4
  <2> QED
    BY <1>11, <2>2, <2>3 DEF ClearAll
<1>12. ASSUME NEW t \in Threads, (\E p \in Postings : Starts(t, p)) \/ Enqueue(t)
       PROVE  Stored' /\ Ordered'
  <2>1. CASE \E p \in Postings : Starts(t, p)
    <3>1. UNCHANGED <<now, post, msgq, dmsgq, cur>>
      BY <2>1 DEF Starts, StartPost, queues, clock
    <3> QED
      BY <1>1, <1>3, <1>5, <3>1
  <2>2. CASE Enqueue(t) /\ posting[t].q \in ToSet(managed)
    BY <2>2, EnqueueDelivers, DeliversOrdered
  <2>3. CASE Enqueue(t) /\ posting[t].q \notin ToSet(managed)
    <3>1. UNCHANGED <<now, post, msgq, dmsgq, cur>>
      BY <2>3 DEF Enqueue, clock
    <3> QED
      BY <1>1, <1>3, <1>5, <3>1
  <2> QED
    BY <1>12, <2>1, <2>2, <2>3
<1>13. ASSUME NEW t \in Threads, EnsureActive(t) PROVE Stored' /\ Ordered'
  BY <1>13, EnsureActiveDelivers, DeliversOrdered
<1>14. CASE Next
  BY <1>1, <1>4, <1>6, <1>7, <1>9, <1>10, <1>11, <1>12, <1>13, <1>14, NextSteps, ScanOrdered
<1> QED
  BY <1>4, <1>14

-------------------------------------------------------------------------------
(***************************************************************************)
(* A queue implements a mailbox.                                           *)
(***************************************************************************)
BoxDue     == [m \in Msgs |-> IF m \in DOMAIN post THEN post[m].due ELSE 0]
BoxSince   == [m \in Msgs |-> IF m \in DOMAIN post THEN post[m].at ELSE 0]
BoxDelayed == {m \in DOMAIN post : post[m].delayed}
BoxPending == [q \in Readers |-> In(q)]

InOrder == Held /\ Stored /\ Ordered

LEMMA BoxStutters ==
  ASSUME UNCHANGED <<now, taken, post>>, \A q \in Readers : In(q)' = In(q)
  PROVE  UNCHANGED Promise!vars
<1>1. BoxDue' = BoxDue /\ BoxSince' = BoxSince /\ BoxDelayed' = BoxDelayed
  BY DEF BoxDue, BoxSince, BoxDelayed
<1>2. BoxPending' = BoxPending
  BY DEF BoxPending
<1> QED
  BY <1>1, <1>2 DEF Promise!vars, BoxDue, BoxSince, BoxDelayed, BoxPending

LEMMA BoxDrops ==
  ASSUME TypeOK, UNCHANGED <<now, taken, post>>, NEW q \in Readers,
         In(q)' \subseteq In(q), \A r \in Readers \ {q} : In(r)' = In(r)
  PROVE  Promise!Next
<1>1. BoxDue' = BoxDue /\ BoxSince' = BoxSince /\ BoxDelayed' = BoxDelayed
  BY DEF BoxDue, BoxSince, BoxDelayed
<1>2. PICK S : S = In(q) \ In(q)'
  OBVIOUS
<1>3. In(q) \subseteq Msgs
  <2>1. msgq[q] \in Seq(Msgs) /\ dmsgq[q] \subseteq Msgs
    BY DEF TypeOK
  <2>2. ToSet(msgq[q]) \subseteq Msgs
    BY <2>1, ToSetProps
  <2> QED
    BY <2>1, <2>2 DEF In
<1>4. S \in SUBSET Msgs /\ In(q)' = In(q) \ S
  BY <1>2, <1>3
<1>5. BoxPending' = [BoxPending EXCEPT ![q] = @ \ S]
  BY <1>4 DEF BoxPending
<1>6. Promise!Drop(q, S)
  BY <1>1, <1>5 DEF Promise!Drop, BoxDue, BoxSince, BoxDelayed, BoxPending
<1> QED
  BY <1>4, <1>6 DEF Promise!Next

LEMMA BoxAccepts ==
  ASSUME Held, Held', NEW t \in Threads, NEW p, Delivers(t, p)
  PROVE  Promise!Next
<1>1. /\ TypeOK /\ Numbered /\ PostOK(t) /\ t \in Posters /\ p = posting[t]
      /\ Push(t, p) /\ UNCHANGED <<now, taken>> /\ TypeOK' /\ Numbered'
  BY DEF Held, Locks, Delivers
<1>2. p \in Postings
  BY <1>1 DEF PostOK, Posters
<1>3. PICK m, q : m = Len(post') /\ q = p.q
  OBVIOUS
<1>4. /\ m \in Msgs /\ DOMAIN post' = DOMAIN post \cup {m} /\ m \notin DOMAIN post
      /\ post'[m].delayed = p.delayed /\ (p.delayed => post'[m].at = now)
      /\ \A n \in DOMAIN post : post'[n] = post[n] /\ n < m
  BY <1>1, <1>2, <1>3, NewPost
<1>5. q \in Readers /\ In(q)' = In(q) \cup {m} /\ \A r \in Readers \ {q} : In(r)' = In(r)
  BY <1>1, <1>2, <1>3, PushProps
<1>6. /\ BoxDue' \in [Msgs -> Nat] /\ \A n \in Msgs \ {m} : BoxDue'[n] = BoxDue[n]
      /\ BoxSince' \in [Msgs -> Nat] /\ \A n \in Msgs \ {m} : BoxSince'[n] = BoxSince[n]
  <2>1. ASSUME NEW n \in DOMAIN post' PROVE post'[n].due \in Nat /\ post'[n].at \in Nat
    <3>1. post' \in Seq(Postings)
      BY <1>1 DEF TypeOK, Postings
    <3>2. post'[n] \in Postings
      BY <3>1
    <3> QED
      BY <3>2, MessageQueueAssumption DEF Postings
  <2>2. BoxDue' \in [Msgs -> Nat] /\ BoxSince' \in [Msgs -> Nat]
    BY <2>1 DEF BoxDue, BoxSince
  <2>3. \A n \in Msgs \ {m} : BoxDue'[n] = BoxDue[n] /\ BoxSince'[n] = BoxSince[n]
    BY <1>4 DEF BoxDue, BoxSince
  <2> QED
    BY <2>2, <2>3
<1>7. BoxDelayed' \in {BoxDelayed, BoxDelayed \cup {m}, BoxDelayed \ {m}}
  <2>1. CASE post'[m].delayed
    <3>1. BoxDelayed' = BoxDelayed \cup {m}
      BY <1>4, <2>1 DEF BoxDelayed
    <3> QED
      BY <3>1
  <2>2. CASE ~post'[m].delayed
    <3>1. BoxDelayed' = BoxDelayed \ {m}
      BY <1>4, <2>2 DEF BoxDelayed
    <3> QED
      BY <3>1
  <2> QED
    BY <2>1, <2>2
<1>8. m \in BoxDelayed' => BoxSince'[m] = now
  BY <1>4 DEF BoxDelayed, BoxSince
<1>9. BoxPending' = [BoxPending EXCEPT ![q] = @ \cup {m}]
  BY <1>5 DEF BoxPending
<1>10. /\ \A n \in taken : n < m
       /\ \A r \in Readers : \A n \in BoxPending[r] : n < m
  <2>1. taken \subseteq DOMAIN post /\ \A r \in Readers : BoxPending[r] \subseteq DOMAIN post
    BY <1>1 DEF TypeOK, Numbered, BoxPending
  <2> QED
    BY <1>4, <2>1
<1>11. Promise!Accept(q, m)
  BY <1>1, <1>6, <1>7, <1>8, <1>9, <1>10
  DEF Promise!Accept, BoxDue, BoxSince, BoxDelayed, BoxPending
<1> QED
  BY <1>4, <1>5, <1>11 DEF Promise!Next

\* Get returns the first of what is due, and has it no second time.
LEMMA BoxDelivers ==
  ASSUME NoWrap, InOrder, NEW t \in Readers, Scan(t), Queued(t) # <<>>
  PROVE  Promise!Next
<1>1. /\ Held /\ TypeOK /\ Numbered /\ Locks /\ Stored /\ Ordered /\ Scans(t) /\ t \in Threads
  BY ScanScans, MessageQueueAssumption DEF InOrder, Held
<1>2. PICK s, D, m : s = Queued(t) /\ D = dmsgq[t] \ Moved(t) /\ m = Head(s)
  OBVIOUS
<1>3. /\ m \in In(t) /\ msgq'[t] = Tail(s) /\ dmsgq'[t] = D /\ taken' = taken \cup {m}
      /\ \A r \in Readers \ {t} : msgq'[r] = msgq[r] /\ dmsgq'[r] = dmsgq[r]
  BY <1>1, <1>2, TakeHeld
<1>4. UNCHANGED <<now, post>>
  BY <1>1 DEF Scans
<1>5. /\ s \in Seq(Msgs) /\ s # <<>> /\ LineUp(s, D)
      /\ In(t) = ToSet(s) \cup D
  <2>1. s \in Seq(Msgs) /\ ToSet(s) = ToSet(msgq[t]) \cup Moved(t) /\ Moved(t) \subseteq dmsgq[t]
    BY <1>1, <1>2, MovedProps
  <2>2. LineUp(s, D)
    BY <1>1, <1>2, QueuedLineUp
  <2> QED
    BY <1>2, <2>1, <2>2 DEF In
<1>6. In(t) \subseteq DOMAIN post /\ In(t) \subseteq Msgs
  BY <1>1, PostFacts DEF Numbered
<1>7. /\ Len(s) \in Nat \ {0} /\ s[1] = m /\ DOMAIN s = 1..Len(s)
      /\ \A n \in ToSet(s) : \E i \in 1..Len(s) : s[i] = n
  BY <1>2, <1>5, EmptySeq, LenProperties DEF ToSet
<1>8. /\ Tail(s) \in Seq(Msgs) /\ Len(Tail(s)) = Len(s) - 1 /\ DOMAIN Tail(s) = 1..(Len(s) - 1)
      /\ \A i \in 1..(Len(s) - 1) : Tail(s)[i] = s[i + 1]
      /\ ToSet(s) = {m} \cup ToSet(Tail(s))
  <2>1. Tail(s) \in Seq(Msgs) /\ Len(Tail(s)) = Len(s) - 1
        /\ \A i \in 1..(Len(s) - 1) : Tail(s)[i] = s[i + 1]
    BY <1>5, HeadTailProperties
  <2>2. ToSet(s) = {m} \cup ToSet(Tail(s))
    BY <1>2, <1>5, ToSetTail
  <2> QED
    BY <2>1, <2>2, LenProperties
<1>9. ~Comes(m, m)
  <2>1. post[m].due \in Int /\ m \in Int
    BY <1>1, <1>3, <1>6, PostFacts, MessageQueueAssumption DEF Postings, Msgs
  <2> QED
    BY <2>1 DEF Comes, Precedes
<1>10. ASSUME NEW n \in In(t), n \notin D \/ n # m, n = m => \E i \in 2..Len(s) : s[i] = n,
              post[m].delayed = post[n].delayed
       PROVE  Comes(m, n)
  <2>1. CASE n \in ToSet(s)
    <3>1. PICK i \in 2..Len(s) : s[i] = n
      <4>1. PICK i \in 1..Len(s) : s[i] = n
        BY <1>7, <2>1
      <4>2. n # m => i \in 2..Len(s)
        BY <1>7, <4>1
      <4> QED
        BY <1>10, <4>1, <4>2
    <3>2. i \in 1..Len(s) /\ 1 \in 1..Len(s) /\ 1 < i
      BY <1>7
    <3> QED
      BY <1>5, <1>7, <1>10, <3>1, <3>2 DEF LineUp
  <2>2. CASE n \in D
    <3>1. post[n].delayed /\ 1 \in 1..Len(s)
      BY <1>1, <1>2, <1>7, <2>2 DEF Ordered
    <3>2. post[m].delayed
      BY <1>10, <3>1
    <3> QED
      BY <1>5, <1>7, <2>2, <3>1, <3>2 DEF LineUp
  <2> QED
    BY <1>5, <2>1, <2>2
<1>11. m \notin D
  <2> SUFFICES ASSUME m \in D PROVE FALSE
    OBVIOUS
  <2>1. post[m].delayed /\ 1 \in 1..Len(s)
    BY <1>1, <1>2, <1>7 DEF Ordered
  <2> QED
    BY <1>5, <1>7, <1>9, <2>1 DEF LineUp
<1>12. m \notin ToSet(Tail(s))
  <2> SUFFICES ASSUME m \in ToSet(Tail(s)) PROVE FALSE
    OBVIOUS
  <2>1. PICK i \in 1..(Len(s) - 1) : Tail(s)[i] = m
    BY <1>8 DEF ToSet
  <2>2. i + 1 \in 1..Len(s) /\ 1 \in 1..Len(s) /\ 1 < i + 1 /\ s[i + 1] = m
    BY <1>7, <1>8, <2>1
  <2> QED
    BY <1>5, <1>7, <1>9, <2>2 DEF LineUp
<1>13. In(t)' = In(t) \ {m} /\ \A r \in Readers \ {t} : In(r)' = In(r)
  BY <1>3, <1>5, <1>8, <1>11, <1>12 DEF In
<1>14. BoxDue[m] <= now
  <2>1. post[m].due <= now
    BY <1>5, <1>7 DEF LineUp
  <2> QED
    BY <1>3, <1>6, <2>1 DEF BoxDue
<1>15. ASSUME NEW n \in In(t) \ {m}, m \in BoxDelayed <=> n \in BoxDelayed
       PROVE  \/ BoxDue[m] < BoxDue[n] \/ (BoxDue[m] = BoxDue[n] /\ m < n)
              \/ m \in BoxDelayed /\ m < n /\ BoxSince[n] >= BoxDue[m]
  <2>1. post[m].delayed = post[n].delayed
    <3>1. post[m].delayed \in BOOLEAN /\ post[n].delayed \in BOOLEAN
      BY <1>1, <1>3, <1>6, PostFacts DEF Postings
    <3>2. (m \in BoxDelayed <=> post[m].delayed) /\ (n \in BoxDelayed <=> post[n].delayed)
      BY <1>3, <1>6 DEF BoxDelayed
    <3> QED
      BY <1>15, <3>1, <3>2
  <2>2. Comes(m, n)
    BY <1>10, <2>1
  <2>3. BoxDue[m] = post[m].due /\ BoxDue[n] = post[n].due /\ BoxSince[n] = post[n].at
    BY <1>3, <1>6 DEF BoxDue, BoxSince
  <2>4. post[m].due \in Int /\ post[n].at \in Int
    BY <1>1, <1>3, <1>6, PostFacts, MessageQueueAssumption DEF Postings
  <2>5. post[m].delayed => m \in BoxDelayed
    BY <1>3, <1>6 DEF BoxDelayed
  <2> QED
    BY <2>2, <2>3, <2>4, <2>5 DEF Comes, Precedes
<1>16. BoxDue' = BoxDue /\ BoxSince' = BoxSince /\ BoxDelayed' = BoxDelayed
  BY <1>4 DEF BoxDue, BoxSince, BoxDelayed
<1>17. BoxPending' = [BoxPending EXCEPT ![t] = @ \ {m}] /\ BoxPending[t] = In(t)
  BY <1>13 DEF BoxPending
<1>18. Promise!Deliver(t, m)
  <2>1. \A n \in BoxPending[t] \ {m} :
          (m \in BoxDelayed <=> n \in BoxDelayed) => Promise!Before(m, n) \/ Promise!TooLate(m, n)
    BY <1>15, <1>17 DEF Promise!Before, Promise!TooLate, BoxDue, BoxSince, BoxDelayed
  <2> QED
    BY <1>3, <1>4, <1>14, <1>16, <1>17, <2>1
    DEF Promise!Deliver, BoxDue, BoxSince, BoxDelayed, BoxPending
<1> QED
  BY <1>3, <1>6, <1>18 DEF Promise!Next

LEMMA BoxStep ==
  ASSUME NoWrap, InOrder, [Next]_vars PROVE [Promise!Next]_Promise!vars
<1>1. /\ Held /\ TypeOK /\ Numbered /\ Stored /\ Ordered /\ Readers \subseteq Threads
  BY MessageQueueAssumption DEF InOrder, Held
<1>2. Held'
  BY <1>1, HeldStep
<1>3. ASSUME UNCHANGED <<now, msgq, dmsgq, post, taken>> PROVE UNCHANGED Promise!vars
  BY <1>3, BoxStutters DEF In
<1>4. CASE UNCHANGED vars
  BY <1>3, <1>4 DEF vars
<1>5. CASE Tick
  <2>1. now' = now + 1 /\ UNCHANGED <<msgq, dmsgq, post, taken>>
    BY <1>5 DEF Tick, queues
  <2>2. /\ BoxDue' = BoxDue /\ BoxSince' = BoxSince /\ BoxDelayed' = BoxDelayed
        /\ BoxPending' = BoxPending
    BY <2>1 DEF BoxDue, BoxSince, BoxDelayed, BoxPending, In
  <2>3. Promise!Tick
    BY <2>1, <2>2 DEF Promise!Tick, BoxDue, BoxSince, BoxDelayed, BoxPending
  <2> QED
    BY <2>3 DEF Promise!Next
<1>6. ASSUME NEW t \in Threads,
             \/ DestroyDisposed(t) \/ ClearDone(t) \/ \E h \in Handlers : Destroy(t, h)
             \/ \E q \in Readers : Quit(t, q)
             \/ \E p \in Postings : Starts(t, p)
             \/ Enqueue(t) /\ posting[t].q \notin ToSet(managed)
             \/ t \in Readers /\ (HandlerReturn(t) \/ CheckStop(t) \/ WaitReturns(t) \/ RemoveQueue(t))
      PROVE  UNCHANGED Promise!vars
  <2>1. UNCHANGED <<now, msgq, dmsgq, post, taken>>
    BY <1>6 DEF DestroyDisposed, ClearDone, Destroy, Quit, Starts, StartPost, Enqueue,
                HandlerReturn, CheckStop, WaitReturns, RemoveQueue, queues
  <2> QED
    BY <1>3, <2>1
<1>7. ASSUME NEW t \in Readers, Scan(t) PROVE [Promise!Next]_Promise!vars
  <2>1. CASE Queued(t) # <<>>
    BY <1>7, <2>1, BoxDelivers
  <2>2. CASE Queued(t) = <<>>
    <3>1. Scans(t) /\ UNCHANGED <<now, post>>
      BY <1>7, ScanScans DEF Scans
    <3>2. /\ msgq' = msgq /\ taken' = taken /\ msgq[t] = <<>>
          /\ dmsgq' = [dmsgq EXCEPT ![t] = @ \ Moved(t)]
      BY <1>1, <2>2, <3>1, NothingReadyHeld DEF Scans
    <3>3. Moved(t) = {}
      <4>1. Queued(t) \in Seq(Msgs) /\ ToSet(Queued(t)) = ToSet(msgq[t]) \cup Moved(t)
        BY <1>1, MovedProps
      <4>2. ToSet(Queued(t)) = {}
        BY <2>2, <4>1, ToSetProps
      <4> QED
        BY <4>1, <4>2
    <3>4. dmsgq' = dmsgq
      BY <1>1, <3>2, <3>3 DEF TypeOK
    <3> QED
      BY <1>3, <3>1, <3>2, <3>4
  <2> QED
    BY <2>1, <2>2
<1>8. ASSUME NEW q \in Readers, NEW h, ClearQueue(q, h), UNCHANGED <<now, post>>
      PROVE  Promise!Next
  <2>1. /\ taken' = taken /\ In(q)' \subseteq In(q)
        /\ \A r \in Readers \ {q} : msgq'[r] = msgq[r] /\ dmsgq'[r] = dmsgq[r]
    BY <1>1, <1>8, ClearQueueProps
  <2>2. \A r \in Readers \ {q} : In(r)' = In(r)
    BY <2>1 DEF In
  <2> QED
    BY <1>1, <1>8, <2>1, <2>2, BoxDrops
<1>9. ASSUME NEW t \in Threads, NEW q \in Readers, NEW h \in Handlers, Clear(t, q, h)
      PROVE  Promise!Next
  <2>1. ClearQueue(q, h) /\ UNCHANGED <<now, post>>
    BY <1>9 DEF Clear
  <2> QED
    BY <1>8, <2>1
<1>10. ASSUME NEW t \in Threads, ClearNext(t) PROVE Promise!Next
  <2>1. PICK q, h : q = Head(todo) /\ h = Cleared(t)
    OBVIOUS
  <2>2. ClearQueue(q, h) /\ todo # <<>> /\ UNCHANGED <<now, post>>
    BY <1>10, <2>1 DEF ClearNext
  <2>3. q \in Readers
    BY <1>1, <2>1, <2>2, ToSetTail, ToSetProps DEF TypeOK
  <2> QED
    BY <1>8, <2>2, <2>3
<1>11. ASSUME NEW t \in Readers, ClearAll(t) PROVE Promise!Next
  <2>1. UNCHANGED <<now, post>>
    BY <1>11 DEF ClearAll
  <2>2. CASE ClearQueue(t, None)
    BY <1>8, <2>1, <2>2
  <2>3. CASE \E m : /\ msgq' = [msgq EXCEPT ![t] = Keep(@, Msgs \ {m})]
                    /\ UNCHANGED <<dmsgq, taken>>
    <3>1. PICK K : msgq' = [msgq EXCEPT ![t] = Keep(@, K)]
      BY <2>3
    <3>2. /\ msgq'[t] = Keep(msgq[t], K) /\ \A r \in Readers \ {t} : msgq'[r] = msgq[r]
          /\ msgq[t] \in Seq(Msgs)
      BY <1>1, <3>1 DEF TypeOK
    <3>3. ToSet(msgq'[t]) \subseteq ToSet(msgq[t])
      BY <3>2, ToSetKeep
    <3>4. In(t)' \subseteq In(t) /\ \A r \in Readers \ {t} : In(r)' = In(r)
      BY <2>3, <3>2, <3>3 DEF In
    <3> QED
      BY <1>1, <2>1, <2>3, <3>4, BoxDrops
  <2> QED
    BY <1>11, <2>2, <2>3 DEF ClearAll
<1>12. ASSUME NEW t \in Threads,
              EnsureActive(t) \/ (Enqueue(t) /\ posting[t].q \in ToSet(managed))
       PROVE  Promise!Next
  BY <1>1, <1>2, <1>12, EnsureActiveDelivers, EnqueueDelivers, BoxAccepts
<1>13. CASE Next
  BY <1>1, <1>5, <1>6, <1>7, <1>9, <1>10, <1>11, <1>12, <1>13, NextSteps
<1> QED
  BY <1>4, <1>13

LEMMA BoxInit == Init => Promise!Init
<1> SUFFICES ASSUME Init PROVE Promise!Init
  OBVIOUS
<1>1. Held
  BY InitHeld
<1>2. /\ now = 0 /\ taken = {} /\ post = <<>> /\ msgq = [q \in Readers |-> <<>>]
      /\ dmsgq = [q \in Readers |-> {}]
  BY DEF Init
<1>3. DOMAIN post = {}
  BY <1>2
<1>4. \A q \in Readers : In(q) = {}
  BY <1>1, <1>3 DEF Held, Numbered
<1>5. /\ BoxDue \in [Msgs -> Nat] /\ BoxSince \in [Msgs -> Nat]
      /\ BoxDelayed \in SUBSET Msgs /\ BoxPending = [q \in Readers |-> {}]
  BY <1>3, <1>4 DEF BoxDue, BoxSince, BoxDelayed, BoxPending
<1> QED
  BY <1>2, <1>5 DEF Promise!Init, BoxDue, BoxSince, BoxDelayed, BoxPending

\* What was posted is delivered at most once, not before its time, posted messages in
\* their order and delayed ones by their time, except behind one that was already due
\* when it got into the queue, whatever is cleared, disposed of or stopped meanwhile.
THEOREM ImplementsMailbox ==
  ASSUME NoWrap PROVE Spec => DeliversInOrder
<1>1. Init => Held /\ Stored /\ Ordered
  <2>1. Init => Held
    BY InitHeld
  <2>2. ASSUME Init PROVE Stored /\ Ordered
    <3>1. /\ now = 0 /\ post = <<>> /\ msgq = [q \in Readers |-> <<>>]
          /\ dmsgq = [q \in Readers |-> {}] /\ cur = [q \in Readers |-> 0]
      BY <2>2 DEF Init
    <3>2. \A q \in Readers : Len(msgq[q]) = 0 /\ dmsgq[q] = {} /\ cur[q] <= now
      BY <3>1
    <3> QED
      BY <3>1, <3>2 DEF Stored, Ordered, LineUp
  <2> QED
    BY <2>1, <2>2
<1>2. InOrder /\ [Next]_vars => InOrder'
  BY HeldStep, OrderedStep DEF InOrder
<1>3. InOrder /\ [Next]_vars => [Promise!Next]_Promise!vars
  BY BoxStep
<1>4. Init => InOrder
  BY <1>1 DEF InOrder
<1> QED
  BY <1>2, <1>3, <1>4, BoxInit, PTL DEF Spec, DeliversInOrder, Promise!Spec
=============================================================================
