------------------------- MODULE P2PTransportProofs -------------------------
(***************************************************************************)
(* The proofs of the peer-to-peer transport: first of P2PChannel, one      *)
(* channel with its connections, then of Transport, which has the channels *)
(* of a session.  The two are separate specifications, and nothing that is *)
(* proved of one is used for the other.                                    *)
(***************************************************************************)
EXTENDS Transport, P2PChannel, ListsProofs

-----------------------------------------------------------------------------
(***************************************************************************)
(* A P2PTransportChannel that is not writable is always about to allocate  *)
(* ports, whatever the ports, candidates and bounds are.  A channel loses  *)
(* writability only in SortConnections, and whether it then allocates is   *)
(* decided from was_writable_ and was_timed_out_: the invariant ties these *)
(* two flags to the channel's state.                                       *)
(*                                                                         *)
(* Once no sort is queued, what the last one computed still holds: the     *)
(* second invariant relates the dirty flag to the queue, says what a sort  *)
(* leaves, and that whatever else touches a connection queues another.     *)
(***************************************************************************)

Flags ==
  /\ connecting \in BOOLEAN /\ waiting \in BOOLEAN /\ allocTimer \in BOOLEAN
  /\ writable \in BOOLEAN /\ wasTimedOut \in BOOLEAN
  /\ wasWritable = writable
  /\ writable => ~wasTimedOut

AllocInv == Flags /\ AllocationComing

\* What the invariant is about.
flags == <<connecting, waiting, allocTimer, writable, wasWritable, wasTimedOut>>

-------------------------------------------------------------------------------
\* ChannelUpdated, with which every SortConnections ends, preserves the invariant.
LEMMA UpdatePreserves ==
  ASSUME NEW cs, NEW r, NEW w, NEW getting,
         AllocInv, connecting' = connecting, ChannelUpdated(cs, r, w, getting)
  PROVE  AllocInv'
<1> DEFINE anyWritable == \E c \in cs : w[c] = "writable"
           allTimedOut == \A c \in cs : w[c] = "timeout"
           allocate == ~anyWritable /\ (IF allTimedOut THEN ~wasTimedOut ELSE wasWritable)
<1>1. /\ writable' = anyWritable
      /\ wasWritable' = anyWritable
      /\ wasTimedOut' = (~anyWritable /\ allTimedOut)
      /\ waiting' = (waiting \/ allocate)
      /\ allocTimer' = (allocTimer /\ ~allocate /\ (anyWritable => writable))
  BY Zenon DEF ChannelUpdated
<1>2. anyWritable \in BOOLEAN /\ allTimedOut \in BOOLEAN
  OBVIOUS
<1> HIDE DEF anyWritable, allTimedOut
<1>3. Flags'
  BY <1>1, <1>2 DEF AllocInv, Flags
<1>4. AllocationComing'
  BY <1>1, <1>2 DEF AllocInv, Flags, AllocationComing
<1> QED
  BY <1>3, <1>4 DEF AllocInv

\* So does pruning, and with it every handler that sorts the connections.
LEMMA PrunePreserves ==
  ASSUME NEW cs, NEW r, NEW w, NEW b, NEW primier, NEW getting, NEW msgs,
         AllocInv, connecting' = connecting,
         PruneOthers(cs, r, w, b, primier, getting, msgs)
  PROVE  AllocInv'
<1>1. PICK w2 : ChannelUpdated(cs, r, w2, getting)
  BY DEF PruneOthers
<1> QED
  BY <1>1, UpdatePreserves

LEMMA SortPreserves ==
  ASSUME NEW cs, NEW r, NEW fresh, NEW dirty, NEW getting, NEW msgs,
         AllocInv, connecting' = connecting,
         SortConnections(cs, r, fresh, dirty, getting, msgs)
  PROVE  AllocInv'
<1>1. PICK r1, w1, b, primier, m1 :
        PruneOthers(cs, r1, w1, b, primier, getting, msgs \o m1)
  BY DEF SortConnections
<1> QED
  BY <1>1, PrunePreserves

\* A handler that leaves the flags alone preserves the invariant.
LEMMA Unchanged ==
  ASSUME AllocInv, UNCHANGED flags
  PROVE  AllocInv'
BY DEF AllocInv, Flags, AllocationComing, flags

-------------------------------------------------------------------------------
\* The invariant holds of the channel as it is created.
LEMMA InitAlloc == Init => AllocInv
BY DEF Init, AllocInv, Flags, AllocationComing

\* Every handler preserves the invariant.
LEMMA NextAlloc == AllocInv /\ [Next]_vars => AllocInv'
<1> SUFFICES ASSUME AllocInv, [Next]_vars PROVE AllocInv'
  OBVIOUS
<1>1. CASE Connect
  BY <1>1 DEF Connect, selection, AllocInv, Flags, AllocationComing
<1>2. CASE AllocateAgain
  BY <1>2 DEF AllocateAgain, selection, AllocInv, Flags, AllocationComing
<1>3. CASE SignalingReady
  BY <1>3 DEF SignalingReady, selection, AllocInv, Flags, AllocationComing
<1>4. ASSUME NEW p \in Ports, PortReady(p) PROVE AllocInv'
  BY <1>4, SortPreserves DEF PortReady
<1>5. ASSUME NEW p \in Ports, PortTimesOut(p) PROVE AllocInv'
  BY <1>5, Unchanged DEF PortTimesOut, selection, flags
<1>6. ASSUME NEW a \in Candidates, RemoteCandidate(a) PROVE AllocInv'
  BY <1>6, SortPreserves DEF RemoteCandidate
<1>7. ASSUME NEW a \in Candidates, RememberOnly(a) PROVE AllocInv'
  BY <1>7, Unchanged DEF RememberOnly, selection, flags
<1>8. ASSUME NEW p \in Ports, NEW a \in Candidates, UnknownAddress(p, a)
      PROVE  AllocInv'
  BY <1>8, SortPreserves DEF UnknownAddress
<1>9. ASSUME NEW c \in Conns,
             BindingRequest(c) \/ Data(c) \/ Response(c) \/ ErrorResponse(c)
      PROVE  AllocInv'
  <2>1. PICK r, w : NewState(c, r, w)
    BY <1>9, Zenon DEF BindingRequest, Data, Response, ErrorResponse
  <2> QED
    BY <2>1, Unchanged DEF NewState, allocation, flags
<1>10. ASSUME NEW c \in Conns, RequestExpires(c) PROVE AllocInv'
  BY <1>10, Unchanged DEF RequestExpires, allocation, selection, flags
<1>11. CASE OnPing
  BY <1>11, Unchanged DEF OnPing, allocation, flags
<1>12. CASE OnSort
  BY <1>12, SortPreserves DEF OnSort
<1>13. CASE OnDelete
  BY <1>13, Unchanged DEF OnDelete, flags
<1>14. CASE SendPacket
  BY <1>14, Unchanged DEF SendPacket, allocation, selection, flags
<1>15. CASE UNCHANGED vars
  BY <1>15, Unchanged DEF vars, flags
<1> QED
  BY <1>1, <1>2, <1>3, <1>4, <1>5, <1>6, <1>7, <1>8, <1>9, <1>10, <1>11, <1>12,
     <1>13, <1>14, <1>15 DEF Next

\* A connecting channel that is not writable waits for the signaling channel or has
\* its MSG_ALLOCATE pending: HandleNotWritable and HandleAllTimedOut never miss the
\* loss of the last writable connection.
THEOREM AllocationAlwaysComing == Spec => []AllocationComing
<1>1. AllocInv => AllocationComing
  BY DEF AllocInv
<1> QED
  BY InitAlloc, NextAlloc, <1>1, PTL DEF Spec
-------------------------------------------------------------------------------
(***************************************************************************)
(* Nothing stale.  The sort flag and the queue are related first: a dirty  *)
(* channel has its MSG_SORT queued.  Then SortConnections leaves the best  *)
(* connection writable if any is, unless it posts another sort, and every  *)
(* other handler that changes a write state posts one.                     *)
(***************************************************************************)
States == {"writable", "connect", "timeout"}

Sorting(q) == \E i \in 1..Len(q) : q[i] = Sort

\* What the sorted connections and the channel are when no sort is to come.
Settled ==
  ~Sorting(queue) =>
    /\ ~sortDirty
    /\ writable = (best # None /\ wstate[best] = "writable")
    /\ writable = \E c \in conns : wstate[c] = "writable"

\* The types of what SortConnections changes.
Sorted ==
  /\ IsFiniteSet(conns) /\ conns \subseteq Conns
  /\ readables \subseteq conns /\ pruned \subseteq conns /\ asked \subseteq conns
  /\ wstate \in [Conns -> States]
  /\ best \in conns \cup {None}
  /\ queue \in Seq(conns \cup {Sort})
  /\ readable \in BOOLEAN /\ writable \in BOOLEAN /\ sortDirty \in BOOLEAN
  /\ wasWritable \in BOOLEAN /\ wasTimedOut \in BOOLEAN /\ waiting \in BOOLEAN
  /\ allocTimer \in BOOLEAN /\ gathering \in BOOLEAN

\* The types of everything else.
Placed ==
  /\ connecting \in BOOLEAN /\ started \in BOOLEAN
  /\ port \in [Ports -> {"none", "live", "old", "gone"}]
  /\ IsFiniteSet(ports) /\ ports \subseteq {p \in Ports : port[p] \in {"live", "old"}}
  /\ IsFiniteSet(remote) /\ remote \subseteq Candidates
  /\ \A c \in conns : port[c[1]] \in {"live", "old"} /\ c[2] \in remote
  /\ unanswered \in [Conns -> 0..Failures]
  /\ rtt \in [Conns -> Rtts \cup {DefaultRtt}]
  /\ order \in Seq(conns) /\ \A i, j \in 1..Len(order) : order[i] = order[j] => i = j
  /\ sessions \in 0..MaxSessions
  /\ polled \subseteq {1, 2} \X Ports
  /\ sending \in Conns \cup {None, Checked, Null}

SortInv == Sorted /\ Placed /\ Settled

-------------------------------------------------------------------------------
LEMMA SetToSeqsType ==
  ASSUME NEW S, NEW s, IsFiniteSet(S), s \in SetToSeqs(S) PROVE s \in Seq(S)
BY FS_CardinalityType DEF SetToSeqs

LEMMA SortingConcat ==
  ASSUME NEW E, NEW s \in Seq(E), NEW t \in Seq(E)
  PROVE  Sorting(s \o t) <=> Sorting(s) \/ Sorting(t)
<1>1. /\ Len(s) \in Nat /\ Len(t) \in Nat /\ Len(s \o t) = Len(s) + Len(t)
      /\ \A i \in 1..Len(s) + Len(t) :
           (s \o t)[i] = IF i <= Len(s) THEN s[i] ELSE t[i - Len(s)]
  BY ConcatProperties, LenProperties
<1>2. ASSUME Sorting(s) PROVE Sorting(s \o t)
  <2>1. PICK i \in 1..Len(s) : s[i] = Sort
    BY <1>2 DEF Sorting
  <2>2. i \in 1..Len(s \o t) /\ (s \o t)[i] = Sort
    BY <1>1, <2>1
  <2> QED
    BY <2>2 DEF Sorting
<1>3. ASSUME Sorting(t) PROVE Sorting(s \o t)
  <2>1. PICK i \in 1..Len(t) : t[i] = Sort
    BY <1>3 DEF Sorting
  <2>2. Len(s) + i \in 1..Len(s \o t) /\ (s \o t)[Len(s) + i] = Sort
    BY <1>1, <2>1
  <2> QED
    BY <2>2 DEF Sorting
<1>4. ASSUME Sorting(s \o t) PROVE Sorting(s) \/ Sorting(t)
  <2>1. PICK i \in 1..Len(s) + Len(t) : (s \o t)[i] = Sort
    BY <1>1, <1>4 DEF Sorting
  <2>2. CASE i <= Len(s)
    BY <1>1, <2>1, <2>2 DEF Sorting
  <2>3. CASE ~(i <= Len(s))
    <3>1. i - Len(s) \in 1..Len(t) /\ t[i - Len(s)] = Sort
      BY <1>1, <2>1, <2>3
    <3> QED
      BY <3>1 DEF Sorting
  <2> QED
    BY <2>2, <2>3
<1> QED
  BY <1>2, <1>3, <1>4

\* A change is followed by a sort, which is posted unless one is to come already.
LEMMA PostsType ==
  ASSUME NEW cs, IsFiniteSet(cs), NEW changed \in SUBSET cs, NEW dirty \in BOOLEAN,
         NEW r, NEW w, NEW msgs \in Posts(changed, dirty, r, w)
  PROVE  /\ msgs \in Seq(cs \cup {Sort})
         /\ changed # {} /\ ~dirty => Sorting(msgs)
<1> DEFINE D == {c \in changed : c \notin r /\ w[c] = "timeout"}
           first == IF changed # {} /\ ~dirty THEN <<Sort>> ELSE <<>>
<1>1. PICK dead \in SetToSeqs(D) : msgs = first \o dead
  BY DEF Posts
<1>2. IsFiniteSet(D)
  BY FS_Subset
<1>3. dead \in Seq(D)
  BY <1>1, <1>2, SetToSeqsType
<1>4. dead \in Seq(cs \cup {Sort}) /\ first \in Seq(cs \cup {Sort})
  <2>1. D \subseteq cs \cup {Sort}
    OBVIOUS
  <2>2. <<Sort>> \in Seq(cs \cup {Sort}) /\ <<>> \in Seq(cs \cup {Sort})
    OBVIOUS
  <2> QED
    BY <1>3, <2>1, <2>2, SeqMonotonic
<1>5. changed # {} /\ ~dirty => Sorting(first)
  BY DEF Sorting
<1> HIDE DEF first
<1> DEFINE E == cs \cup {Sort}
<1> HIDE DEF E
<1>6. first \o dead \in Seq(E)
  <2>1. first \in Seq(E) /\ dead \in Seq(E)
    BY <1>4 DEF E
  <2> QED
    BY <2>1, ConcatProperties
<1>7. Sorting(first) => Sorting(first \o dead)
  BY <1>4, SortingConcat
<1> QED
  BY <1>1, <1>5, <1>6, <1>7 DEF E

\* UpdateState changes the write states of connections, to other write states.
LEMMA WritingsType ==
  ASSUME Sorted, NEW w \in Writings
  PROVE  w \in [Conns -> States]
<1>1. Failing \subseteq Conns
  BY DEF Failing, Sorted
<1> QED
  BY <1>1 DEF Writings, States, Sorted

\* The best connection is writable if any is: the top-most one is, and the best is
\* only kept when it is no worse.
LEMMA BestWritable ==
  ASSUME NEW cs \in SUBSET Conns, NEW w \in [Conns -> States],
         best \in cs \cup {None}, NEW top \in Tops(w, cs),
         NEW b, b = IF ShouldSwitch(w, best, top) THEN top ELSE best
  PROVE  /\ b \in cs \cup {None}
         /\ (\E c \in cs : w[c] = "writable") <=> (b # None /\ w[b] = "writable")
<1>1. \A x \in States : Level(x) \in 0..2 /\ (Level(x) = 2 <=> x = "writable")
  BY DEF States, Level
<1>2. None \notin cs
  BY P2PChannelAssumption
<1>3. top \in cs \cup {None} /\ (top = None => cs = {})
  BY <1>2 DEF Tops, FirstOf
<1>4. ASSUME NEW c \in cs, w[c] = "writable" PROVE top \in cs /\ w[top] = "writable"
  <2>1. top \in FirstOf(w, cs) /\ top \in cs
    BY <1>3, <1>4 DEF Tops, FirstOf
  <2>2. ~Before(w, c, top)
    BY <2>1 DEF FirstOf
  <2>3. ~(Level(w[c]) > Level(w[top]))
    BY <2>2 DEF Before, Preferred
  <2>4. w[c] \in States /\ w[top] \in States
    BY <2>1
  <2> QED
    BY <1>1, <1>4, <2>1, <2>3, <2>4
<1>5. ASSUME NEW c \in cs, w[c] = "writable" PROVE b # None /\ w[b] = "writable"
  <2>1. top \in cs /\ w[top] = "writable"
    BY <1>4, <1>5
  <2>2. CASE ShouldSwitch(w, best, top)
    BY <1>2, <2>1, <2>2
  <2>3. CASE ~ShouldSwitch(w, best, top) /\ best # top
    <3>1. b = best /\ best \in cs /\ ~Preferred(w, top, best)
      BY <1>2, <2>1, <2>3 DEF ShouldSwitch
    <3>2. ~(Level(w[top]) > Level(w[best]))
      BY <3>1 DEF Preferred
    <3>3. w[top] \in States /\ w[best] \in States
      BY <2>1, <3>1
    <3> QED
      BY <1>1, <1>2, <2>1, <3>1, <3>2, <3>3
  <2> QED
    BY <1>2, <2>1, <2>2, <2>3
<1> QED
  BY <1>3, <1>5

\* What SortConnections leaves.
LEMMA SortSorts ==
  ASSUME Sorted, NEW cs \in SUBSET Conns, IsFiniteSet(cs), conns \subseteq cs,
         NEW r \in SUBSET cs, NEW fresh, NEW dirty \in BOOLEAN,
         NEW getting \in BOOLEAN, NEW msgs \in Seq(cs \cup {Sort}),
         SortConnections(cs, r, fresh, dirty, getting, msgs)
  PROVE  Sorted' /\ Settled' /\ conns' = cs
<1>1. PICK r1 \in Readings(r, fresh), w1 \in Writings :
        \E top \in Tops(w1, cs), m1 \in Posts(Changed(r, r1, w1), dirty, r1, w1) :
          LET b == IF ShouldSwitch(w1, best, top) THEN top ELSE best IN
          \E primier \in Primiers(cs, w1, b) :
            PruneOthers(cs, r1, w1, b, primier, getting, msgs \o m1)
  BY DEF SortConnections
<1>2. PICK top \in Tops(w1, cs), m1 \in Posts(Changed(r, r1, w1), dirty, r1, w1) :
        LET b == IF ShouldSwitch(w1, best, top) THEN top ELSE best IN
        \E primier \in Primiers(cs, w1, b) :
          PruneOthers(cs, r1, w1, b, primier, getting, msgs \o m1)
  BY <1>1
<1>3. PICK b : b = IF ShouldSwitch(w1, best, top) THEN top ELSE best
  OBVIOUS
<1>4. PICK primier \in Primiers(cs, w1, b) :
        PruneOthers(cs, r1, w1, b, primier, getting, msgs \o m1)
  BY <1>2, <1>3
<1>5. w1 \in [Conns -> States]
  BY WritingsType
<1>6. r1 \in SUBSET cs
  BY DEF Readings
<1>7. m1 \in Seq(cs \cup {Sort})
  <2>1. Changed(r, r1, w1) \in SUBSET cs
    BY DEF Changed
  <2> QED
    BY <2>1, PostsType
<1>8. /\ b \in cs \cup {None}
      /\ (\E c \in cs : w1[c] = "writable") <=> (b # None /\ w1[b] = "writable")
  BY <1>3, <1>5, BestWritable DEF Sorted
<1> DEFINE doomed == {c \in cs \ pruned :
                        LET first == primier[Network[c[1]]] IN
                          c # first /\ w1[first] = "writable" /\ Pref[first] >= Pref[c]}
           w2     == [c \in Conns |-> IF c \in doomed THEN "timeout" ELSE w1[c]]
           fallen == {c \in doomed : w1[c] # "timeout"}
<1>9. PICK m2 \in Posts(fallen, FALSE, r1, w2) : queue' = (msgs \o m1) \o m2
  BY <1>4 DEF PruneOthers
<1>10. /\ conns' = cs /\ readables' = r1 /\ wstate' = w2
       /\ pruned' = pruned \cup doomed /\ asked' = asked \ doomed
       /\ best' = b /\ sortDirty' = (fallen # {})
       /\ ChannelUpdated(cs, r1, w2, getting)
  BY <1>4 DEF PruneOthers
<1>11. doomed \in SUBSET cs /\ fallen \in SUBSET cs /\ w2 \in [Conns -> States]
  BY <1>5 DEF States
<1>12. fallen = {} => w2 = w1
  <2>1. ASSUME fallen = {}, NEW c \in Conns PROVE w2[c] = w1[c]
    BY <2>1
  <2> QED
    BY <1>5, <2>1
<1> HIDE DEF doomed, w2, fallen
<1>13. m2 \in Seq(cs \cup {Sort}) /\ (fallen # {} => Sorting(m2))
  BY <1>11, PostsType
<1>14. /\ msgs \o m1 \in Seq(cs \cup {Sort})
       /\ queue' \in Seq(cs \cup {Sort})
       /\ Sorting(m2) => Sorting((msgs \o m1) \o m2)
  <2> DEFINE E == cs \cup {Sort}
  <2>1. msgs \in Seq(E) /\ m1 \in Seq(E) /\ m2 \in Seq(E)
    BY <1>7, <1>13
  <2> HIDE DEF E
  <2>2. msgs \o m1 \in Seq(E) /\ (msgs \o m1) \o m2 \in Seq(E)
    BY <2>1, ConcatProperties
  <2>3. Sorting(m2) => Sorting((msgs \o m1) \o m2)
    BY <2>1, <2>2, SortingConcat
  <2> QED
    BY <1>9, <2>2, <2>3 DEF E
<1>15. /\ readable' \in BOOLEAN /\ writable' \in BOOLEAN
       /\ wasWritable' \in BOOLEAN /\ wasTimedOut' \in BOOLEAN /\ waiting' \in BOOLEAN
       /\ allocTimer' \in BOOLEAN /\ gathering' \in BOOLEAN
       /\ writable' = \E c \in cs : w2[c] = "writable"
  BY <1>10 DEF ChannelUpdated, Sorted
<1>16. Sorted'
  <2>1. pruned' \subseteq cs /\ asked' \subseteq cs
    BY <1>10, <1>11 DEF Sorted
  <2> QED
    BY <1>6, <1>8, <1>10, <1>11, <1>14, <1>15, <2>1 DEF Sorted
<1>17. Settled'
  <2> SUFFICES ASSUME ~Sorting(queue')
               PROVE  /\ ~sortDirty'
                      /\ writable' = (best' # None /\ wstate'[best'] = "writable")
                      /\ writable' = \E c \in conns' : wstate'[c] = "writable"
    BY DEF Settled, Sorting
  <2>1. fallen = {}
    BY <1>9, <1>13, <1>14
  <2> QED
    BY <1>8, <1>10, <1>12, <1>15, <2>1
<1> QED
  BY <1>10, <1>16, <1>17

-------------------------------------------------------------------------------
LEMMA ReadType ==
  ASSUME NEW p \in Ports, Read(p), polled \subseteq {1, 2} \X Ports
  PROVE  polled' \subseteq {1, 2} \X Ports
<1>1. CASE polled' = IF queue' = <<>> THEN {} ELSE {<<1, p>>}
  BY <1>1
<1>2. CASE \E round \in {1, 2} : polled' = polled \cup {<<round, p>>}
  BY <1>2
<1> QED
  BY <1>1, <1>2 DEF Read

\* Posting to a settled channel: what has changed is sorted.
LEMMA PostedSettled ==
  ASSUME SortInv, UNCHANGED <<conns, best, writable>>,
         NEW r, NEW w \in [Conns -> States], wstate' = w,
         NEW changed \in SUBSET conns,
         \A c \in conns \ changed : w[c] = wstate[c],
         NEW msgs \in Posts(changed, sortDirty, r, w), queue' = queue \o msgs,
         sortDirty' = (sortDirty \/ changed # {})
  PROVE  queue' \in Seq(conns \cup {Sort}) /\ Settled'
<1>1. queue \in Seq(conns \cup {Sort}) /\ IsFiniteSet(conns) /\ sortDirty \in BOOLEAN
      /\ best \in conns \cup {None}
  BY DEF SortInv, Sorted
<1>2. msgs \in Seq(conns \cup {Sort}) /\ (changed # {} /\ ~sortDirty => Sorting(msgs))
  BY <1>1, PostsType
<1>3. queue' \in Seq(conns \cup {Sort}) /\ (Sorting(queue') <=> Sorting(queue) \/ Sorting(msgs))
  <2> DEFINE E == conns \cup {Sort}
  <2>1. queue \in Seq(E) /\ msgs \in Seq(E)
    BY <1>1, <1>2
  <2> HIDE DEF E
  <2>2. queue \o msgs \in Seq(E) /\ (Sorting(queue \o msgs) <=> Sorting(queue) \/ Sorting(msgs))
    BY <2>1, ConcatProperties, SortingConcat
  <2> QED
    BY <2>2 DEF E
<1>4. Settled'
  <2> SUFFICES ASSUME ~Sorting(queue')
               PROVE  /\ ~sortDirty'
                      /\ writable' = (best' # None /\ wstate'[best'] = "writable")
                      /\ writable' = \E c \in conns' : wstate'[c] = "writable"
    BY DEF Settled, Sorting
  <2>1. ~sortDirty /\ changed = {}
    BY <1>2, <1>3 DEF SortInv, Settled
  <2>2. \A c \in conns : w[c] = wstate[c]
    BY <2>1
  <2>3. /\ writable = (best # None /\ wstate[best] = "writable")
        /\ writable = \E c \in conns : wstate[c] = "writable"
    BY <1>3 DEF SortInv, Settled
  <2> QED
    BY <1>1, <2>1, <2>2, <2>3
<1> QED
  BY <1>3, <1>4

\* A packet on a connection.
LEMMA NewStateSorts ==
  ASSUME SortInv, NEW c \in conns, NEW r \in SUBSET conns, NEW w \in [Conns -> States],
         \A d \in Conns \ {c} : w[d] = wstate[d], NewState(c, r, w),
         asked' \subseteq conns, unanswered' \in [Conns -> 0..Failures],
         rtt' \in [Conns -> Rtts \cup {DefaultRtt}]
  PROVE  SortInv'
<1> DEFINE changed == {d \in {c} : (d \in r) # (d \in readables) \/ w[d] # wstate[d]}
<1>1. PICK msgs \in Posts(changed, sortDirty, r, w) : queue' = queue \o msgs
  BY DEF NewState
<1>2. /\ readables' = r /\ wstate' = w /\ sortDirty' = (sortDirty \/ changed # {})
      /\ Read(c[1])
      /\ UNCHANGED <<allocation, conns, pruned, order, best, readable, writable,
                     wasWritable, wasTimedOut, sending>>
  BY DEF NewState
<1>3. changed \in SUBSET conns /\ \A d \in conns \ changed : w[d] = wstate[d]
  BY DEF SortInv, Sorted
<1>4. c[1] \in Ports
  BY DEF SortInv, Sorted, Conns
<1> HIDE DEF changed
<1>5. queue' \in Seq(conns \cup {Sort}) /\ Settled'
  BY <1>1, <1>2, <1>3, PostedSettled
<1>6. Sorted'
  BY <1>2, <1>5 DEF SortInv, Sorted, allocation
<1>7. polled' \subseteq {1, 2} \X Ports
  BY <1>2, <1>4, ReadType DEF SortInv, Placed
<1>8. Placed'
  BY <1>2, <1>7 DEF SortInv, Placed, allocation
<1> QED
  BY <1>5, <1>6, <1>8 DEF SortInv

LEMMA RestartedType ==
  ASSUME SortInv, NEW c \in Conns
  PROVE  /\ Restarted(c) \in [Conns -> States]
         /\ \A d \in Conns \ {c} : Restarted(c)[d] = wstate[d]
BY DEF Restarted, SortInv, Sorted, States

LEMMA PacketSorts ==
  ASSUME SortInv, P2PChannelAssumption, NEW c \in Conns,
         BindingRequest(c) \/ Data(c) \/ Response(c) \/ ErrorResponse(c)
  PROVE  SortInv'
<1>1. /\ readables \subseteq conns /\ asked \subseteq conns
      /\ wstate \in [Conns -> States]
      /\ unanswered \in [Conns -> 0..Failures] /\ rtt \in [Conns -> Rtts \cup {DefaultRtt}]
  BY DEF SortInv, Sorted, Placed
<1>2. CASE BindingRequest(c)
  <2>1. /\ c \in conns /\ NewState(c, readables \cup {c}, Restarted(c))
        /\ UNCHANGED <<asked, unanswered, rtt>>
    BY <1>2 DEF BindingRequest
  <2> QED
    BY <1>1, <2>1, NewStateSorts, RestartedType
<1>3. CASE Data(c)
  <2>1. /\ c \in conns /\ NewState(c, readables, Restarted(c))
        /\ UNCHANGED <<asked, unanswered, rtt>>
    BY <1>1, <1>3 DEF Data
  <2> QED
    BY <1>1, <2>1, NewStateSorts, RestartedType
<1>4. CASE Response(c)
  <2> DEFINE w == [wstate EXCEPT ![c] = "writable"]
  <2>1. /\ c \in conns /\ NewState(c, readables, w) /\ asked' = asked \ {c}
        /\ unanswered' = [unanswered EXCEPT ![c] = 0]
        /\ \E t \in Rtts : rtt' = [rtt EXCEPT ![c] = t]
    BY <1>1, <1>4 DEF Response
  <2>2. w \in [Conns -> States] /\ \A d \in Conns \ {c} : w[d] = wstate[d]
    BY <1>1 DEF States
  <2>3. 0 \in 0..Failures
    BY DEF P2PChannelAssumption
  <2>4. /\ unanswered' \in [Conns -> 0..Failures]
        /\ rtt' \in [Conns -> Rtts \cup {DefaultRtt}] /\ asked' \subseteq conns
    BY <1>1, <2>1, <2>3
  <2> HIDE DEF w
  <2> QED
    BY <1>1, <2>1, <2>2, <2>4, NewStateSorts
<1>5. CASE ErrorResponse(c)
  <2>1. PICK recoverable \in BOOLEAN :
          NewState(c, readables, IF recoverable THEN wstate
                                 ELSE [wstate EXCEPT ![c] = "timeout"])
    BY <1>5 DEF ErrorResponse
  <2> DEFINE w == IF recoverable THEN wstate ELSE [wstate EXCEPT ![c] = "timeout"]
  <2>2. c \in conns /\ asked' = asked \ {c} /\ UNCHANGED <<unanswered, rtt>>
    BY <1>1, <1>5 DEF ErrorResponse
  <2>3. w \in [Conns -> States] /\ \A d \in Conns \ {c} : w[d] = wstate[d]
    BY <1>1 DEF States
  <2>4. NewState(c, readables, w)
    BY <2>1
  <2> HIDE DEF w
  <2> QED
    BY <1>1, <2>2, <2>3, <2>4, NewStateSorts
<1> QED
  BY <1>2, <1>3, <1>4, <1>5

\* A handler that sorts, and leaves the pings alone.
LEMMA HandlerSorts ==
  ASSUME SortInv, NEW cs \in SUBSET Conns, IsFiniteSet(cs), conns \subseteq cs,
         NEW r \in SUBSET cs, NEW fresh, NEW dirty \in BOOLEAN,
         NEW getting \in BOOLEAN, NEW msgs \in Seq(cs \cup {Sort}),
         SortConnections(cs, r, fresh, dirty, getting, msgs),
         UNCHANGED <<connecting, sessions, unanswered, rtt, order, sending>>,
         started' \in BOOLEAN,
         port' \in [Ports -> {"none", "live", "old", "gone"}],
         IsFiniteSet(ports'), ports' \subseteq {p \in Ports : port'[p] \in {"live", "old"}},
         IsFiniteSet(remote'), remote' \subseteq Candidates,
         \A c \in cs : port'[c[1]] \in {"live", "old"} /\ c[2] \in remote',
         polled' \subseteq {1, 2} \X Ports
  PROVE  SortInv'
<1>1. Sorted' /\ Settled' /\ conns' = cs
  BY SortSorts DEF SortInv
<1>2. order \in Seq(conns) /\ \A i, j \in 1..Len(order) : order[i] = order[j] => i = j
  BY DEF SortInv, Placed
<1>3. order' \in Seq(cs) /\ \A i, j \in 1..Len(order') : order'[i] = order'[j] => i = j
  BY <1>2, SeqMonotonic
<1>4. Placed'
  BY <1>1, <1>3 DEF SortInv, Placed
<1> QED
  BY <1>1, <1>4 DEF SortInv

\* What the handlers start from.
LEMMA SortInvFacts ==
  ASSUME SortInv
  PROVE  /\ IsFiniteSet(conns) /\ conns \in SUBSET Conns
         /\ readables \subseteq conns
         /\ queue \in Seq(conns \cup {Sort})
         /\ sortDirty \in BOOLEAN /\ gathering \in BOOLEAN /\ started \in BOOLEAN
         /\ port \in [Ports -> {"none", "live", "old", "gone"}]
         /\ IsFiniteSet(ports) /\ \A p \in ports : p \in Ports /\ port[p] \in {"live", "old"}
         /\ IsFiniteSet(remote) /\ remote \subseteq Candidates
         /\ \A c \in conns : port[c[1]] \in {"live", "old"} /\ c[2] \in remote
         /\ polled \subseteq {1, 2} \X Ports
         /\ sessions \in 0..MaxSessions
BY DEF SortInv, Sorted, Placed

\* New connections, between some ports and some addresses.
LEMMA ConnectionCreated ==
  ASSUME SortInv, NEW P \in SUBSET Ports, NEW A \in SUBSET Candidates,
         IsFiniteSet(P), IsFiniteSet(A)
  PROVE  /\ conns \cup (P \X A) \in SUBSET Conns /\ IsFiniteSet(conns \cup (P \X A))
         /\ queue \in Seq(conns \cup (P \X A) \cup {Sort})
         /\ \A c \in P \X A : c[1] \in P /\ c[2] \in A
<1>1. IsFiniteSet(P \X A)
  BY FS_Product
<1>2. IsFiniteSet(conns \cup (P \X A))
  BY <1>1, FS_Union, SortInvFacts
<1>3. queue \in Seq(conns \cup (P \X A) \cup {Sort})
  <2>1. conns \cup {Sort} \subseteq conns \cup (P \X A) \cup {Sort}
    OBVIOUS
  <2> QED
    BY <2>1, SeqMonotonic, SortInvFacts
<1> QED
  BY <1>2, <1>3, SortInvFacts DEF Conns

LEMMA PortReadySorts ==
  ASSUME SortInv, NEW p \in Ports, PortReady(p)
  PROVE  SortInv'
<1> DEFINE new == {p} \X remote
           cs  == conns \cup new
<1>1. /\ port[p] = "none" /\ polled' = {}
      /\ port' = [port EXCEPT ![p] = "live"] /\ ports' = ports \cup {p}
      /\ SortConnections(cs, readables, {}, sortDirty, gathering, queue)
      /\ UNCHANGED <<connecting, remote, started, sessions, unanswered, rtt, order,
                     sending>>
  BY DEF PortReady, Handle
<1>2. IsFiniteSet({p}) /\ {p} \in SUBSET Ports
  BY FS_Singleton
<1>3. /\ cs \in SUBSET Conns /\ IsFiniteSet(cs) /\ queue \in Seq(cs \cup {Sort})
      /\ \A c \in new : c[1] \in {p} /\ c[2] \in remote
  BY <1>2, ConnectionCreated, SortInvFacts
<1>4. port' \in [Ports -> {"none", "live", "old", "gone"}] /\ port'[p] = "live"
      /\ \A q \in Ports \ {p} : port'[q] = port[q]
  BY <1>1, SortInvFacts
<1>5. IsFiniteSet(ports')
  BY <1>1, FS_AddElement, SortInvFacts
<1>6. ports' \subseteq {q \in Ports : port'[q] \in {"live", "old"}}
  BY <1>1, <1>4, SortInvFacts
<1>7. ASSUME NEW c \in cs PROVE port'[c[1]] \in {"live", "old"} /\ c[2] \in remote
  <2>1. CASE c \in conns
    <3>1. c[1] \in Ports
      BY <2>1, SortInvFacts DEF Conns
    <3> QED
      BY <1>4, <2>1, <3>1, SortInvFacts
  <2>2. CASE c \in new
    BY <1>3, <1>4, <2>2
  <2> QED
    BY <2>1, <2>2
<1>8. conns \subseteq cs /\ readables \in SUBSET cs
  BY SortInvFacts
<1>9. /\ UNCHANGED <<connecting, sessions, unanswered, rtt, order, sending>>
      /\ started' \in BOOLEAN /\ sortDirty \in BOOLEAN /\ gathering \in BOOLEAN
      /\ IsFiniteSet(remote') /\ remote' \subseteq Candidates
      /\ polled' \subseteq {1, 2} \X Ports
  BY <1>1, SortInvFacts
<1>10. \A c \in cs : port'[c[1]] \in {"live", "old"} /\ c[2] \in remote'
  BY <1>1, <1>7
<1>11. SortConnections(cs, readables, {}, sortDirty, gathering, queue)
  BY <1>1
<1> HIDE DEF new, cs
<1> QED
  BY <1>3, <1>4, <1>5, <1>6, <1>8, <1>9, <1>10, <1>11, HandlerSorts

LEMMA RememberType ==
  ASSUME SortInv, NEW a \in Candidates, Remember(a)
  PROVE  /\ started' \in BOOLEAN /\ Getting(a) \in BOOLEAN
         /\ IsFiniteSet(remote') /\ remote' \subseteq Candidates /\ remote' = remote \cup {a}
<1>1. IsFiniteSet(remote \cup {a})
  BY FS_AddElement, SortInvFacts
<1> QED
  BY <1>1, SortInvFacts DEF Remember, Getting

LEMMA RemoteCandidateSorts ==
  ASSUME SortInv, NEW a \in Candidates, RemoteCandidate(a)
  PROVE  SortInv'
<1> DEFINE new == ports \X {a}
           cs  == conns \cup new
<1>1. /\ polled' = {} /\ Remember(a)
      /\ SortConnections(cs, readables, {}, sortDirty, Getting(a), queue)
      /\ UNCHANGED <<connecting, port, ports, sessions, unanswered, rtt, order, sending>>
  BY DEF RemoteCandidate, Handle
<1>2. /\ IsFiniteSet({a}) /\ {a} \in SUBSET Candidates
      /\ IsFiniteSet(ports) /\ ports \in SUBSET Ports
  BY FS_Singleton, SortInvFacts
<1>3. /\ cs \in SUBSET Conns /\ IsFiniteSet(cs) /\ queue \in Seq(cs \cup {Sort})
      /\ \A c \in new : c[1] \in ports /\ c[2] \in {a}
  BY <1>2, ConnectionCreated
<1>4. \A c \in cs : port'[c[1]] \in {"live", "old"} /\ c[2] \in remote \cup {a}
  BY <1>1, <1>3, SortInvFacts
<1>5. conns \subseteq cs /\ readables \in SUBSET cs
  BY SortInvFacts
<1>6. /\ started' \in BOOLEAN /\ Getting(a) \in BOOLEAN
      /\ IsFiniteSet(remote') /\ remote' \subseteq Candidates /\ remote' = remote \cup {a}
  BY <1>1, RememberType
<1>7. /\ port' \in [Ports -> {"none", "live", "old", "gone"}]
      /\ IsFiniteSet(ports')
      /\ ports' \subseteq {p \in Ports : port'[p] \in {"live", "old"}}
      /\ polled' \subseteq {1, 2} \X Ports /\ sortDirty \in BOOLEAN
  BY <1>1, SortInvFacts
<1>8. \A c \in cs : port'[c[1]] \in {"live", "old"} /\ c[2] \in remote'
  BY <1>4, <1>6
<1>9. UNCHANGED <<connecting, sessions, unanswered, rtt, order, sending>>
  BY <1>1
<1> HIDE DEF new, cs
<1> QED
  BY <1>1, <1>3, <1>5, <1>6, <1>7, <1>8, <1>9, HandlerSorts

LEMMA UnknownAddressSorts ==
  ASSUME SortInv, NEW p \in Ports, NEW a \in Candidates, UnknownAddress(p, a)
  PROVE  SortInv'
<1> DEFINE new  == (ports \cup {p}) \X {a}
           cs   == conns \cup new
           r    == readables \cup new
           yes  == TRUE
           msgs == IF sortDirty THEN queue ELSE Append(queue, Sort)
<1>1. /\ port[p] \in {"live", "old"} /\ Remember(a) /\ Read(p)
      /\ SortConnections(cs, r, new, yes, Getting(a), msgs)
      /\ UNCHANGED <<connecting, port, ports, sessions, unanswered, rtt, order, sending>>
  BY DEF UnknownAddress, CanRead
<1>2. /\ IsFiniteSet({a}) /\ {a} \in SUBSET Candidates
      /\ IsFiniteSet(ports \cup {p}) /\ ports \cup {p} \in SUBSET Ports
  BY FS_Singleton, FS_AddElement, SortInvFacts
<1>3. /\ cs \in SUBSET Conns /\ IsFiniteSet(cs) /\ queue \in Seq(cs \cup {Sort})
      /\ \A c \in new : c[1] \in ports \cup {p} /\ c[2] \in {a}
  BY <1>2, ConnectionCreated
<1>4. \A c \in cs : port[c[1]] \in {"live", "old"} /\ c[2] \in remote \cup {a}
  BY <1>1, <1>3, SortInvFacts
<1>5. conns \subseteq cs /\ r \in SUBSET cs
  BY SortInvFacts
<1>6. /\ started' \in BOOLEAN /\ Getting(a) \in BOOLEAN
      /\ IsFiniteSet(remote') /\ remote' \subseteq Candidates /\ remote' = remote \cup {a}
  BY <1>1, RememberType
<1>7. /\ port' \in [Ports -> {"none", "live", "old", "gone"}]
      /\ IsFiniteSet(ports')
      /\ ports' \subseteq {q \in Ports : port'[q] \in {"live", "old"}}
      /\ polled' \subseteq {1, 2} \X Ports
  BY <1>1, ReadType, SortInvFacts
<1>8. \A c \in cs : port'[c[1]] \in {"live", "old"} /\ c[2] \in remote'
  BY <1>1, <1>4, <1>6
<1>9. UNCHANGED <<connecting, sessions, unanswered, rtt, order, sending>>
  BY <1>1
<1>10. msgs \in Seq(cs \cup {Sort})
  BY <1>3
<1>11. SortConnections(cs, r, new, yes, Getting(a), msgs)
  BY <1>1
<1>12. cs \in SUBSET Conns /\ IsFiniteSet(cs) /\ yes \in BOOLEAN
  BY <1>3
<1> HIDE DEF new, cs, r, yes, msgs
<1> QED
  BY <1>5, <1>6, <1>7, <1>8, <1>9, <1>10, <1>11, <1>12, HandlerSorts

\* MSG_SORT: what is left of the queue is sorted with.
LEMMA OnSortSorts ==
  ASSUME SortInv, OnSort
  PROVE  SortInv'
<1> DEFINE none == {}
           msgs == Tail(queue)
<1>1. /\ polled' = {}
      /\ SortConnections(conns, readables, none, sortDirty, gathering, msgs)
      /\ UNCHANGED <<connecting, port, ports, remote, started, sessions, unanswered, rtt,
                     order, sending>>
  BY DEF OnSort, Handle
<1>2. msgs \in Seq(conns \cup {Sort})
  <2> DEFINE E == conns \cup {Sort}
  <2>1. queue \in Seq(E) /\ queue # <<>>
    BY SortInvFacts DEF OnSort
  <2> HIDE DEF E
  <2>2. Tail(queue) \in Seq(E)
    BY <2>1, HeadTailProperties
  <2> QED
    BY <2>2 DEF E
<1>3. /\ UNCHANGED <<connecting, sessions, unanswered, rtt, order, sending>>
      /\ started' \in BOOLEAN /\ sortDirty \in BOOLEAN /\ gathering \in BOOLEAN
      /\ port' \in [Ports -> {"none", "live", "old", "gone"}]
      /\ IsFiniteSet(ports') /\ ports' \subseteq {p \in Ports : port'[p] \in {"live", "old"}}
      /\ IsFiniteSet(remote') /\ remote' \subseteq Candidates
      /\ \A c \in conns : port'[c[1]] \in {"live", "old"} /\ c[2] \in remote'
      /\ polled' \subseteq {1, 2} \X Ports
  BY <1>1, SortInvFacts
<1>4. /\ conns \in SUBSET Conns /\ IsFiniteSet(conns) /\ conns \subseteq conns
      /\ readables \in SUBSET conns
  BY SortInvFacts
<1>5. SortConnections(conns, readables, none, sortDirty, gathering, msgs)
  BY <1>1
<1> HIDE DEF none, msgs
<1> QED
  BY <1>2, <1>3, <1>4, <1>5, HandlerSorts

\* A handler that leaves the connections alone.
LEMMA Unsorted ==
  ASSUME SortInv, Placed', asked' \subseteq conns,
         UNCHANGED <<conns, readables, pruned, wstate, best, queue, sortDirty, readable,
                     writable, wasWritable, wasTimedOut>>,
         waiting' \in BOOLEAN, allocTimer' \in BOOLEAN, gathering' \in BOOLEAN
  PROVE  SortInv'
<1>1. Sorted'
  BY DEF SortInv, Sorted
<1>2. Settled'
  BY DEF SortInv, Settled, Sorting
<1> QED
  BY <1>1, <1>2 DEF SortInv

LEMMA AllocatesSorts ==
  ASSUME SortInv, Connect \/ AllocateAgain \/ SignalingReady
                    \/ (\E a \in Candidates : RememberOnly(a))
  PROVE  SortInv'
<1>1. /\ UNCHANGED <<conns, readables, pruned, wstate, best, queue, sortDirty, readable,
                     writable, wasWritable, wasTimedOut, asked, unanswered, rtt, order,
                     port, sending>>
      /\ polled' = {}
  BY DEF Connect, AllocateAgain, SignalingReady, RememberOnly, Handle, connState, selection
<1>2. /\ IsFiniteSet({}) /\ MaxSessions \in Nat
      /\ waiting \in BOOLEAN /\ allocTimer \in BOOLEAN /\ gathering \in BOOLEAN
      /\ started \in BOOLEAN /\ asked \subseteq conns
  BY FS_EmptySet, P2PChannelAssumption DEF SortInv, Sorted, Placed
<1>3. CASE Connect \/ AllocateAgain \/ SignalingReady
  <2>1. /\ UNCHANGED <<remote, started>> /\ connecting' \in BOOLEAN
        /\ waiting' \in BOOLEAN /\ allocTimer' \in BOOLEAN /\ gathering' \in BOOLEAN
        /\ sessions' \in 0..MaxSessions
        /\ ports' = ports \/ ports' = {}
    <3>1. CASE Connect
      BY <1>2, <3>1 DEF Connect, selection, SortInv, Placed
    <3>2. CASE AllocateAgain
      BY <1>2, <3>2 DEF AllocateAgain, SortInv, Placed
    <3>3. CASE SignalingReady
      <4>1. sessions' \in 0..MaxSessions
        BY <1>2, <3>3 DEF SignalingReady, SortInv, Placed
      <4> QED
        BY <1>2, <3>3, <4>1 DEF SignalingReady, SortInv, Placed
    <3> QED
      BY <1>3, <3>1, <3>2, <3>3
  <2>2. IsFiniteSet(ports') /\ ports' \subseteq {p \in Ports : port[p] \in {"live", "old"}}
    BY <1>2, <2>1 DEF SortInv, Placed
  <2>3. Placed'
    BY <1>1, <1>2, <2>1, <2>2 DEF SortInv, Placed
  <2> QED
    BY <1>1, <1>2, <2>1, <2>3, Unsorted
<1>4. ASSUME NEW a \in Candidates, RememberOnly(a) PROVE SortInv'
  <2>1. /\ UNCHANGED <<connecting, ports, waiting, allocTimer, sessions>>
        /\ Remember(a) /\ gathering' = Getting(a)
    BY <1>4 DEF RememberOnly
  <2>2. /\ started' \in BOOLEAN /\ Getting(a) \in BOOLEAN
        /\ IsFiniteSet(remote') /\ remote' \subseteq Candidates /\ remote' = remote \cup {a}
    BY <2>1, RememberType
  <2>3. Placed'
    BY <1>1, <1>2, <2>1, <2>2 DEF SortInv, Placed
  <2> QED
    BY <1>1, <1>2, <2>1, <2>2, <2>3, Unsorted
<1> QED
  BY <1>3, <1>4

LEMMA PortTimesOutSorts ==
  ASSUME SortInv, NEW p \in Ports, PortTimesOut(p)
  PROVE  SortInv'
<1> DEFINE used == \E c \in conns : c[1] = p
<1>1. /\ port' = [port EXCEPT ![p] = IF used THEN "old" ELSE "gone"]
      /\ ports' = IF used THEN ports ELSE ports \ {p}
      /\ polled' = {}
      /\ UNCHANGED <<connecting, remote, started, waiting, allocTimer, gathering, sessions>>
      /\ UNCHANGED <<conns, readables, pruned, wstate, best, queue, sortDirty, readable,
                     writable, wasWritable, wasTimedOut, asked, unanswered, rtt, order,
                     sending>>
  BY DEF PortTimesOut, Handle, connState, selection
<1>2. \A c \in conns : c[1] \in Ports
  BY SortInvFacts DEF Conns
<1>3. IsFiniteSet(ports \ {p})
  BY FS_RemoveElement, SortInvFacts
<1>4. Placed'
  BY <1>1, <1>2, <1>3 DEF SortInv, Placed
<1> QED
  BY <1>1, <1>4, Unsorted DEF SortInv, Sorted

LEMMA RestSorts ==
  ASSUME SortInv,
         (\E c \in Conns : RequestExpires(c)) \/ SendPacket \/ UNCHANGED vars
  PROVE  SortInv'
<1>1. /\ UNCHANGED <<conns, readables, pruned, wstate, best, queue, sortDirty, readable,
                     writable, wasWritable, wasTimedOut, connecting, port, ports, remote,
                     started, waiting, allocTimer, gathering, sessions, unanswered, rtt,
                     order>>
      /\ asked' \subseteq conns /\ polled' \subseteq {1, 2} \X Ports
      /\ sending' \in Conns \cup {None, Checked, Null}
  BY DEF RequestExpires, SendPacket, vars, Handle, allocation, connState, selection,
         SortInv, Sorted, Placed
<1>2. Placed'
  BY <1>1 DEF SortInv, Placed
<1> QED
  BY <1>1, <1>2, Unsorted DEF SortInv, Sorted

\* OnPing pings a connection that exists.
LEMMA NextPingableExists ==
  ASSUME SortInv, NEW r, NEW w, NEW c \in NextPingable(r, w)
  PROVE  c \in conns
<1> DEFINE able == Pingable(r, w)
           old  == Keep(order, able)
<1>1. able \subseteq conns /\ best \in conns \cup {None} /\ order \in Seq(conns)
  BY DEF Pingable, SortInv, Sorted, Placed
<1>2. old \in Seq(conns)
  BY <1>1, KeepType
<1>3. old # <<>> => Head(old) \in conns
  BY <1>2, HeadTailProperties
<1> QED
  BY <1>1, <1>3 DEF NextPingable

\* The pings stay in order: a connection pinged again moves to the end.
LEMMA PingedLast ==
  ASSUME SortInv, NEW c \in conns, order' = Append(Keep(order, Conns \ {c}), c)
  PROVE  /\ order' \in Seq(conns)
         /\ \A i, j \in 1..Len(order') : order'[i] = order'[j] => i = j
<1> DEFINE rest == Keep(order, Conns \ {c})
<1>1. order \in Seq(conns) /\ \A i, j \in 1..Len(order) : order[i] = order[j] => i = j
  BY DEF SortInv, Placed
<1>2. /\ rest \in Seq(conns) /\ \A k \in 1..Len(rest) : rest[k] \in Conns \ {c}
      /\ \A i, j \in 1..Len(rest) : rest[i] = rest[j] => i = j
  BY <1>1, KeepType, KeepMembers, KeepNoRepeats
<1> HIDE DEF rest
<1>3. /\ Append(rest, c) \in Seq(conns)
      /\ \A i, j \in 1..Len(Append(rest, c)) : Append(rest, c)[i] = Append(rest, c)[j] => i = j
  BY <1>2, AppendNoRepeats
<1> QED
  BY <1>3 DEF rest

LEMMA OnPingSorts ==
  ASSUME SortInv, OnPing
  PROVE  SortInv'
<1>1. PICK r \in Readings(readables, {}), w \in Writings :
        /\ readables' = r /\ wstate' = w
        /\ \E msgs \in Posts(Changed(readables, r, w), sortDirty, r, w) :
             queue' = queue \o msgs
        /\ sortDirty' = (sortDirty \/ Changed(readables, r, w) # {})
        /\ \/ UNCHANGED <<asked, unanswered, order>>
           \/ \E c \in NextPingable(r, w) :
                /\ asked' = asked \cup {c}
                /\ unanswered' = [unanswered EXCEPT
                                    ![c] = IF @ < Failures THEN @ + 1 ELSE @]
                /\ order' = Append(Keep(order, Conns \ {c}), c)
  BY DEF OnPing
<1> DEFINE changed == Changed(readables, r, w)
<1>2. /\ polled' = {}
      /\ UNCHANGED <<connecting, port, ports, remote, started, waiting, allocTimer,
                     gathering, sessions, conns, pruned, rtt, best, readable, writable,
                     wasWritable, wasTimedOut, sending>>
  BY DEF OnPing, Handle, allocation
<1>3. r \subseteq conns /\ w \in [Conns -> States]
  BY WritingsType DEF Readings, SortInv, Sorted
<1>4. changed \in SUBSET conns /\ \A c \in conns \ changed : w[c] = wstate[c]
  BY DEF Changed
<1>5. PICK msgs \in Posts(changed, sortDirty, r, w) : queue' = queue \o msgs
  BY <1>1
<1>6. sortDirty' = (sortDirty \/ changed # {})
  BY <1>1
<1> HIDE DEF changed
<1>7. queue' \in Seq(conns \cup {Sort}) /\ Settled'
  BY <1>1, <1>2, <1>3, <1>4, <1>5, <1>6, PostedSettled
<1>8. /\ asked' \subseteq conns /\ unanswered' \in [Conns -> 0..Failures]
      /\ order' \in Seq(conns) /\ \A i, j \in 1..Len(order') : order'[i] = order'[j] => i = j
  <2>1. CASE UNCHANGED <<asked, unanswered, order>>
    BY <2>1 DEF SortInv, Sorted, Placed
  <2>2. ASSUME NEW c \in NextPingable(r, w),
               asked' = asked \cup {c},
               unanswered' = [unanswered EXCEPT ![c] = IF @ < Failures THEN @ + 1 ELSE @],
               order' = Append(Keep(order, Conns \ {c}), c)
        PROVE  /\ asked' \subseteq conns /\ unanswered' \in [Conns -> 0..Failures]
               /\ order' \in Seq(conns)
               /\ \A i, j \in 1..Len(order') : order'[i] = order'[j] => i = j
    <3>1. c \in conns
      BY NextPingableExists
    <3>2. asked' \subseteq conns
      BY <2>2, <3>1 DEF SortInv, Sorted
    <3>3. unanswered' \in [Conns -> 0..Failures]
      <4>1. unanswered \in [Conns -> 0..Failures] /\ Failures \in Nat /\ c \in Conns
        BY <3>1, SortInvFacts, P2PChannelAssumption DEF SortInv, Placed
      <4>2. (IF unanswered[c] < Failures THEN unanswered[c] + 1 ELSE unanswered[c]) \in 0..Failures
        BY <4>1
      <4> QED
        BY <2>2, <4>1, <4>2
    <3> QED
      BY <2>2, <3>1, <3>2, <3>3, PingedLast
  <2> QED
    BY <1>1, <2>1, <2>2
<1>9. Sorted'
  BY <1>1, <1>2, <1>3, <1>6, <1>7, <1>8 DEF SortInv, Sorted
<1>10. Placed'
  BY <1>2, <1>8 DEF SortInv, Placed
<1> QED
  BY <1>7, <1>9, <1>10 DEF SortInv

\* MSG_DELETE: what is left when a connection is destroyed.
LEMMA OnDeleteSorts ==
  ASSUME SortInv, OnDelete
  PROVE  SortInv'
<1> DEFINE c       == Head(queue)
           left    == Keep(queue, (Conns \cup {Sort}) \ {c})
           request == best = c /\ ~sortDirty
           empty   == port[c[1]] = "old" /\ \A d \in conns \ {c} : d[1] # c[1]
<1>1. /\ queue # <<>> /\ c # Sort /\ polled' = {}
      /\ conns' = conns \ {c} /\ readables' = readables \ {c} /\ pruned' = pruned \ {c}
      /\ asked' = asked \ {c} /\ wstate' = [wstate EXCEPT ![c] = "connect"]
      /\ unanswered' = [unanswered EXCEPT ![c] = 0]
      /\ rtt' = [rtt EXCEPT ![c] = DefaultRtt]
      /\ order' = Keep(order, Conns \ {c})
      /\ best' = IF best = c THEN None ELSE best
      /\ sortDirty' = (sortDirty \/ request)
      /\ queue' = IF request THEN Append(left, Sort) ELSE left
      /\ port' = [port EXCEPT ![c[1]] = IF empty THEN "gone" ELSE @]
      /\ ports' = IF empty THEN ports \ {c[1]} ELSE ports
      /\ UNCHANGED <<connecting, remote, started, waiting, allocTimer, gathering, sessions,
                     readable, writable, wasWritable, wasTimedOut, sending>>
  BY DEF OnDelete, BestWithout, Handle
<1>2. c \in conns
  <2> DEFINE E == conns \cup {Sort}
  <2>1. queue \in Seq(E)
    BY SortInvFacts
  <2> HIDE DEF E
  <2>2. Head(queue) \in E
    BY <1>1, <2>1, HeadTailProperties
  <2> QED
    BY <1>1, <2>2 DEF E
<1>3. /\ left \in Seq((conns \ {c}) \cup {Sort})
      /\ Sorting(left) <=> Sorting(queue)
  <2> DEFINE E == conns \cup {Sort}
             K == (Conns \cup {Sort}) \ {c}
  <2>1. queue \in Seq(E)
    BY SortInvFacts
  <2>2. E \cap K \subseteq (conns \ {c}) \cup {Sort} /\ Sort \in K
    BY <1>1
  <2> HIDE DEF E, K
  <2>3. /\ Keep(queue, K) \in Seq(E \cap K)
        /\ \A k \in 1..Len(Keep(queue, K)) :
             \E j \in 1..Len(queue) : queue[j] = Keep(queue, K)[k]
        /\ \A j \in 1..Len(queue) :
             queue[j] \in K => \E k \in 1..Len(Keep(queue, K)) : Keep(queue, K)[k] = queue[j]
    BY <2>1, KeepType, KeepMembers
  <2>4. Keep(queue, K) \in Seq((conns \ {c}) \cup {Sort})
    BY <2>2, <2>3, SeqMonotonic
  <2>5. Sorting(Keep(queue, K)) <=> Sorting(queue)
    BY <2>2, <2>3 DEF Sorting
  <2> QED
    BY <2>4, <2>5 DEF K
<1> HIDE DEF left
<1>4. /\ queue' \in Seq((conns \ {c}) \cup {Sort})
      /\ ~Sorting(queue') => ~request /\ ~Sorting(queue)
  <2>1. /\ Append(left, Sort) \in Seq((conns \ {c}) \cup {Sort})
        /\ Sorting(Append(left, Sort))
    <3>1. /\ Append(left, Sort) \in Seq((conns \ {c}) \cup {Sort})
          /\ Len(left) \in Nat /\ Len(Append(left, Sort)) = Len(left) + 1
          /\ Append(left, Sort)[Len(left) + 1] = Sort
      BY <1>3, Sort \in (conns \ {c}) \cup {Sort}, AppendProperties, LenProperties
    <3>2. Len(left) + 1 \in 1..Len(Append(left, Sort))
      BY <3>1
    <3> QED
      BY <3>1, <3>2 DEF Sorting
  <2>2. CASE request
    BY <1>1, <2>1, <2>2
  <2>3. CASE ~request
    BY <1>1, <1>3, <2>3
  <2> QED
    BY <2>2, <2>3
<1>5. Sorted'
  <2>1. /\ IsFiniteSet(conns \ {c}) /\ conns \ {c} \subseteq Conns
        /\ wstate' \in [Conns -> States] /\ best' \in conns' \cup {None}
    BY <1>1, FS_RemoveElement DEF SortInv, Sorted, States
  <2> QED
    BY <1>1, <1>4, <2>1 DEF SortInv, Sorted
<1>6. Settled'
  <2> SUFFICES ASSUME ~Sorting(queue')
               PROVE  /\ ~sortDirty'
                      /\ writable' = (best' # None /\ wstate'[best'] = "writable")
                      /\ writable' = \E d \in conns' : wstate'[d] = "writable"
    BY DEF Settled, Sorting
  <2>1. /\ ~sortDirty /\ ~request
        /\ writable = (best # None /\ wstate[best] = "writable")
        /\ writable = \E d \in conns : wstate[d] = "writable"
    BY <1>4 DEF SortInv, Settled
  <2>2. best # c /\ best' = best /\ best \in conns \cup {None} /\ conns \subseteq Conns
    BY <1>1, <2>1 DEF SortInv, Sorted
  <2>3. \A d \in Conns \ {c} : wstate'[d] = wstate[d]
    BY <1>1 DEF SortInv, Sorted
  <2>4. writable' = (best' # None /\ wstate'[best'] = "writable")
    BY <1>1, <2>1, <2>2, <2>3
  <2>5. writable' = \E d \in conns' : wstate'[d] = "writable"
    BY <1>1, <2>1, <2>2, <2>3
  <2> QED
    BY <1>1, <2>1, <2>4, <2>5
<1>7. /\ order' \in Seq(conns')
      /\ \A i, j \in 1..Len(order') : order'[i] = order'[j] => i = j
  <2> DEFINE K == Conns \ {c}
  <2>1. order \in Seq(conns) /\ \A i, j \in 1..Len(order) : order[i] = order[j] => i = j
    BY DEF SortInv, Placed
  <2>2. conns \cap K \subseteq conns'
    BY <1>1
  <2> HIDE DEF K
  <2>3. Keep(order, K) \in Seq(conns')
    BY <2>1, <2>2, KeepType, SeqMonotonic
  <2>4. \A i, j \in 1..Len(Keep(order, K)) : Keep(order, K)[i] = Keep(order, K)[j] => i = j
    BY <2>1, KeepNoRepeats
  <2> QED
    BY <1>1, <2>3, <2>4 DEF K
<1>8. /\ IsFiniteSet(ports') /\ port' \in [Ports -> {"none", "live", "old", "gone"}]
      /\ ports' \subseteq {p \in Ports : port'[p] \in {"live", "old"}}
      /\ \A d \in conns' : port'[d[1]] \in {"live", "old"} /\ d[2] \in remote
  <2>1. c[1] \in Ports /\ \A d \in conns : d[1] \in Ports
    BY <1>2, SortInvFacts DEF Conns
  <2>2. IsFiniteSet(ports \ {c[1]})
    BY FS_RemoveElement, SortInvFacts
  <2>3. CASE empty
    BY <1>1, <2>1, <2>2, <2>3, SortInvFacts
  <2>4. CASE ~empty
    BY <1>1, <2>1, <2>4, SortInvFacts
  <2> QED
    BY <2>3, <2>4
<1>9. /\ unanswered' \in [Conns -> 0..Failures]
      /\ rtt' \in [Conns -> Rtts \cup {DefaultRtt}]
  <2>1. 0 \in 0..Failures
    BY P2PChannelAssumption
  <2>2. /\ unanswered \in [Conns -> 0..Failures]
        /\ rtt \in [Conns -> Rtts \cup {DefaultRtt}]
    BY DEF SortInv, Placed
  <2> QED
    BY <1>1, <2>1, <2>2
<1>10. /\ connecting' \in BOOLEAN /\ started' \in BOOLEAN /\ UNCHANGED remote
       /\ IsFiniteSet(remote') /\ remote' \subseteq Candidates
       /\ sessions' \in 0..MaxSessions /\ polled' \subseteq {1, 2} \X Ports
       /\ sending' \in Conns \cup {None, Checked, Null}
  <2>1. /\ connecting \in BOOLEAN /\ started \in BOOLEAN
        /\ IsFiniteSet(remote) /\ remote \subseteq Candidates
        /\ sessions \in 0..MaxSessions
        /\ sending \in Conns \cup {None, Checked, Null}
    BY DEF SortInv, Placed
  <2>2. polled' = {} /\ UNCHANGED <<connecting, started, remote, sessions, sending>>
    BY <1>1
  <2> QED
    BY <2>1, <2>2
<1>11. Placed'
  BY <1>7, <1>8, <1>9, <1>10 DEF Placed
<1> QED
  BY <1>5, <1>6, <1>11 DEF SortInv

-------------------------------------------------------------------------------
\* The channel as it is created.
LEMMA InitSort == Init => SortInv
<1> SUFFICES ASSUME Init PROVE SortInv
  OBVIOUS
<1>1. IsFiniteSet({})
  BY FS_EmptySet
<1>2. Sorted
  <2>1. queue \in Seq(conns \cup {Sort})
    BY DEF Init
  <2>2. wstate \in [Conns -> States]
    BY DEF Init, States
  <2> QED
    BY <1>1, <2>1, <2>2 DEF Init, Sorted
<1>3. Placed
  <2>1. order \in Seq(conns) /\ \A i, j \in 1..Len(order) : order[i] = order[j] => i = j
    BY DEF Init
  <2>2. /\ unanswered \in [Conns -> 0..Failures]
        /\ rtt \in [Conns -> Rtts \cup {DefaultRtt}] /\ sessions \in 0..MaxSessions
    BY P2PChannelAssumption DEF Init
  <2> QED
    BY <1>1, <2>1, <2>2 DEF Init, Placed
<1>4. Settled
  BY DEF Init, Settled
<1> QED
  BY <1>2, <1>3, <1>4 DEF SortInv

\* Every handler preserves the invariant.
LEMMA NextSort == SortInv /\ [Next]_vars => SortInv'
<1> SUFFICES ASSUME SortInv, [Next]_vars PROVE SortInv'
  OBVIOUS
<1>1. CASE Connect \/ AllocateAgain \/ SignalingReady
  BY <1>1, AllocatesSorts
<1>2. ASSUME NEW p \in Ports, PortReady(p) \/ PortTimesOut(p) PROVE SortInv'
  BY <1>2, PortReadySorts, PortTimesOutSorts
<1>3. ASSUME NEW a \in Candidates, RemoteCandidate(a) \/ RememberOnly(a) PROVE SortInv'
  BY <1>3, RemoteCandidateSorts, AllocatesSorts
<1>4. ASSUME NEW p \in Ports, NEW a \in Candidates, UnknownAddress(p, a) PROVE SortInv'
  BY <1>4, UnknownAddressSorts
<1>5. ASSUME NEW c \in Conns,
             BindingRequest(c) \/ Data(c) \/ Response(c) \/ ErrorResponse(c)
      PROVE  SortInv'
  BY <1>5, PacketSorts, P2PChannelAssumption
<1>6. CASE (\E c \in Conns : RequestExpires(c)) \/ SendPacket \/ UNCHANGED vars
  BY <1>6, RestSorts
<1>7. CASE OnPing \/ OnSort \/ OnDelete
  BY <1>7, OnPingSorts, OnSortSorts, OnDeleteSorts
<1> QED
  BY <1>1, <1>2, <1>3, <1>4, <1>5, <1>6, <1>7 DEF Next

\* The members of a list are the values it takes.
LEMMA RangeMembers ==
  ASSUME NEW E, NEW s \in Seq(E)
  PROVE  Range(s) \subseteq E /\ (\A x : x \in Range(s) <=> \E i \in 1..Len(s) : s[i] = x)
BY DEF Range

\* A list without repetitions is as long as it has members.
LEMMA RangeCounted ==
  ASSUME NEW E, NEW s \in Seq(E), \A i, j \in 1..Len(s) : s[i] = s[j] => i = j
  PROVE  Cardinality(Range(s)) = Len(s)
<1>1. Len(s) \in Nat /\ s \in [1..Len(s) -> Range(s)] /\ \A i \in 1..Len(s) : s[i] \in Range(s)
  BY DEF Range
<1>2. \A x \in Range(s) : \E i \in 1..Len(s) : s[i] = x
  BY RangeMembers
<1>3. s \in Bijection(1..Len(s), Range(s))
  BY <1>1, <1>2, Fun_IsBij
<1> QED
  BY <1>1, <1>3, FS_CountingElements DEF ExistsBijection

\* The types of the channel: a timed-out connection or an erased port leaves nothing
\* behind, and the pings are of different connections.
THEOREM TypeCorrect == Spec => []TypeOK
<1>1. SortInv => TypeOK
  <2> SUFFICES ASSUME SortInv PROVE TypeOK
    OBVIOUS
  <2>1. Range(order) \subseteq conns /\ Cardinality(Range(order)) = Len(order)
    BY RangeMembers, RangeCounted DEF SortInv, Placed
  <2>2. Range(queue) \subseteq conns \cup {Sort}
    BY RangeMembers, SortInvFacts
  <2>3. conns \subseteq {c \in Conns : port[c[1]] \in {"live", "old"} /\ c[2] \in remote}
    BY SortInvFacts
  <2> QED
    BY <2>1, <2>2, <2>3 DEF SortInv, Sorted, Placed, States, TypeOK
<1> QED
  BY InitSort, NextSort, <1>1, PTL DEF Spec

\* UpdateChannelState's ASSERT between the handlers: once no MSG_SORT is to come, the
\* channel is writable exactly when its best connection is, and when any is.
THEOREM ChannelSettled == Spec => []NothingStale
<1>1. SortInv => NothingStale
  <2> SUFFICES ASSUME SortInv, Sort \notin Range(queue) PROVE Settled /\ ~Sorting(queue)
    BY DEF Settled, NothingStale
  <2> QED
    BY RangeMembers, SortInvFacts DEF SortInv, Sorting
<1> QED
  BY InitSort, NextSort, <1>1, PTL DEF Spec

-----------------------------------------------------------------------------
(***************************************************************************)
(* A channel proxy never holds a channel that is gone, and a channel goes  *)
(* with its last proxy, for every set of names and however many channels   *)
(* are made.  The users of an entry are counted in ref_, and *)
(* the invariant says what is counted: its proxies, or, for a channel made *)
(* before the negotiation was complete, the one that will come.            *)
(***************************************************************************)

\* What is true of an entry of channels_ and its users.
Entry(n) ==
    /\ \/ channels[n].ref = Users(n)
       \/ channels[n].ref = 1 /\ Users(n) = 0
    /\ channels[n].ref = 0 => channels[n].wires = 0
    /\ state = "init" => channels[n].ref = 0
    /\ ~Negotiated => proxies[n] # "set"
    /\ Negotiated => proxies[n] # "unset"
    /\ state # "bundled" => ~muxed[n] /\ channels[n].wires = channels[n].ref
    /\ state = "connecting" /\ proxies[n] = "unset" => channels[n].ref = 1
    /\ stage \notin {"live", "deleting"} => channels[n].ref = 0

RefInv == TransportTypeOK /\ (\A n \in Names : Entry(n))

-----------------------------------------------------------------------------
\* The messages posted are of the kinds the signaling thread handles.
LEMMA TimesType ==
    ASSUME NEW k \in Nat, NEW kind \in Posted
    PROVE  Times(k, kind) \in Seq(Posted)
BY SeqDef DEF Times

LEMMA ConcatType ==
    ASSUME NEW S, NEW s \in Seq(S), NEW t \in Seq(S)
    PROVE  s \o t \in Seq(S)
BY ConcatProperties

LEMMA RequestsType ==
    ASSUME NEW chs, NEW S \in SUBSET Names
    PROVE  RequestsOf(chs, S) \in Seq(Posted)
<1> DEFINE all == {x \in S \X (1 .. 2) : x[2] <= chs[x[1]].wires}
<1>1. IsFiniteSet(S)
    BY BoundsAssumption, FS_Subset
<1>2. IsFiniteSet(S \X (1 .. 2))
    <2>1. IsFiniteSet(1 .. 2)
        BY FS_Interval, 1 \in Int, 2 \in Int
    <2> QED
        BY <1>1, <2>1, FS_Product
<1>3. IsFiniteSet(all)
    BY <1>2, FS_Subset
<1>4. Cardinality(all) \in Nat
    BY <1>3, FS_CardinalityType
<1> QED
    BY <1>4, TimesType DEF RequestsOf, Posted

LEMMA CreatePostsType ==
    ASSUME NEW chs, NEW S \in SUBSET Names
    PROVE  CreatePosts(chs, S) \in Seq(Posted)
<1>1. RequestsOf(chs, S) \in Seq(Posted)
    BY RequestsType
<1>2. <<"connecting">> \in Seq(Posted) /\ <<>> \in Seq(Posted)
    BY DEF Posted
<1> HIDE DEF Posted
<1> QED
    BY <1>1, <1>2 DEF CreatePosts

LEMMA DestroyPostsType ==
    ASSUME NEW n
    PROVE  DestroyPosts(n) \in Seq(Posted)
BY DEF DestroyPosts, Posted

-----------------------------------------------------------------------------
\* The invariant holds of a session that has just been made.
LEMMA InitRefs == TransportInit => RefInv
<1> SUFFICES ASSUME TransportInit PROVE RefInv
    OBVIOUS
<1>1. Absent \in Channel
    BY DEF Absent, Channel
<1>2. <<>> \in Seq(Posted)
    OBVIOUS
<1>3. TransportTypeOK
    BY <1>1, <1>2 DEF TransportInit, TransportTypeOK, Stages
<1>4. ASSUME NEW n \in Names PROVE Entry(n)
    BY DEF TransportInit, Entry, Users, Absent, Negotiated
<1> QED
    BY <1>3, <1>4 DEF RefInv, TransportInit

\* An entry that has been created once more, and one that has lost a user.
Wide == [ref : 0 .. 2, wires : 0 .. 3, waiting : BOOLEAN, allocated : BOOLEAN,
         readable : BOOLEAN, writable : BOOLEAN]

LEMMA CreatedEntry ==
    ASSUME TransportTypeOK, NEW S \in SUBSET Names, NEW n \in Names,
           n \in S => channels[n].ref <= 1
    PROVE  LET ch == Created(channels, S)[n]
               k == IF n \in S THEN 1 ELSE 0
           IN  /\ ch \in Wide
               /\ ch.ref = channels[n].ref + k
               /\ ch.wires = channels[n].wires + k
<1> DEFINE old == channels[n]
           new == Created(channels, S)[n]
           more == [[old EXCEPT !.ref = old.ref + 1] EXCEPT
                      !.wires = old.wires + 1]
<1>1. old \in Channel /\ (n \in S => old.ref <= 1)
    BY DEF TransportTypeOK
<1>2. new = IF n \in S
            THEN IF connect_requested THEN [more EXCEPT !.waiting = TRUE]
                                      ELSE more
            ELSE old
    BY <1>1 DEF Created, ConnectChannel, Channel
<1> HIDE DEF old, new
<1>3. old \in Wide /\ old.ref \in Int /\ old.wires \in Int
    BY <1>1 DEF Channel, Wide
<1>4. ASSUME n \in S
      PROVE  /\ more \in Wide
             /\ more.ref = old.ref + 1
             /\ more.wires = old.wires + 1
    <2>1. old.ref + 1 \in 0 .. 2 /\ old.wires + 1 \in 0 .. 3
        BY <1>1, <1>4 DEF Channel
    <2>2. [old EXCEPT !.ref = old.ref + 1] \in Wide
        BY <1>3, <2>1 DEF Wide
    <2> QED
        BY <1>3, <2>1, <2>2 DEF Wide
<1> HIDE DEF more
<1>5. ASSUME more \in Wide
      PROVE  /\ [more EXCEPT !.waiting = TRUE] \in Wide
             /\ [more EXCEPT !.waiting = TRUE].ref = more.ref
             /\ [more EXCEPT !.waiting = TRUE].wires = more.wires
    BY <1>5 DEF Wide
<1>6. /\ new \in Wide
      /\ new.ref = old.ref + (IF n \in S THEN 1 ELSE 0)
      /\ new.wires = old.wires + (IF n \in S THEN 1 ELSE 0)
    <2>1. CASE n \in S
        BY <1>2, <1>4, <1>5, <2>1
    <2>2. CASE n \notin S
        BY <1>2, <1>3, <2>2
    <2> QED
        BY <2>1, <2>2
<1> QED
    BY <1>6 DEF old, new

LEMMA DestroyedEntry ==
    ASSUME TransportTypeOK, NEW m \in Names, NEW n \in Names
    PROVE  LET ch == Destroyed(m)[n]
           IN  /\ ch \in Channel
               /\ n # m => ch = channels[n]
               /\ n = m /\ channels[n].ref <= 1 => ch.ref = 0 /\ ch.wires = 0
               /\ n = m /\ channels[n].ref = 2
                    => ch.ref = 1 /\ ch.wires = channels[n].wires
<1> DEFINE old == channels[m]
           less == [old EXCEPT !.ref = old.ref - 1]
<1>1. channels \in [Names -> Channel] /\ old \in Channel
    BY DEF TransportTypeOK
<1>2. Destroyed(m)[n] = IF n # m THEN channels[n]
                       ELSE IF old.ref > 1 THEN less ELSE Absent
    BY DEF Destroyed
<1>3. Absent \in Channel /\ Absent.ref = 0 /\ Absent.wires = 0
    BY DEF Absent, Channel
<1>4. ASSUME old.ref > 1
      PROVE  less \in Channel /\ less.ref = old.ref - 1 /\ less.wires = old.wires
    <2> HIDE DEF old
    <2>1. old.ref - 1 \in 0 .. 2
        BY <1>1, <1>4 DEF Channel
    <2> QED
        BY <1>1, <2>1 DEF Channel
<1>5. old.ref \in Int
    BY <1>1 DEF Channel
<1> HIDE DEF less
<1> QED
    BY <1>1, <1>2, <1>3, <1>4, <1>5

\* Creating the channels of S that are not there and, if told to, connecting
\* them: what becomes of an entry, and of the types.
LEMMA BeginEntry ==
    ASSUME TransportTypeOK, NEW S \in SUBSET Names, NEW c \in BOOLEAN, Begin(S, c)
    PROVE  /\ connect_requested' \in BOOLEAN
           /\ signalQ' \in Seq(Posted)
           /\ channels' = [n \in Names |-> channels'[n]]
           /\ \A n \in Names :
                 LET made == n \in S /\ channels[n].ref = 0
                 IN  /\ channels'[n].ref = IF made THEN 1 ELSE channels[n].ref
                     /\ channels'[n].wires =
                          IF made THEN channels[n].wires + 1 ELSE channels[n].wires
                     /\ channels'[n] \in Wide
<1> DEFINE new == S \ Open(channels)
           chs == Created(channels, new)
           starts == c /\ ~connect_requested /\ Open(chs) # {}
<1>1. new \in SUBSET Names /\ Open(chs) \in SUBSET Names
    BY DEF Open
<1>2. starts \in BOOLEAN
    OBVIOUS
<1>3. \A n \in Names : channels[n].ref \in 0 .. 2 /\ channels[n].wires \in 0 .. 2
    BY DEF TransportTypeOK, Channel
<1>4. \A n \in Names : n \in new <=> n \in S /\ channels[n].ref = 0
    BY <1>3 DEF Open
<1>5. channels' = IF starts
                  THEN [n \in Names |-> IF n \in Open(chs)
                                        THEN ConnectChannel(chs[n]) ELSE chs[n]]
                  ELSE chs
    BY DEF Begin
<1>6. /\ signalQ' = signalQ \o CreatePosts(chs, new)
              \o (IF starts
                  THEN <<"candidateready">> \o RequestsOf(chs, Open(chs))
                         \o <<"connecting">>
                  ELSE <<>>)
      /\ connect_requested' = (connect_requested \/ starts)
    BY DEF Begin
<1>7. signalQ \in Seq(Posted) /\ connect_requested \in BOOLEAN
    BY DEF TransportTypeOK
<1>8. chs = [n \in Names |-> chs[n]]
    BY DEF Created
<1> HIDE DEF new
<1>9. ASSUME NEW n \in Names
      PROVE  /\ chs[n] \in Wide
             /\ chs[n].ref = IF n \in new THEN 1 ELSE channels[n].ref
             /\ chs[n].wires = IF n \in new THEN channels[n].wires + 1
                               ELSE channels[n].wires
    BY <1>1, <1>3, <1>4, CreatedEntry
<1> HIDE DEF chs, starts
<1>10. /\ CreatePosts(chs, new) \in Seq(Posted)
       /\ RequestsOf(chs, Open(chs)) \in Seq(Posted)
    BY <1>1, CreatePostsType, RequestsType
<1>11. /\ <<"candidateready">> \in Seq(Posted) /\ <<"connecting">> \in Seq(Posted)
       /\ <<>> \in Seq(Posted)
    BY DEF Posted
<1>12. signalQ' \in Seq(Posted)
    BY <1>6, <1>7, <1>10, <1>11
<1>13. connect_requested' \in BOOLEAN
    BY <1>2, <1>6, <1>7
<1>14. ASSUME NEW n \in Names
       PROVE  /\ channels'[n] \in Wide
              /\ channels'[n].ref = chs[n].ref
              /\ channels'[n].wires = chs[n].wires
    BY <1>5, <1>8, <1>9 DEF ConnectChannel, Wide
<1>15. channels' = [n \in Names |-> channels'[n]]
    BY <1>5, <1>8
<1> QED
    BY <1>4, <1>9, <1>12, <1>13, <1>14, <1>15

-----------------------------------------------------------------------------
\* A step that makes no user and counts none keeps what is true of the entries.
LEMMA SameEntries ==
    ASSUME RefInv, UNCHANGED <<stage, state, proxies, muxed>>,
           \A n \in Names : /\ channels'[n].ref = channels[n].ref
                            /\ channels'[n].wires = channels[n].wires
    PROVE  \A n \in Names : Entry(n)'
BY DEF RefInv, Entry, Users, Negotiated

\* Steps of the session: channels are made, shared and let go.
LEMMA CreateProxyRefs ==
    ASSUME RefInv, NEW m \in Names, CreateProxy(m)
    PROVE  RefInv'
<1> DEFINE S == IF state = "init" THEN {} ELSE {m}
<1>1. Begin(S, FALSE) /\ S \in SUBSET Names
    BY DEF CreateProxy
<1>2. /\ connect_requested' \in BOOLEAN /\ signalQ' \in Seq(Posted)
      /\ channels' = [n \in Names |-> channels'[n]]
      /\ \A n \in Names :
            LET made == n \in S /\ channels[n].ref = 0
            IN  /\ channels'[n].ref = IF made THEN 1 ELSE channels[n].ref
                /\ channels'[n].wires =
                     IF made THEN channels[n].wires + 1 ELSE channels[n].wires
                /\ channels'[n] \in Wide
    <2> HIDE DEF S
    <2> QED
        BY <1>1, BeginEntry DEF RefInv
<1>3. ASSUME NEW n \in Names
      PROVE  Entry(n)' /\ channels'[n].wires \in 0 .. 2
    <2>1. Entry(n) /\ channels[n] \in Channel /\ TransportTypeOK
        BY DEF RefInv, TransportTypeOK
    <2>2. channels[n].ref \in 0 .. 2 /\ channels[n].wires \in 0 .. 2
        BY <2>1 DEF Channel
    <2>3. /\ channels[m].ref = 0 /\ proxies[m] = "none" /\ stage = "live"
          /\ UNCHANGED <<stage, state, muxed>>
          /\ proxies' = [proxies EXCEPT
                           ![m] = IF Negotiated THEN "set" ELSE "unset"]
        BY DEF CreateProxy
    <2>4. CASE n # m
        <3>1. proxies'[n] = proxies[n]
            BY <2>1, <2>3, <2>4 DEF TransportTypeOK
        <3>2. channels'[n].ref = channels[n].ref /\ channels'[n].wires = channels[n].wires
            BY <1>2, <2>4
        <3> QED
            BY <2>1, <2>2, <2>3, <3>1, <3>2 DEF Entry, Users, Negotiated
    <2>5. CASE n = m
        <3>1. proxies'[n] = IF Negotiated THEN "set" ELSE "unset"
            BY <2>1, <2>3, <2>5 DEF TransportTypeOK
        <3>2. /\ channels'[n].ref = IF state = "init" THEN 0 ELSE 1
              /\ channels'[n].wires = channels'[n].ref
            BY <1>2, <2>1, <2>3, <2>5 DEF Entry
        <3>3. ~muxed[n]
            BY <2>1, <2>3, <2>5 DEF Entry, Users, TransportTypeOK
        <3>4. state \in {"init", "connecting", "negotiated", "bundled"}
            BY <2>1 DEF TransportTypeOK
        <3> QED
            BY <2>3, <3>1, <3>2, <3>3, <3>4 DEF Entry, Users, Negotiated
    <2> QED
        BY <2>4, <2>5
<1>4. channels' \in [Names -> Channel]
    BY <1>2, <1>3 DEF Wide, Channel
<1>5. /\ proxies' \in [Names -> {"none", "unset", "set"}]
      /\ creates' \in Nat /\ stage = "live"
      /\ UNCHANGED <<stage, state, muxed, timer, error, toAnswer, bits,
                    ready_candidates, toWorker, events>>
    BY DEF CreateProxy, RefInv, TransportTypeOK
<1>6. TransportTypeOK'
    BY <1>2, <1>4, <1>5 DEF RefInv, TransportTypeOK, bits, toWorker
<1> QED
    BY <1>3, <1>6 DEF RefInv

\* ... and so for the two ways to begin to connect, which differ in what
\* becomes of the proxies.
LEMMA ConnectRefs ==
    ASSUME RefInv, Speculate \/ CompleteNegotiation
    PROVE  RefInv'
<1>1. Begin(Proxied, TRUE) /\ Proxied \in SUBSET Names
    BY DEF Speculate, CompleteNegotiation, Proxied
<1>2. /\ connect_requested' \in BOOLEAN /\ signalQ' \in Seq(Posted)
      /\ channels' = [n \in Names |-> channels'[n]]
      /\ \A n \in Names :
            LET made == n \in Proxied /\ channels[n].ref = 0
            IN  /\ channels'[n].ref = IF made THEN 1 ELSE channels[n].ref
                /\ channels'[n].wires =
                     IF made THEN channels[n].wires + 1 ELSE channels[n].wires
                /\ channels'[n] \in Wide
    BY <1>1, BeginEntry DEF RefInv
<1>3. ASSUME NEW n \in Names
      PROVE  Entry(n)' /\ channels'[n].wires \in 0 .. 2
    <2>1. Entry(n) /\ channels[n] \in Channel /\ TransportTypeOK
        BY DEF RefInv, TransportTypeOK
    <2>2. /\ channels[n].ref \in 0 .. 2 /\ channels[n].wires \in 0 .. 2
          /\ muxed[n] \in BOOLEAN /\ proxies[n] \in {"none", "unset", "set"}
        BY <2>1 DEF Channel, TransportTypeOK
    <2>3. /\ stage = "live" /\ state \in {"init", "connecting"}
          /\ UNCHANGED <<stage, muxed>>
        BY <2>1 DEF Speculate, CompleteNegotiation, Negotiated, TransportTypeOK
    <2>4. /\ ~muxed[n] /\ proxies[n] # "set" /\ channels[n].ref <= 1
          /\ channels[n].wires = channels[n].ref
        BY <2>1, <2>2, <2>3 DEF Entry, Negotiated, Users
    <2>5. /\ channels'[n].ref = IF proxies[n] = "unset" THEN 1 ELSE channels[n].ref
          /\ channels'[n].wires = channels'[n].ref
        BY <1>2, <2>2, <2>4 DEF Proxied
    <2>6. CASE Speculate
        BY <2>1, <2>2, <2>3, <2>4, <2>5, <2>6
           DEF Speculate, Entry, Users, Negotiated
    <2>7. CASE CompleteNegotiation
        <3>1. /\ state' = "negotiated"
              /\ proxies'[n] = IF proxies[n] = "unset" THEN "set" ELSE "none"
            BY <2>2, <2>4, <2>7 DEF CompleteNegotiation, Proxied
        <3> QED
            BY <2>2, <2>3, <2>4, <2>5, <3>1 DEF Entry, Users, Negotiated
    <2> QED
        BY <2>6, <2>7
<1>4. channels' \in [Names -> Channel]
    BY <1>2, <1>3 DEF Wide, Channel
<1>5. TransportTypeOK'
    <2>1. CASE Speculate
        BY <1>2, <1>4, <2>1 DEF RefInv, TransportTypeOK, Speculate, bits, counts, toWorker
    <2>2. CASE CompleteNegotiation
        BY <1>2, <1>4, <2>2
           DEF RefInv, TransportTypeOK, CompleteNegotiation, bits, counts, toWorker
    <2> QED
        BY <2>1, <2>2
<1> QED
    BY <1>3, <1>5 DEF RefInv

LEMMA MuxRefs ==
    ASSUME RefInv, Mux
    PROVE  RefInv'
<1>1. /\ stage = "live" /\ state = "negotiated" /\ state' = "bundled"
      /\ muxed' = [n \in Names |-> n \in Proxied]
      /\ channels' = Created(channels, Proxied)
      /\ UNCHANGED <<stage, proxies>>
      /\ Proxied \in SUBSET Names
    BY DEF Mux, Proxied
<1>2. ASSUME NEW n \in Names
      PROVE  Entry(n)' /\ channels'[n] \in Channel
    <2>1. Entry(n) /\ channels[n] \in Channel /\ TransportTypeOK
        BY DEF RefInv, TransportTypeOK
    <2>2. /\ channels[n].ref \in 0 .. 2 /\ channels[n].wires = channels[n].ref
          /\ proxies[n] \in {"none", "set"} /\ ~muxed[n]
          /\ channels[n].ref <= 1
          /\ proxies[n] = "set" => channels[n].ref = 1
        BY <1>1, <2>1 DEF Channel, TransportTypeOK, Entry, Negotiated, Users
    <2>3. /\ channels'[n] \in Wide
          /\ channels'[n].ref = channels[n].ref + (IF n \in Proxied THEN 1 ELSE 0)
          /\ channels'[n].wires = channels[n].wires + (IF n \in Proxied THEN 1 ELSE 0)
        BY <1>1, <2>1, <2>2, CreatedEntry
    <2>4. /\ n \in Proxied <=> proxies[n] = "set"
          /\ muxed'[n] <=> proxies[n] = "set"
        BY <1>1, <2>2 DEF Proxied
    <2>5. channels'[n].wires \in 0 .. 2
        BY <2>2, <2>3
    <2>6. channels'[n] \in Channel
        BY <2>3, <2>5 DEF Wide, Channel
    <2>7. channels'[n].ref = IF proxies[n] = "set" THEN 2 ELSE channels[n].ref
        BY <2>2, <2>3, <2>4
    <2> QED
        BY <1>1, <2>2, <2>3, <2>4, <2>6, <2>7 DEF Entry, Users, Negotiated
<1>3. channels' \in [Names -> Channel]
    BY <1>1, <1>2 DEF Created
<1>4. signalQ' \in Seq(Posted)
    <2>1. CreatePosts(channels', Proxied) \in Seq(Posted)
        BY <1>1, CreatePostsType
    <2> QED
        BY <2>1 DEF Mux, RefInv, TransportTypeOK
<1>5. TransportTypeOK'
    BY <1>3, <1>4 DEF RefInv, TransportTypeOK, Mux, bits, counts, toWorker, Proxied
<1> QED
    BY <1>2, <1>5 DEF RefInv

LEMMA DeleteRefs ==
    ASSUME RefInv, NEW m \in Names, DeleteProxy(m) \/ DeleteMuxed(m)
    PROVE  RefInv'
<1>1. /\ stage \in {"live", "deleting"} /\ UNCHANGED <<stage, state>>
      /\ \/ channels' = channels /\ signalQ' = signalQ
         \/ channels' = Destroyed(m) /\ signalQ' = signalQ \o DestroyPosts(m)
    BY DEF DeleteProxy, DeleteMuxed
<1>2. ASSUME NEW n \in Names
      PROVE  Entry(n)' /\ channels'[n] \in Channel
    <2>1. Entry(n) /\ Entry(m) /\ channels[n] \in Channel /\ TransportTypeOK
        BY DEF RefInv, TransportTypeOK
    <2>2. /\ channels[n].ref \in 0 .. 2 /\ channels[n].wires \in 0 .. 2
          /\ muxed[n] \in BOOLEAN /\ proxies[n] \in {"none", "unset", "set"}
          /\ state \in {"init", "connecting", "negotiated", "bundled"}
        BY <2>1 DEF Channel, TransportTypeOK
    <2>3. LET ch == Destroyed(m)[n]
          IN  /\ ch \in Channel
              /\ n # m => ch = channels[n]
              /\ n = m /\ channels[n].ref <= 1 => ch.ref = 0 /\ ch.wires = 0
              /\ n = m /\ channels[n].ref = 2
                   => ch.ref = 1 /\ ch.wires = channels[n].wires
        BY <2>1, DestroyedEntry
    <2>4. CASE DeleteProxy(m)
        <3>1. /\ proxies'[n] = IF n = m THEN "none" ELSE proxies[n]
              /\ muxed' = muxed
              /\ channels'[n] = IF n = m /\ proxies[n] = "set"
                                THEN Destroyed(m)[n] ELSE channels[n]
              /\ n = m => proxies[n] # "none"
            BY <2>1, <2>3, <2>4 DEF DeleteProxy, TransportTypeOK
        <3> QED
            BY <1>1, <2>1, <2>2, <2>3, <3>1 DEF Entry, Users, Negotiated
    <2>5. CASE DeleteMuxed(m)
        <3>1. /\ muxed'[n] = IF n = m THEN FALSE ELSE muxed[n]
              /\ proxies' = proxies
              /\ channels'[n] = IF n = m THEN Destroyed(m)[n] ELSE channels[n]
              /\ n = m => muxed[n]
            BY <2>1, <2>3, <2>5 DEF DeleteMuxed, TransportTypeOK
        <3> QED
            BY <1>1, <2>1, <2>2, <2>3, <3>1 DEF Entry, Users, Negotiated
    <2> QED
        BY <2>4, <2>5
<1>3. channels' \in [Names -> Channel]
    BY <1>1, <1>2 DEF RefInv, TransportTypeOK, Destroyed
<1>4. signalQ' \in Seq(Posted)
    <2>1. DestroyPosts(m) \in Seq(Posted)
        BY DestroyPostsType
    <2>2. signalQ \in Seq(Posted)
        BY DEF RefInv, TransportTypeOK
    <2> QED
        BY <1>1, <2>1, <2>2, ConcatType
<1>5. proxies' \in [Names -> {"none", "unset", "set"}] /\ muxed' \in [Names -> BOOLEAN]
    BY DEF DeleteProxy, DeleteMuxed, RefInv, TransportTypeOK
<1>6. UNCHANGED <<timer, error, toAnswer, bits, connect_requested,
                  ready_candidates, toWorker, counts>>
    BY DEF DeleteProxy, DeleteMuxed
<1>7. TransportTypeOK'
    BY <1>1, <1>3, <1>4, <1>5, <1>6 DEF RefInv, TransportTypeOK, bits, counts, toWorker
<1> QED
    BY <1>2, <1>7 DEF RefInv

\* The end: what DestroyAllChannels finds has at most one user counted.
LEMMA EndRefs ==
    ASSUME RefInv, DestroyAllChannels
    PROVE  RefInv'
<1>1. ASSUME NEW n \in Names
      PROVE  Entry(n)' /\ channels'[n] = Absent
    <2>1. /\ Entry(n) /\ channels[n] \in Channel
          /\ proxies[n] = "none" /\ Users(n) = 0
        BY DEF RefInv, TransportTypeOK, DestroyAllChannels, Proxied, Users
    <2>2. channels[n].ref <= 1
        BY <2>1 DEF Entry
    <2>3. channels'[n] = Absent
        BY <2>1, <2>2 DEF DestroyAllChannels, Channel
    <2>4. Users(n)' = 0 /\ ~muxed'[n]
        BY <2>1 DEF DestroyAllChannels, Users
    <2>5. Absent.ref = 0 /\ Absent.wires = 0
        BY DEF Absent
    <2>6. UNCHANGED <<state, proxies, muxed>>
        BY DEF DestroyAllChannels
    <2> QED
        BY <2>1, <2>3, <2>4, <2>5, <2>6 DEF Entry, Negotiated
<1>2. Absent \in Channel
    BY DEF Absent, Channel
<1>3. channels' \in [Names -> Channel]
    BY <1>1, <1>2 DEF DestroyAllChannels
<1>4. TransportTypeOK'
    BY <1>3 DEF RefInv, TransportTypeOK, Stages, DestroyAllChannels, bits, counts, queues
<1> QED
    BY <1>1, <1>4 DEF RefInv

\* Steps that leave the entries alone: the messages, the timer, the clearing.
LEMMA MessageRefs ==
    ASSUME RefInv,
           AnswerSignaling \/ TimerFires \/ DispatchSignaling \/ EndSession
             \/ TakeSignalingReady \/ ClearWorker \/ ClearSignaling
    PROVE  RefInv'
<1>1. UNCHANGED <<channels, state, proxies, muxed>>
    BY DEF AnswerSignaling, TimerFires, DispatchSignaling, EndSession,
           TakeSignalingReady, ClearWorker, ClearSignaling, OnConnecting,
           OnChannelReadableState,
           OnChannelWritableState, OnChannelRequestSignaling,
           OnChannelCandidateReady, client, worker
<1>2. \/ UNCHANGED stage
      \/ stage \in {"live", "swept", "cleared"} /\ stage' \in Stages
         /\ (stage' \in {"live", "deleting"} <=> stage \in {"live", "deleting"})
    BY DEF AnswerSignaling, TimerFires, DispatchSignaling, EndSession, Stages,
           TakeSignalingReady, ClearWorker, ClearSignaling, OnConnecting,
           OnChannelReadableState,
           OnChannelWritableState, OnChannelRequestSignaling,
           OnChannelCandidateReady, client, worker
<1>3. \A n \in Names : Entry(n)'
    BY <1>1, <1>2 DEF RefInv, Entry, Users, Negotiated
<1>4. ASSUME NEW kind, Arrives(kind)
      PROVE  signalQ' \in Seq(Posted) /\ stage = "live"
    BY <1>4 DEF Arrives, RefInv, TransportTypeOK
<1>5. TransportTypeOK'
    <2>1. CASE AnswerSignaling
        <3>1. workQ' = workQ + 1 /\ toAnswer' = FALSE /\ stage = "live"
            BY <2>1 DEF AnswerSignaling
        <3>2. workQ' \in Nat
            <4>1. workQ \in Nat
                BY DEF RefInv, TransportTypeOK
            <4> QED
                BY <3>1, <4>1
        <3> QED
            BY <2>1, <3>1, <3>2 DEF AnswerSignaling, RefInv, TransportTypeOK, bits, worker,
                              counts
    <2>2. CASE TimerFires
        BY <2>2 DEF TimerFires, RefInv, TransportTypeOK, bits, worker, counts, queues
    <2>3. CASE OnConnecting
        BY <1>4, <2>3 DEF OnConnecting, Watch, HasChannels, RefInv, TransportTypeOK,
                          bits, worker, counts, toWorker
    <2>4. CASE OnChannelReadableState
        BY <1>4, <2>4 DEF OnChannelReadableState, AnyReadable, RefInv, TransportTypeOK,
                          client, worker, counts, toWorker
    <2>5. CASE OnChannelWritableState
        <3>1. writable_' \in BOOLEAN /\ timer' \in BOOLEAN
            BY <2>5 DEF OnChannelWritableState, AnyWritable, Watch, HasChannels,
                        RefInv, TransportTypeOK
        <3> QED
            BY <1>4, <2>5, <3>1 DEF OnChannelWritableState, RefInv, TransportTypeOK,
                                    worker, counts, toWorker
    <2>6. CASE OnChannelRequestSignaling
        BY <1>4, <2>6 DEF OnChannelRequestSignaling, RefInv, TransportTypeOK,
                          bits, worker, counts, toWorker
    <2>7. CASE OnChannelCandidateReady
        BY <1>4, <2>7 DEF OnChannelCandidateReady, RefInv, TransportTypeOK,
                          bits, counts, toWorker
    <2>8. CASE EndSession
        BY <2>8 DEF EndSession, RefInv, TransportTypeOK, Stages, bits,
                    worker, counts, queues
    <2>9. CASE ClearWorker
        BY <2>9 DEF ClearWorker, RefInv, TransportTypeOK, Stages, bits, worker, counts
    <2>10. CASE ClearSignaling
        BY <2>10 DEF ClearSignaling, RefInv, TransportTypeOK, Stages, bits, worker,
                     counts, toWorker
    <2>11. CASE TakeSignalingReady
        BY <2>11 DEF TakeSignalingReady, RefInv, TransportTypeOK, client, bits,
                     worker, counts
    <2> QED
        BY <2>1, <2>2, <2>3, <2>4, <2>5, <2>6, <2>7, <2>8, <2>9, <2>10, <2>11
           DEF DispatchSignaling
<1> QED
    BY <1>3, <1>5 DEF RefInv

\* Steps of the channels: their bits change, and they post.
LEMMA ChannelRefs ==
    ASSUME RefInv,
           OnSignalingReady \/ \E n \in Names : ChannelReports(n)
    PROVE  RefInv'
<1>1. channels \in [Names -> Channel]
    BY DEF RefInv, TransportTypeOK
<1>2. ASSUME NEW m \in Names
      PROVE  channels[m] \in Channel /\ channels[m].wires \in Nat
    BY <1>1 DEF Channel
<1>3. /\ channels' \in [Names -> Channel]
      /\ \A n \in Names : /\ channels'[n].ref = channels[n].ref
                           /\ channels'[n].wires = channels[n].wires
    <2>1. ASSUME NEW ch \in Channel, NEW b \in BOOLEAN, NEW c \in BOOLEAN
          PROVE  /\ [ch EXCEPT !.waiting = b, !.allocated = c] \in Channel
                 /\ [ch EXCEPT !.waiting = b] \in Channel
                 /\ [ch EXCEPT !.readable = b] \in Channel
                 /\ [ch EXCEPT !.writable = b] \in Channel
        BY DEF Channel
    <2>2. CASE OnSignalingReady
        <3>1. ASSUME NEW n \in Names
              PROVE  /\ channels'[n] \in Channel
                     /\ channels'[n].ref = channels[n].ref
                     /\ channels'[n].wires = channels[n].wires
            <4>1. channels'[n] = IF channels[n].waiting
                    THEN [channels[n] EXCEPT !.waiting = FALSE, !.allocated = TRUE]
                    ELSE channels[n]
                BY <2>2 DEF OnSignalingReady
            <4> QED
                BY <1>2, <4>1 DEF Channel
        <3> QED
            BY <2>2, <3>1 DEF OnSignalingReady
    <2>3. ASSUME NEW m \in Names, NEW ch \in Channel,
                 channels' = [channels EXCEPT ![m] = ch],
                 ch.ref = channels[m].ref, ch.wires = channels[m].wires
          PROVE  /\ channels' \in [Names -> Channel]
                 /\ \A n \in Names : /\ channels'[n].ref = channels[n].ref
                                      /\ channels'[n].wires = channels[n].wires
        BY <1>1, <2>3
    <2>4. ASSUME NEW m \in Names, ChannelReports(m)
          PROVE  \E ch \in Channel : /\ channels' = [channels EXCEPT ![m] = ch]
                                     /\ ch.ref = channels[m].ref
                                     /\ ch.wires = channels[m].wires
        <3> DEFINE old == channels[m]
        <3>1. \/ channels' = channels
              \/ channels' = [channels EXCEPT
                                ![m] = [old EXCEPT !.readable = ~old.readable]]
              \/ channels' = [channels EXCEPT
                                ![m] = [old EXCEPT !.writable = ~old.writable]]
              \/ channels' = [channels EXCEPT ![m] = [old EXCEPT !.waiting = TRUE]]
            BY <1>1, <2>4
               DEF ChannelReports, ChannelReadable, ChannelWritable,
                   ChannelAllocates, ChannelCandidate
        <3>2. channels = [channels EXCEPT ![m] = old]
            BY <1>1
        <3>3. old \in Channel
            BY <1>2
        <3> HIDE DEF old
        <3>4. (~old.readable) \in BOOLEAN /\ (~old.writable) \in BOOLEAN
            OBVIOUS
        <3>5. ASSUME NEW b \in BOOLEAN
              PROVE  /\ [old EXCEPT !.readable = b].ref = old.ref
                     /\ [old EXCEPT !.readable = b].wires = old.wires
                     /\ [old EXCEPT !.writable = b].ref = old.ref
                     /\ [old EXCEPT !.writable = b].wires = old.wires
                     /\ [old EXCEPT !.waiting = b].ref = old.ref
                     /\ [old EXCEPT !.waiting = b].wires = old.wires
            BY <3>3 DEF Channel
        <3>6. \E ch \in Channel : /\ channels' = [channels EXCEPT ![m] = ch]
                                  /\ ch.ref = old.ref /\ ch.wires = old.wires
            BY <2>1, <3>1, <3>2, <3>3, <3>4, <3>5
        <3> QED
            BY <3>6 DEF old
    <2> QED
        BY <2>2, <2>3, <2>4
<1>4. UNCHANGED <<client, bits, connect_requested>>
    BY DEF OnSignalingReady, ChannelReports, ChannelReadable, ChannelWritable,
           ChannelAllocates, ChannelCandidate
<1>5. /\ signalQ' \in Seq(Posted) /\ workQ' \in Nat
      /\ ready_candidates' \in Nat /\ creates' \in Nat /\ events' \in Nat
      /\ popped' \in BOOLEAN
    <2>1. CASE OnSignalingReady
        BY <2>1 DEF OnSignalingReady, RefInv, TransportTypeOK, counts
    <2>2. ASSUME NEW m \in Names, ChannelReports(m)
          PROVE  /\ signalQ' \in Seq(Posted) /\ ready_candidates' \in Nat
                 /\ events' \in Nat
                 /\ UNCHANGED <<toWorker, creates>>
        <3>1. \A kind \in Posted : Times(channels[m].wires, kind) \in Seq(Posted)
            BY <1>2, TimesType
        <3>2. {"readstate", "writestate", "requestsignaling", "candidateready"}
                \subseteq Posted
            BY DEF Posted
        <3>3. /\ signalQ \in Seq(Posted) /\ ready_candidates \in Nat
              /\ events \in Nat
            BY DEF RefInv, TransportTypeOK
        <3>4. Report(m) /\ UNCHANGED <<toWorker, creates>>
            BY <2>2 DEF ChannelReports, ChannelReadable, ChannelWritable,
                        ChannelAllocates, ChannelCandidate
        <3>5. \/ signalQ' = signalQ
              \/ \E kind \in Posted :
                    signalQ' = signalQ \o Times(channels[m].wires, kind)
            BY <2>2, <3>2 DEF ChannelReports, ChannelReadable, ChannelWritable,
                              ChannelAllocates, ChannelCandidate
        <3>6. \/ ready_candidates' = ready_candidates
              \/ ready_candidates' = ready_candidates + channels[m].wires
            BY <2>2 DEF ChannelReports, ChannelReadable, ChannelWritable,
                        ChannelAllocates, ChannelCandidate
        <3>7. signalQ' \in Seq(Posted)
            BY <3>1, <3>3, <3>5, ConcatType
        <3> QED
            BY <1>2, <3>3, <3>4, <3>6, <3>7 DEF Report
    <2>3. workQ \in Nat /\ popped \in BOOLEAN /\ creates \in Nat
        BY DEF RefInv, TransportTypeOK
    <2> QED
        BY <2>1, <2>2, <2>3 DEF toWorker
<1>6. \A n \in Names : Entry(n)'
    BY <1>3, <1>4, SameEntries DEF client
<1>7. TransportTypeOK'
    BY <1>3, <1>4, <1>5 DEF RefInv, TransportTypeOK, client, bits
<1> QED
    BY <1>6, <1>7 DEF RefInv

LEMMA NextRefs == RefInv /\ [TransportNext]_transportVars => RefInv'
<1> SUFFICES ASSUME RefInv, [TransportNext]_transportVars PROVE RefInv'
    OBVIOUS
<1>1. CASE SessionSteps
    BY <1>1, ConnectRefs, MuxRefs, EndRefs, MessageRefs DEF SessionSteps
<1>2. ASSUME NEW n \in Names, CreateProxy(n) PROVE RefInv'
    BY <1>2, CreateProxyRefs
<1>3. ASSUME NEW n \in Names, DeleteProxy(n) \/ DeleteMuxed(n) PROVE RefInv'
    BY <1>3, DeleteRefs
<1>4. CASE OnSignalingReady \/ \E n \in Names : ChannelReports(n)
    BY <1>4, ChannelRefs
<1>5. CASE DispatchSignaling \/ TakeSignalingReady
    BY <1>5, MessageRefs
<1>6. CASE UNCHANGED transportVars
    BY <1>6 DEF RefInv, TransportTypeOK, Entry, Users, Negotiated,
                transportVars, client, bits, worker, counts, queues
<1> QED
    BY <1>1, <1>2, <1>3, <1>4, <1>5, <1>6 DEF TransportNext

-----------------------------------------------------------------------------
\* The invariant holds throughout.
THEOREM RefsInvariant == TransportSpec => []RefInv
BY InitRefs, NextRefs, PTL DEF TransportSpec

\* Type correctness; that no entry ever has more than two users is part of it.
THEOREM TransportTypeCorrect == TransportSpec => []TransportTypeOK
<1>1. RefInv => TransportTypeOK
    BY DEF RefInv
<1> QED
    BY <1>1, RefsInvariant, PTL

\* Every channel that a proxy holds is there (CreateChannel_w,
\* DestroyChannel_w): no TransportChannelProxy calls a channel that is gone.
THEOREM ProxiesHold == TransportSpec => []Held
<1>1. RefInv => Held
    <2> SUFFICES ASSUME RefInv, NEW n \in Names PROVE Users(n) <= channels[n].ref
        BY DEF Held
    <2>1. Entry(n) /\ Users(n) \in Int
        BY DEF RefInv, Users
    <2> QED
        BY <2>1 DEF Entry
<1> QED
    BY <1>1, RefsInvariant, PTL

\* A step that takes the last user of an entry destroys its channel: what is
\* counted then is that user alone.
LEMMA LastUser ==
    ASSUME RefInv, NEW n \in Names, Users(n) > 0, Users(n)' = 0,
           [TransportNext]_transportVars
    PROVE  channels'[n].ref = 0
<1>1. /\ Entry(n) /\ TransportTypeOK /\ channels[n] \in Channel
      /\ proxies[n] \in {"none", "unset", "set"} /\ muxed[n] \in BOOLEAN
    BY DEF RefInv, TransportTypeOK
<1>2. ~UNCHANGED <<proxies, muxed>>
    BY DEF Users
<1>3. \/ Users(n)' >= Users(n)
      \/ \E m \in Names : DeleteProxy(m) \/ DeleteMuxed(m)
    <2>1. CASE SessionSteps
        <3>1. CompleteNegotiation \/ Mux
            BY <1>2, <2>1
               DEF SessionSteps, Speculate, AnswerSignaling, TimerFires, EndSession,
                   DestroyAllChannels, ClearWorker, ClearSignaling
        <3>2. CASE CompleteNegotiation
            BY <1>1, <3>2 DEF CompleteNegotiation, Proxied, Users
        <3>3. CASE Mux
            BY <1>1, <3>3 DEF Mux, Entry, Users
        <3> QED
            BY <3>1, <3>2, <3>3
    <2>2. ASSUME NEW m \in Names, CreateProxy(m)
          PROVE  Users(n)' >= Users(n)
        BY <1>1, <2>2 DEF CreateProxy, TransportTypeOK, Users
    <2>3. ~ \E m \in Names : ChannelReports(m)
        BY <1>2 DEF ChannelReports, ChannelReadable, ChannelWritable,
                    ChannelAllocates, ChannelCandidate, client
    <2>4. ~DispatchSignaling /\ ~TakeSignalingReady /\ ~OnSignalingReady
        BY <1>2 DEF DispatchSignaling, OnConnecting, OnChannelReadableState,
                    OnChannelWritableState, OnChannelRequestSignaling,
                    OnChannelCandidateReady, TakeSignalingReady,
                    OnSignalingReady, client
    <2>5. ~UNCHANGED transportVars
        BY <1>2 DEF transportVars, client
    <2> QED
        BY <2>1, <2>2, <2>3, <2>4, <2>5 DEF TransportNext
<1>4. PICK m \in Names : DeleteProxy(m) \/ DeleteMuxed(m)
    BY <1>1, <1>3 DEF Users
<1>5. m = n /\ Users(n) = 1 /\ channels' = Destroyed(n)
    BY <1>1, <1>4 DEF DeleteProxy, DeleteMuxed, TransportTypeOK, Users
<1>6. channels[n].ref <= 1
    BY <1>1, <1>5 DEF Entry
<1> QED
    BY <1>1, <1>5, <1>6, DestroyedEntry

\* A channel goes with the last proxy that holds it (DestroyChannel_w), and
\* none is left to go on when nobody can destroy it any more.
THEOREM ChannelsGo == TransportSpec => GoesWithLast
<1>1. RefInv /\ [TransportNext]_transportVars
        => [\A n \in Names : Users(n) > 0 /\ Users(n)' = 0
              => channels'[n].ref = 0]_transportVars
    BY LastUser
<1> QED
    BY <1>1, RefsInvariant, PTL DEF TransportSpec, GoesWithLast
-------------------------------------------------------------------------------
(***************************************************************************)
(* What a transport has still to say is always on its way to the signaling *)
(* thread: candidates that may be sent, and the request of a channel that  *)
(* waits for signaling.  Both are about messages of the queue between the  *)
(* two threads, of which each is taken once and in order; the lemmas say   *)
(* what posting and taking one leaves in it.                               *)
(***************************************************************************)

\* A channel that has anything to say is listened to.
Wired == \A n \in Names :
    channels[n].waiting \/ channels[n].allocated => channels[n].wires > 0

QueueInv == Wired /\ CandidatesGoOut /\ SignalingComing

\* One of the messages is of this kind.
Holds(s, kind) == \E i \in 1 .. Len(s) : s[i] = kind

LEMMA QueuedHolds ==
    /\ \A kind : Queued(kind) <=> Holds(signalQ, kind)
    /\ \A kind : Queued(kind)' <=> Holds(signalQ', kind)
BY DEF Queued, Holds

-----------------------------------------------------------------------------
\* Posting keeps what is there, and adds what is posted.
LEMMA HoldsConcat ==
    ASSUME NEW s \in Seq(Posted), NEW t \in Seq(Posted), NEW kind,
           Holds(s, kind) \/ Holds(t, kind)
    PROVE  Holds(s \o t, kind)
<1>1. /\ Len(s) \in Nat /\ Len(t) \in Nat /\ Len(s \o t) = Len(s) + Len(t)
      /\ \A i \in 1 .. Len(s) + Len(t) :
            (s \o t)[i] = IF i <= Len(s) THEN s[i] ELSE t[i - Len(s)]
    BY ConcatProperties, LenProperties
<1>2. ASSUME NEW i \in 1 .. Len(s), s[i] = kind PROVE Holds(s \o t, kind)
    <2>1. i \in 1 .. Len(s) + Len(t) /\ i <= Len(s)
        BY <1>1
    <2>2. (s \o t)[i] = kind
        BY <1>1, <1>2, <2>1
    <2> QED
        BY <1>1, <2>1, <2>2 DEF Holds
<1>3. ASSUME NEW i \in 1 .. Len(t), t[i] = kind PROVE Holds(s \o t, kind)
    <2> DEFINE j == i + Len(s)
    <2>1. j \in 1 .. Len(s) + Len(t) /\ ~(j <= Len(s)) /\ j - Len(s) = i
        BY <1>1
    <2>2. (s \o t)[j] = kind
        BY <1>1, <1>3, <2>1
    <2> QED
        BY <1>1, <2>1, <2>2 DEF Holds
<1> QED
    BY <1>2, <1>3 DEF Holds

\* Taking a message keeps those of the other kinds.
LEMMA HoldsTail ==
    ASSUME NEW s \in Seq(Posted), s # <<>>, NEW kind, Head(s) # kind,
           Holds(s, kind)
    PROVE  Holds(Tail(s), kind)
<1>1. PICK i \in 1 .. Len(s) : s[i] = kind
    BY DEF Holds
<1>2. /\ Len(s) \in Nat /\ Len(Tail(s)) = Len(s) - 1 /\ Head(s) = s[1]
      /\ \A j \in 1 .. Len(Tail(s)) : Tail(s)[j] = s[j + 1]
    BY HeadTailProperties, LenProperties
<1>3. i # 1
    BY <1>1, <1>2
<1>4. i - 1 \in 1 .. Len(Tail(s)) /\ (i - 1) + 1 = i
    BY <1>1, <1>2, <1>3
<1>5. Tail(s)[i - 1] = kind
    BY <1>1, <1>2, <1>4
<1> QED
    BY <1>4, <1>5 DEF Holds

LEMMA HoldsTimes ==
    ASSUME NEW k \in Nat, k > 0, NEW kind
    PROVE  Holds(Times(k, kind), kind)
<1>1. Len(Times(k, kind)) = k /\ Times(k, kind)[1] = kind /\ 1 \in 1 .. k
    BY DEF Times
<1> QED
    BY <1>1 DEF Holds

\* A channel that is listened to is heard.
LEMMA RequestsHold ==
    ASSUME NEW chs, NEW S \in SUBSET Names, NEW n \in S, chs[n].wires >= 1
    PROVE  Holds(RequestsOf(chs, S), "requestsignaling")
<1> DEFINE all == {x \in S \X (1 .. 2) : x[2] <= chs[x[1]].wires}
<1>1. IsFiniteSet(S)
    BY BoundsAssumption, FS_Subset
<1>2. IsFiniteSet(S \X (1 .. 2))
    <2>1. IsFiniteSet(1 .. 2)
        BY FS_Interval, 1 \in Int, 2 \in Int
    <2> QED
        BY <1>1, <2>1, FS_Product
<1>3. IsFiniteSet(all)
    BY <1>2, FS_Subset
<1>4. <<n, 1>> \in all
    <2>1. <<n, 1>> \in S \X (1 .. 2)
        OBVIOUS
    <2> QED
        BY <2>1
<1>5. Cardinality(all) \in Nat /\ Cardinality(all) # 0
    <2> HIDE DEF all
    <2> QED
        BY <1>3, <1>4, FS_CardinalityType, FS_EmptySet
<1>6. Cardinality(all) > 0
    BY <1>5
<1> QED
    BY <1>5, <1>6, HoldsTimes DEF RequestsOf

-----------------------------------------------------------------------------
\* A channel that is created while the transport connects waits, and asks.
LEMMA CreatedWaits ==
    ASSUME RefInv, Wired, NEW S \in SUBSET Names, NEW n \in Names,
           n \in S => channels[n].ref <= 1
    PROVE  LET ch == Created(channels, S)[n]
           IN  /\ ch.waiting => channels[n].waiting \/ (n \in S /\ connect_requested)
               /\ ch.waiting \/ ch.allocated => ch.wires > 0
               /\ n \in S => ch.wires >= 1
<1> DEFINE old == channels[n]
           new == Created(channels, S)[n]
<1>1. old \in Channel /\ TransportTypeOK
    BY DEF RefInv, TransportTypeOK
<1>2. /\ new \in Wide
      /\ new.wires = old.wires + (IF n \in S THEN 1 ELSE 0)
    BY <1>1, CreatedEntry
<1>3. /\ new.waiting = IF n \in S /\ connect_requested THEN TRUE ELSE old.waiting
      /\ new.allocated = old.allocated
    <2> DEFINE more == [old EXCEPT !.ref = old.ref + 1, !.wires = old.wires + 1]
    <2>1. new = IF n \in S
                THEN IF connect_requested THEN [more EXCEPT !.waiting = TRUE]
                                          ELSE more
                ELSE old
        BY <1>1 DEF Created, ConnectChannel, Channel
    <2> HIDE DEF old, new
    <2>2. more.waiting = old.waiting /\ more.allocated = old.allocated
        BY <1>1 DEF Channel
    <2>3. /\ [more EXCEPT !.waiting = TRUE].waiting = TRUE
          /\ [more EXCEPT !.waiting = TRUE].allocated = old.allocated
        BY <1>1 DEF Channel
    <2> HIDE DEF more
    <2> QED
        BY <2>1, <2>2, <2>3
<1>4. old.wires \in 0 .. 2
    BY <1>1 DEF Channel
<1>5. old.waiting \/ old.allocated => old.wires > 0
    BY DEF Wired
<1> HIDE DEF old, new
<1>6. n \in S => new.wires >= 1
    BY <1>2, <1>4
<1>7. new.waiting \/ new.allocated => new.wires > 0
    BY <1>2, <1>3, <1>4, <1>5
<1>8. new.waiting => old.waiting \/ (n \in S /\ connect_requested)
    BY <1>3
<1> QED
    BY <1>6, <1>7, <1>8 DEF old, new

LEMMA CreatePostsHold ==
    ASSUME NEW chs, NEW S \in SUBSET Names, NEW n \in S, chs[n].wires >= 1,
           connect_requested
    PROVE  Holds(CreatePosts(chs, S), "requestsignaling")
<1> DEFINE first == IF Cardinality(Open(chs)) = 1 THEN <<"connecting">> ELSE <<>>
<1>1. RequestsOf(chs, S) \in Seq(Posted)
    BY RequestsType
<1>2. first \in Seq(Posted)
    <2>1. <<"connecting">> \in Seq(Posted) /\ <<>> \in Seq(Posted)
        BY DEF Posted
    <2> HIDE DEF Posted
    <2> QED
        BY <2>1
<1>3. CreatePosts(chs, S) = RequestsOf(chs, S) \o first
    BY DEF CreatePosts
<1>4. Holds(RequestsOf(chs, S), "requestsignaling")
    BY RequestsHold
<1> QED
    BY <1>1, <1>2, <1>3, <1>4, HoldsConcat

\* Creating channels and connecting them: whoever begins to wait has asked, and
\* when the transport begins to connect its candidates are asked for.  All
\* slots are still connected to a channel that ConnectChannels finds.
LEMMA BeginWaits ==
    ASSUME RefInv, Wired, NEW S \in SUBSET Names, NEW c \in BOOLEAN, Begin(S, c),
           c => state # "bundled"
    PROVE  /\ Wired'
           /\ \A kind : Holds(signalQ, kind) => Holds(signalQ', kind)
           /\ \A n \in Names : channels'[n].waiting =>
                channels[n].waiting \/ Holds(signalQ', "requestsignaling")
           /\ connect_requested' =>
                connect_requested \/ Holds(signalQ', "candidateready")
<1> DEFINE new == S \ Open(channels)
           chs == Created(channels, new)
           starts == c /\ ~connect_requested /\ Open(chs) # {}
           all == RequestsOf(chs, Open(chs))
           made == CreatePosts(chs, new)
           told == IF starts
                   THEN <<"candidateready">> \o all \o <<"connecting">>
                   ELSE <<>>
<1>1. new \in SUBSET Names /\ Open(chs) \in SUBSET Names
    BY DEF Open
<1>2. \A n \in Names : channels[n].ref \in 0 .. 2 /\ channels[n].wires \in 0 .. 2
    BY DEF RefInv, TransportTypeOK, Channel
<1>3. \A n \in Names : n \in new => channels[n].ref <= 1
    BY <1>2 DEF Open
<1>4. /\ channels' = IF starts
                     THEN [n \in Names |-> IF n \in Open(chs)
                                           THEN ConnectChannel(chs[n]) ELSE chs[n]]
                     ELSE chs
      /\ connect_requested' = (connect_requested \/ starts)
      /\ signalQ' = (signalQ \o made) \o told
    BY DEF Begin
<1>5. /\ made \in Seq(Posted) /\ all \in Seq(Posted)
      /\ signalQ \in Seq(Posted)
    BY <1>1, CreatePostsType, RequestsType DEF RefInv, TransportTypeOK
<1>6. <<"candidateready">> \in Seq(Posted) /\ <<"connecting">> \in Seq(Posted)
      /\ <<>> \in Seq(Posted)
    BY DEF Posted
<1>7. Holds(<<"candidateready">>, "candidateready")
    BY DEF Holds
<1>8. ASSUME NEW n \in Names
      PROVE  /\ chs[n].waiting => channels[n].waiting \/ (n \in new /\ connect_requested)
             /\ chs[n].waiting \/ chs[n].allocated => chs[n].wires > 0
             /\ n \in new => chs[n].wires >= 1
             /\ chs[n] \in Wide
    BY <1>1, <1>3, CreatedWaits, CreatedEntry DEF RefInv
<1>9. ASSUME starts, NEW n \in Open(chs) PROVE chs[n].wires >= 1
    <2>1. /\ chs[n].ref = channels[n].ref + (IF n \in new THEN 1 ELSE 0)
          /\ chs[n].wires = channels[n].wires + (IF n \in new THEN 1 ELSE 0)
          /\ chs[n].ref > 0 /\ n \in Names
        BY <1>1, <1>3, <1>9, CreatedEntry DEF RefInv, Open
    <2>2. channels[n].wires = channels[n].ref
        BY <1>9, <2>1 DEF RefInv, Entry
    <2> QED
        BY <1>2, <2>1, <2>2
<1>10. told \in Seq(Posted) /\ signalQ \o made \in Seq(Posted)
    BY <1>5, <1>6, ConcatType
<1>11. \A n \in new : connect_requested => Holds(made, "requestsignaling")
    BY <1>1, <1>8, CreatePostsHold
<1>12. \A n \in Open(chs) : starts => Holds(all, "requestsignaling")
    BY <1>1, <1>9, RequestsHold
<1> HIDE DEF new, all, made, chs
<1>13. ASSUME starts PROVE Holds(told, "candidateready")
    BY <1>5, <1>6, <1>7, <1>13, HoldsConcat, ConcatType
<1>14. ASSUME starts, Holds(all, "requestsignaling")
       PROVE  Holds(told, "requestsignaling")
    BY <1>5, <1>6, <1>14, HoldsConcat, ConcatType
<1> HIDE DEF told, starts
<1>15. ASSUME NEW kind,
              Holds(signalQ, kind) \/ Holds(made, kind) \/ Holds(told, kind)
       PROVE  Holds(signalQ', kind)
    BY <1>4, <1>5, <1>10, <1>15, HoldsConcat
<1>16. ASSUME NEW n \in Names
       PROVE  /\ channels'[n].waiting \/ channels'[n].allocated
                   => channels'[n].wires > 0
              /\ channels'[n].waiting =>
                   \/ channels[n].waiting
                   \/ n \in new /\ connect_requested
                   \/ starts /\ n \in Open(chs)
    <2>1. CASE starts /\ n \in Open(chs)
        <3>1. channels'[n] = [chs[n] EXCEPT !.waiting = TRUE]
            BY <1>4, <2>1 DEF ConnectChannel
        <3>2. channels'[n].wires = chs[n].wires /\ chs[n].wires \in Int
            BY <1>8, <3>1 DEF Wide
        <3> QED
            BY <1>9, <2>1, <3>2
    <2>2. CASE starts /\ n \notin Open(chs)
        BY <1>4, <1>8, <2>2
    <2>3. CASE ~starts
        BY <1>4, <1>8, <2>3
    <2> QED
        BY <2>1, <2>2, <2>3
<1> QED
    BY <1>4, <1>11, <1>12, <1>13, <1>14, <1>15, <1>16 DEF Wired


-----------------------------------------------------------------------------
\* Nothing waits and nothing is posted in a session that has just been made.
LEMMA InitQueue == TransportInit => QueueInv
BY DEF TransportInit, QueueInv, Wired, Absent, CandidatesGoOut, SignalingComing

\* A step after which no more waits, and the queue still holds what it held.
LEMMA QuietStep ==
    ASSUME QueueInv,
           \A n \in Names :
              /\ channels'[n].waiting => channels[n].waiting
              /\ channels'[n].waiting \/ channels'[n].allocated
                   => channels'[n].wires > 0,
           UNCHANGED <<connect_requested, ready_candidates, toAnswer, toWorker>>,
           stage' = "live" => stage = "live",
           \A kind \in {"requestsignaling", "candidateready"} :
              Holds(signalQ, kind) => Holds(signalQ', kind)
    PROVE  QueueInv'
<1>1. Wired'
    BY DEF Wired
<1>2. CandidatesGoOut'
    BY QueuedHolds DEF QueueInv, CandidatesGoOut
<1>3. SignalingComing'
    BY QueuedHolds DEF QueueInv, SignalingComing, toWorker
<1> QED
    BY <1>1, <1>2, <1>3 DEF QueueInv

LEMMA BeginQueue ==
    ASSUME RefInv, QueueInv, NEW S \in SUBSET Names, NEW c \in BOOLEAN,
           Begin(S, c), c => state # "bundled", stage = "live",
           UNCHANGED <<ready_candidates, toAnswer, toWorker>>
    PROVE  QueueInv'
<1>1. /\ Wired'
      /\ \A kind : Holds(signalQ, kind) => Holds(signalQ', kind)
      /\ \A n \in Names : channels'[n].waiting =>
           channels[n].waiting \/ Holds(signalQ', "requestsignaling")
      /\ connect_requested' =>
           connect_requested \/ Holds(signalQ', "candidateready")
    BY BeginWaits DEF QueueInv
<1>2. CandidatesGoOut'
    BY <1>1, QueuedHolds DEF QueueInv, CandidatesGoOut
<1>3. SignalingComing'
    BY <1>1, QueuedHolds DEF QueueInv, SignalingComing, toWorker
<1> QED
    BY <1>1, <1>2, <1>3 DEF QueueInv

\* Steps of the session.
LEMMA SessionQueue ==
    ASSUME RefInv, QueueInv, SessionSteps \/ \E n \in Names : CreateProxy(n)
    PROVE  QueueInv'
<1>1. CASE Speculate
    BY <1>1, BeginQueue DEF Speculate, Proxied
<1>2. CASE CompleteNegotiation
    BY <1>2, BeginQueue DEF CompleteNegotiation, Negotiated, Proxied
<1>3. ASSUME NEW n \in Names, CreateProxy(n) PROVE QueueInv'
    <2> DEFINE S == IF state = "init" THEN {} ELSE {n}
    <2>1. Begin(S, FALSE) /\ S \in SUBSET Names
        BY <1>3 DEF CreateProxy
    <2> HIDE DEF S
    <2> QED
        BY <1>3, <2>1, BeginQueue DEF CreateProxy
<1>4. CASE Mux
    <2>1. /\ channels' = Created(channels, Proxied) /\ Proxied \in SUBSET Names
          /\ signalQ' = signalQ \o CreatePosts(channels', Proxied)
          /\ stage = "live" /\ state = "negotiated"
          /\ UNCHANGED <<connect_requested, ready_candidates, toAnswer, toWorker>>
        BY <1>4 DEF Mux, Proxied
    <2>2. \A n \in Names : channels[n].ref <= 1
        <3> SUFFICES ASSUME NEW n \in Names PROVE channels[n].ref <= 1
            OBVIOUS
        <3>1. Entry(n) /\ muxed[n] = FALSE
            BY <2>1 DEF RefInv, TransportTypeOK, Entry
        <3> QED
            BY <3>1 DEF Entry, Users
    <2>3. ASSUME NEW n \in Names
          PROVE  /\ channels'[n].waiting =>
                      channels[n].waiting \/ (n \in Proxied /\ connect_requested)
                 /\ channels'[n].waiting \/ channels'[n].allocated
                      => channels'[n].wires > 0
                 /\ n \in Proxied => channels'[n].wires >= 1
        BY <2>1, <2>2, CreatedWaits DEF QueueInv
    <2>4. /\ CreatePosts(channels', Proxied) \in Seq(Posted)
          /\ signalQ \in Seq(Posted)
        BY <2>1, CreatePostsType DEF RefInv, TransportTypeOK
    <2>5. ASSUME NEW kind,
                 Holds(signalQ, kind) \/ Holds(CreatePosts(channels', Proxied), kind)
          PROVE  Holds(signalQ', kind)
        BY <2>1, <2>4, <2>5, HoldsConcat
    <2>6. \A n \in Proxied : connect_requested =>
             Holds(CreatePosts(channels', Proxied), "requestsignaling")
        BY <2>1, <2>3, CreatePostsHold
    <2>7. Wired' /\ CandidatesGoOut'
        BY <2>1, <2>3, <2>5, QueuedHolds DEF Wired, QueueInv, CandidatesGoOut
    <2>8. SignalingComing'
        BY <2>1, <2>3, <2>5, <2>6, QueuedHolds
           DEF QueueInv, SignalingComing, toWorker
    <2> QED
        BY <2>7, <2>8 DEF QueueInv
<1>5. CASE AnswerSignaling
    <2>1. workQ' > 0
        BY <1>5 DEF AnswerSignaling, RefInv, TransportTypeOK
    <2> QED
        BY <1>5, <2>1, QueuedHolds
           DEF AnswerSignaling, QueueInv, Wired, CandidatesGoOut,
               SignalingComing, worker
<1>6. CASE TimerFires
    BY <1>6, QueuedHolds DEF TimerFires, QueueInv, Wired, CandidatesGoOut,
                             SignalingComing, worker, queues
<1>7. CASE EndSession \/ DestroyAllChannels \/ ClearWorker \/ ClearSignaling
    <2>1. stage' # "live" /\ (channels' = channels \/ DestroyAllChannels)
        BY <1>7 DEF EndSession, DestroyAllChannels, ClearWorker,
                    ClearSignaling, worker
    <2>2. ASSUME DestroyAllChannels PROVE Wired'
        <3> SUFFICES ASSUME NEW n \in Names
                     PROVE  channels'[n].waiting \/ channels'[n].allocated
                              => channels'[n].wires > 0
            BY DEF Wired
        <3>1. channels[n] \in Channel
            BY DEF RefInv, TransportTypeOK
        <3>2. channels'[n] = IF channels[n].ref > 1
                             THEN [channels[n] EXCEPT !.ref = @ - 1] ELSE Absent
            BY <2>2 DEF DestroyAllChannels
        <3> QED
            BY <3>1, <3>2 DEF QueueInv, Wired, Channel, Absent
    <2> QED
        BY <2>1, <2>2 DEF QueueInv, Wired, CandidatesGoOut, SignalingComing
<1> QED
    BY <1>1, <1>2, <1>3, <1>4, <1>5, <1>6, <1>7 DEF SessionSteps

\* A proxy lets go of its channel.
LEMMA DeleteQueue ==
    ASSUME RefInv, QueueInv, NEW m \in Names, DeleteProxy(m) \/ DeleteMuxed(m)
    PROVE  QueueInv'
<1>1. /\ \/ channels' = channels /\ signalQ' = signalQ
         \/ channels' = Destroyed(m) /\ signalQ' = signalQ \o DestroyPosts(m)
      /\ UNCHANGED <<stage, connect_requested, ready_candidates, toAnswer, toWorker>>
    BY DEF DeleteProxy, DeleteMuxed
<1>2. signalQ \in Seq(Posted) /\ DestroyPosts(m) \in Seq(Posted)
    BY DestroyPostsType DEF RefInv, TransportTypeOK
<1>3. ASSUME NEW n \in Names
      PROVE  /\ channels'[n].waiting => channels[n].waiting
             /\ channels'[n].waiting \/ channels'[n].allocated
                  => channels'[n].wires > 0
    <2>1. channels[n] \in Channel
        BY DEF RefInv, TransportTypeOK
    <2>2. channels[n].waiting \/ channels[n].allocated => channels[n].wires > 0
        BY DEF QueueInv, Wired
    <2>3. \/ channels'[n] = channels[n]
          \/ channels'[n] = [channels[n] EXCEPT !.ref = @ - 1]
          \/ channels'[n] = Absent
        BY <1>1 DEF Destroyed
    <2> QED
        BY <2>1, <2>2, <2>3 DEF Channel, Absent
<1>4. \A kind : Holds(signalQ, kind) => Holds(signalQ', kind)
    BY <1>1, <1>2, HoldsConcat
<1> QED
    BY <1>1, <1>3, <1>4, QuietStep

\* A message is taken: only the one that is taken is no longer there, and its
\* handler does what it was posted for.
LEMMA MessageTaken ==
    ASSUME RefInv, QueueInv, DispatchSignaling
    PROVE  QueueInv'
<1>1. ASSUME NEW kind, Arrives(kind), NEW other, other # kind,
             Holds(signalQ, other)
      PROVE  Holds(signalQ', other)
    BY <1>1, HoldsTail DEF Arrives, RefInv, TransportTypeOK
<1>2. channels' = channels /\ UNCHANGED <<stage, connect_requested, toWorker>>
    BY DEF DispatchSignaling, OnConnecting, OnChannelReadableState,
           OnChannelWritableState, OnChannelRequestSignaling,
           OnChannelCandidateReady, client, worker
<1>3. Wired'
    BY <1>2 DEF QueueInv, Wired
<1>4. ASSUME NEW kind \in Posted, Arrives(kind),
             UNCHANGED <<ready_candidates, toAnswer>>,
             kind \notin {"requestsignaling", "candidateready"}
      PROVE  QueueInv'
    BY <1>1, <1>2, <1>3, <1>4, QueuedHolds
       DEF QueueInv, CandidatesGoOut, SignalingComing, toWorker
<1>5. CASE OnConnecting \/ OnChannelReadableState \/ OnChannelWritableState
    BY <1>4, <1>5 DEF OnConnecting, OnChannelReadableState,
                      OnChannelWritableState, client, worker, Posted
<1>6. CASE OnChannelRequestSignaling
    <2>1. CandidatesGoOut'
        BY <1>1, <1>2, <1>6, QueuedHolds
           DEF OnChannelRequestSignaling, QueueInv, CandidatesGoOut, worker
    <2>2. SignalingComing'
        BY <1>6 DEF OnChannelRequestSignaling, SignalingComing
    <2> QED
        BY <1>3, <2>1, <2>2 DEF QueueInv
<1>7. CASE OnChannelCandidateReady
    <2>1. CandidatesGoOut'
        BY <1>7 DEF OnChannelCandidateReady, CandidatesGoOut
    <2>2. SignalingComing'
        BY <1>1, <1>2, <1>7, QueuedHolds
           DEF OnChannelCandidateReady, QueueInv, SignalingComing, toWorker
    <2> QED
        BY <1>3, <2>1, <2>2 DEF QueueInv
<1> QED
    BY <1>5, <1>6, <1>7 DEF DispatchSignaling

\* The worker: the answer reaches every channel that waits, and what a channel
\* reports is posted.
LEMMA WorkerQueue ==
    ASSUME RefInv, QueueInv, OnSignalingReady \/ \E n \in Names : ChannelReports(n)
    PROVE  QueueInv'
<1>1. ASSUME NEW n \in Names
      PROVE  /\ channels[n] \in Channel /\ channels[n].wires \in Nat
             /\ channels[n].waiting \/ channels[n].allocated
                  => channels[n].wires > 0
    <2>1. channels[n] \in Channel
        BY DEF RefInv, TransportTypeOK
    <2> QED
        BY <2>1 DEF QueueInv, Wired, Channel
<1>2. CASE OnSignalingReady
    <2>1. ASSUME NEW n \in Names
          PROVE  ~channels'[n].waiting /\
                 (channels'[n].allocated => channels'[n].wires > 0)
        <3>1. channels'[n] = IF channels[n].waiting
                THEN [channels[n] EXCEPT !.waiting = FALSE, !.allocated = TRUE]
                ELSE channels[n]
            BY <1>2 DEF OnSignalingReady
        <3> QED
            BY <1>1, <3>1 DEF Channel
    <2>2. UNCHANGED <<stage, signalQ, connect_requested, ready_candidates>>
        BY <1>2 DEF OnSignalingReady, client
    <2> QED
        BY <2>1, <2>2, QueuedHolds
           DEF QueueInv, Wired, CandidatesGoOut, SignalingComing
<1>3. ASSUME NEW m \in Names, ChannelReports(m) PROVE QueueInv'
    <2> DEFINE posts(kind) == Times(channels[m].wires, kind)
    <2>1. /\ Report(m) /\ channels[m].allocated
          /\ UNCHANGED <<stage, connect_requested, toAnswer, toWorker>>
        BY <1>3 DEF ChannelReports, ChannelReadable, ChannelWritable,
                    ChannelAllocates, ChannelCandidate, Report, client
    <2>2. channels[m].wires \in Nat /\ channels[m].wires > 0
        BY <1>1, <2>1
    <2>3. ASSUME NEW kind \in Posted, signalQ' = signalQ \o posts(kind)
          PROVE  /\ Holds(signalQ', kind)
                 /\ \A other : Holds(signalQ, other) => Holds(signalQ', other)
        <3>1. posts(kind) \in Seq(Posted) /\ Holds(posts(kind), kind)
            BY <2>2, TimesType, HoldsTimes
        <3>2. signalQ \in Seq(Posted)
            BY DEF RefInv, TransportTypeOK
        <3> QED
            BY <2>3, <3>1, <3>2, HoldsConcat
    <2> HIDE DEF posts
    <2>4. CASE ChannelReadable(m) \/ ChannelWritable(m)
        <3>1. \A n \in Names :
                 /\ channels'[n].waiting => channels[n].waiting
                 /\ channels'[n].waiting \/ channels'[n].allocated
                      => channels'[n].wires > 0
            <4> SUFFICES ASSUME NEW n \in Names
                PROVE /\ channels'[n].waiting = channels[n].waiting
                      /\ channels'[n].allocated = channels[n].allocated
                      /\ channels'[n].wires = channels[n].wires
                BY <1>1
            <4> DEFINE old == channels[m]
            <4>1. \/ channels' = [channels EXCEPT
                                    ![m] = [old EXCEPT !.readable = ~old.readable]]
                  \/ channels' = [channels EXCEPT
                                    ![m] = [old EXCEPT !.writable = ~old.writable]]
                BY <2>4 DEF ChannelReadable, ChannelWritable, RefInv, TransportTypeOK
            <4>2. ASSUME NEW b \in BOOLEAN
                  PROVE  /\ [old EXCEPT !.readable = b].waiting = old.waiting
                         /\ [old EXCEPT !.readable = b].allocated = old.allocated
                         /\ [old EXCEPT !.readable = b].wires = old.wires
                         /\ [old EXCEPT !.writable = b].waiting = old.waiting
                         /\ [old EXCEPT !.writable = b].allocated = old.allocated
                         /\ [old EXCEPT !.writable = b].wires = old.wires
                <5>1. old \in Channel
                    BY <1>1
                <5> HIDE DEF old
                <5> QED
                    BY <5>1 DEF Channel
            <4> HIDE DEF old
            <4>3. (~old.readable) \in BOOLEAN /\ (~old.writable) \in BOOLEAN
                OBVIOUS
            <4>4. PICK ch : /\ channels' = [channels EXCEPT ![m] = ch]
                            /\ ch.waiting = old.waiting
                            /\ ch.allocated = old.allocated
                            /\ ch.wires = old.wires
                BY <4>1, <4>2, <4>3
            <4>5. channels'[n] = IF n = m THEN ch ELSE channels[n]
                BY <4>4 DEF RefInv, TransportTypeOK
            <4> QED
                BY <4>4, <4>5 DEF old
        <3>2. \A other : Holds(signalQ, other) => Holds(signalQ', other)
            BY <2>3, <2>4 DEF ChannelReadable, ChannelWritable, posts, Posted
        <3>3. ready_candidates' = ready_candidates
            BY <2>4 DEF ChannelReadable, ChannelWritable
        <3> QED
            BY <2>1, <3>1, <3>2, <3>3, QuietStep
    <2>5. CASE ChannelAllocates(m)
        <3>1. /\ Holds(signalQ', "requestsignaling")
              /\ \A other : Holds(signalQ, other) => Holds(signalQ', other)
            BY <2>3, <2>5 DEF ChannelAllocates, posts, Posted
        <3>2. Wired'
            <4> SUFFICES ASSUME NEW n \in Names
                         PROVE  channels'[n].waiting \/ channels'[n].allocated
                                  => channels'[n].wires > 0
                BY DEF Wired
            <4>1. channels'[n] = IF n = m THEN [channels[m] EXCEPT !.waiting = TRUE]
                                          ELSE channels[n]
                BY <2>5 DEF ChannelAllocates, RefInv, TransportTypeOK
            <4> QED
                BY <1>1, <2>2, <4>1 DEF Channel
        <3>3. ready_candidates' = ready_candidates
            BY <2>5 DEF ChannelAllocates
        <3>4. CandidatesGoOut'
            BY <2>1, <3>1, <3>3, QueuedHolds DEF QueueInv, CandidatesGoOut
        <3>5. SignalingComing'
            BY <3>1, QueuedHolds DEF SignalingComing
        <3> QED
            BY <3>2, <3>4, <3>5 DEF QueueInv
    <2>6. CASE ChannelCandidate(m)
        <3>1. \/ ~connect_requested /\ signalQ' = signalQ
              \/ /\ Holds(signalQ', "candidateready")
                 /\ \A other : Holds(signalQ, other) => Holds(signalQ', other)
            BY <2>3, <2>6 DEF ChannelCandidate, posts, Posted, RefInv, TransportTypeOK
        <3>2. channels' = channels
            BY <2>6 DEF ChannelCandidate
        <3>3. CandidatesGoOut'
            BY <2>1, <3>1, QueuedHolds DEF CandidatesGoOut
        <3>4. SignalingComing' /\ Wired'
            BY <2>1, <3>1, <3>2, QueuedHolds
               DEF QueueInv, SignalingComing, Wired, toWorker
        <3> QED
            BY <3>3, <3>4 DEF QueueInv
    <2> QED
        BY <1>3, <2>4, <2>5, <2>6 DEF ChannelReports
<1> QED
    BY <1>2, <1>3

LEMMA NextQueue == RefInv /\ QueueInv /\ [TransportNext]_transportVars => QueueInv'
<1> SUFFICES ASSUME RefInv, QueueInv, [TransportNext]_transportVars PROVE QueueInv'
    OBVIOUS
<1>1. CASE SessionSteps \/ \E n \in Names : CreateProxy(n)
    BY <1>1, SessionQueue
<1>2. ASSUME NEW n \in Names, DeleteProxy(n) \/ DeleteMuxed(n) PROVE QueueInv'
    BY <1>2, DeleteQueue
<1>3. CASE OnSignalingReady \/ \E n \in Names : ChannelReports(n)
    BY <1>3, WorkerQueue
<1>4. CASE DispatchSignaling
    BY <1>4, MessageTaken
<1>6. CASE TakeSignalingReady
    BY <1>6, QueuedHolds DEF TakeSignalingReady, QueueInv, Wired, CandidatesGoOut,
                             SignalingComing, client, worker
<1>5. CASE UNCHANGED transportVars
    BY <1>5, QueuedHolds DEF QueueInv, Wired, CandidatesGoOut, SignalingComing,
                             transportVars, client, worker, queues
<1> QED
    BY <1>1, <1>2, <1>3, <1>4, <1>5, <1>6 DEF TransportNext

-----------------------------------------------------------------------------
\* The invariant of the queue holds throughout, with that of the entries.
THEOREM QueueInvariant == TransportSpec => []QueueInv
BY InitQueue, NextQueue, RefsInvariant, PTL DEF TransportSpec

\* Candidates that may be sent never wait for the next one: a message that
\* takes them is in the queue (ConnectChannels_w, OnChannelCandidateReady).
THEOREM CandidatesLeave == TransportSpec => []CandidatesGoOut
<1>1. QueueInv => CandidatesGoOut
    BY DEF QueueInv
<1> QED
    BY <1>1, QueueInvariant, PTL

\* No channel that waits for signaling is forgotten: its request, the client's
\* duty to answer, or the answer is on its way (Connect, ChannelAllocates,
\* OnChannelRequestSignaling, SignalingReady).
THEOREM NoRequestForgotten == TransportSpec => []SignalingComing
<1>1. QueueInv => SignalingComing
    BY DEF QueueInv
<1> QED
    BY <1>1, QueueInvariant, PTL
-------------------------------------------------------------------------------
(***************************************************************************)
(* The signaling thread's picture of a transport: writable() agrees with   *)
(* the channels but for the messages that are on their way, and the        *)
(* session is timed exactly while it has to be.  What the session sees is  *)
(* writable, not the channels; so the timer is related to that first       *)
(* (Timed), and to the channels by way of WritableIsOr.                    *)
(***************************************************************************)

\* Nothing happens on a channel before the transport connects.
Bits ==
    /\ \A n \in Names :
          /\ channels[n].writable => channels[n].ref > 0
          /\ channels[n].waiting \/ channels[n].allocated \/ channels[n].writable
               => connect_requested
    /\ writable_ \/ Queued("connecting") => connect_requested
    /\ state = "init" => ~connect_requested

\* The timer and what the session knows.
Timed ==
    stage = "live" /\ ~Queued("connecting") =>
        /\ connect_requested /\ HasChannels /\ ~writable_ => timer \/ error
        /\ timer => connect_requested /\ HasChannels /\ ~writable_

WatchInv == Bits /\ WritableIsOr /\ Timed

-----------------------------------------------------------------------------
\* A message in the queue was there or has just been posted.
LEMMA HoldsParts ==
    ASSUME NEW s \in Seq(Posted), NEW t \in Seq(Posted), NEW kind,
           Holds(s \o t, kind)
    PROVE  Holds(s, kind) \/ Holds(t, kind)
<1>1. /\ Len(s) \in Nat /\ Len(t) \in Nat /\ Len(s \o t) = Len(s) + Len(t)
      /\ \A i \in 1 .. Len(s) + Len(t) :
            (s \o t)[i] = IF i <= Len(s) THEN s[i] ELSE t[i - Len(s)]
    BY ConcatProperties, LenProperties
<1>2. PICK i \in 1 .. Len(s) + Len(t) : (s \o t)[i] = kind
    BY <1>1 DEF Holds
<1>3. CASE i <= Len(s)
    <2>1. i \in 1 .. Len(s) /\ s[i] = kind
        BY <1>1, <1>2, <1>3
    <2> QED
        BY <2>1 DEF Holds
<1>4. CASE ~(i <= Len(s))
    <2>1. i - Len(s) \in 1 .. Len(t) /\ t[i - Len(s)] = kind
        BY <1>1, <1>2, <1>4
    <2> QED
        BY <2>1 DEF Holds
<1> QED
    BY <1>3, <1>4

\* Taking a message adds none.
LEMMA TailHolds ==
    ASSUME NEW s \in Seq(Posted), s # <<>>, NEW kind, Holds(Tail(s), kind)
    PROVE  Holds(s, kind)
<1>1. /\ Len(s) \in Nat /\ Len(Tail(s)) = Len(s) - 1
      /\ \A j \in 1 .. Len(Tail(s)) : Tail(s)[j] = s[j + 1]
    BY HeadTailProperties, LenProperties
<1>2. PICK j \in 1 .. Len(Tail(s)) : Tail(s)[j] = kind
    BY DEF Holds
<1>3. j + 1 \in 1 .. Len(s) /\ s[j + 1] = kind
    BY <1>1, <1>2
<1> QED
    BY <1>3 DEF Holds

\* HasChannels and AnyWritable, of the channels before and after a step.
LEMMA AnyChannel ==
    /\ HasChannels <=> \E n \in Names : channels[n].ref > 0
    /\ HasChannels' <=> \E n \in Names : channels'[n].ref > 0
    /\ Bits => (AnyWritable(channels) <=> \E n \in Names : channels[n].writable)
    /\ Bits' => (AnyWritable(channels') <=> \E n \in Names : channels'[n].writable)
BY DEF HasChannels, Open, AnyWritable, Bits

LEMMA SameOr ==
    ASSUME Bits, Bits',
           \A n \in Names : channels'[n].writable <=> channels[n].writable
    PROVE  AnyWritable(channels') = AnyWritable(channels)
<1>1. AnyWritable(channels') <=> AnyWritable(channels)
    BY AnyChannel
<1> QED
    BY <1>1 DEF AnyWritable

-----------------------------------------------------------------------------
LEMMA InitWatch == TransportInit => WatchInv
<1> SUFFICES ASSUME TransportInit PROVE WatchInv
    OBVIOUS
<1>1. \A kind : ~Queued(kind)
    BY DEF TransportInit, Queued
<1>2. \A n \in Names : channels[n] = Absent
    BY DEF TransportInit
<1>3. Bits
    BY <1>1, <1>2 DEF TransportInit, Bits, Absent
<1>4. WritableIsOr /\ Timed
    BY <1>2 DEF TransportInit, WritableIsOr, Timed, AnyWritable, Absent, Open
<1> QED
    BY <1>3, <1>4 DEF WatchInv

\* A step that changes neither what the session knows nor the bits it is about,
\* and takes none of the messages that say so.
LEMMA SameWatch ==
    ASSUME WatchInv,
           \A n \in Names :
              /\ channels'[n].writable <=> channels[n].writable
              /\ channels'[n].ref > 0 <=> channels[n].ref > 0
              /\ channels'[n].waiting \/ channels'[n].allocated
                   => connect_requested,
           UNCHANGED <<writable_, timer, error, connect_requested>>,
           stage' = "live" => stage = "live",
           state' = "init" => state = "init",
           \A kind \in {"connecting", "writestate"} :
              Holds(signalQ, kind) => Holds(signalQ', kind),
           Holds(signalQ', "connecting") => connect_requested
    PROVE  WatchInv'
<1>1. Bits'
    <2>1. \A n \in Names :
             /\ channels'[n].writable => channels'[n].ref > 0
             /\ channels'[n].waiting \/ channels'[n].allocated \/ channels'[n].writable
                  => connect_requested'
        BY DEF WatchInv, Bits
    <2>2. /\ writable_' \/ Queued("connecting")' => connect_requested'
          /\ state' = "init" => ~connect_requested'
        BY QueuedHolds DEF WatchInv, Bits
    <2> QED
        BY <2>1, <2>2 DEF Bits
<1>2. WritableIsOr'
    <2>1. AnyWritable(channels') = AnyWritable(channels)
        BY <1>1, SameOr DEF WatchInv
    <2>2. Queued("writestate") => Queued("writestate")'
        BY QueuedHolds
    <2> QED
        BY <2>1, <2>2 DEF WatchInv, WritableIsOr
<1>3. Timed'
    BY QueuedHolds, AnyChannel DEF WatchInv, Timed
<1> QED
    BY <1>1, <1>2, <1>3 DEF WatchInv

-----------------------------------------------------------------------------
\* What a channel that is created shows does not change.
LEMMA CreatedBits ==
    ASSUME RefInv, NEW S \in SUBSET Names, NEW n \in Names,
           n \in S => channels[n].ref <= 1
    PROVE  LET ch == Created(channels, S)[n]
           IN  /\ ch \in Wide
               /\ ch.ref = channels[n].ref + (IF n \in S THEN 1 ELSE 0)
               /\ ch.writable = channels[n].writable
               /\ ch.allocated = channels[n].allocated
               /\ ch.waiting => channels[n].waiting \/ connect_requested
<1> DEFINE old == channels[n]
           new == Created(channels, S)[n]
           more == [old EXCEPT !.ref = old.ref + 1, !.wires = old.wires + 1]
<1>1. old \in Channel /\ TransportTypeOK
    BY DEF RefInv, TransportTypeOK
<1>2. /\ new \in Wide
      /\ new.ref = old.ref + (IF n \in S THEN 1 ELSE 0)
    BY <1>1, CreatedEntry
<1>3. new = IF n \in S
            THEN IF connect_requested THEN [more EXCEPT !.waiting = TRUE] ELSE more
            ELSE old
    BY <1>1 DEF Created, ConnectChannel, Channel
<1> HIDE DEF old, new
<1>4. /\ more.writable = old.writable /\ more.allocated = old.allocated
      /\ more.waiting = old.waiting
    BY <1>1 DEF Channel
<1>5. /\ [more EXCEPT !.waiting = TRUE].writable = old.writable
      /\ [more EXCEPT !.waiting = TRUE].allocated = old.allocated
    BY <1>1 DEF Channel
<1> HIDE DEF more
<1>6. /\ new.writable = old.writable /\ new.allocated = old.allocated
      /\ new.waiting => old.waiting \/ connect_requested
    BY <1>3, <1>4, <1>5
<1> QED
    BY <1>2, <1>6 DEF old, new

\* The first channel of a transport that connects is announced.
LEMMA FirstAnnounced ==
    ASSUME RefInv, NEW m \in Names, connect_requested, ~HasChannels
    PROVE  Holds(CreatePosts(Created(channels, {m}), {m}), "connecting")
<1> DEFINE chs == Created(channels, {m})
<1>1. \A n \in Names : channels[n].ref = 0
    <2> SUFFICES ASSUME NEW n \in Names PROVE channels[n].ref = 0
        OBVIOUS
    <2>1. channels[n].ref \in 0 .. 2
        BY DEF RefInv, TransportTypeOK, Channel
    <2> QED
        BY <2>1, AnyChannel
<1>2. Open(chs) = {m}
    <2>1. \A n \in Names : chs[n].ref = IF n = m THEN 1 ELSE 0
        BY <1>1, CreatedBits
    <2> HIDE DEF chs
    <2> QED
        BY <2>1 DEF Open
<1>3. Cardinality({m}) = 1
    BY FS_Singleton
<1>4. CreatePosts(chs, {m}) = RequestsOf(chs, {m}) \o <<"connecting">>
    BY <1>2, <1>3 DEF CreatePosts
<1>5. RequestsOf(chs, {m}) \in Seq(Posted)
    BY RequestsType
<1>6. <<"connecting">> \in Seq(Posted) /\ Holds(<<"connecting">>, "connecting")
    BY DEF Posted, Holds
<1> QED
    BY <1>4, <1>5, <1>6, HoldsConcat

\* Creating channels and connecting them.  A transport that connects already is
\* given one channel at most, so that none of them is first unannounced.
LEMMA BeginBits ==
    ASSUME RefInv, Bits, NEW S \in SUBSET Names, NEW c \in BOOLEAN, Begin(S, c),
           connect_requested =>
              S \subseteq Open(channels) \/ \E m \in Names : S = {m}
    PROVE  /\ \A n \in Names :
                /\ channels'[n].writable <=> channels[n].writable
                /\ channels[n].ref > 0 => channels'[n].ref > 0
                /\ channels'[n].waiting \/ channels'[n].allocated
                     => connect_requested'
           /\ connect_requested => connect_requested'
           /\ connect_requested' /\ ~connect_requested
                => c /\ Holds(signalQ', "connecting")
           /\ \A kind : Holds(signalQ, kind) => Holds(signalQ', kind)
           /\ ~connect_requested' => signalQ' = signalQ
           /\ connect_requested /\ ~HasChannels /\ HasChannels'
                => Holds(signalQ', "connecting")
<1> DEFINE new == S \ Open(channels)
           chs == Created(channels, new)
           starts == c /\ ~connect_requested /\ Open(chs) # {}
           all == RequestsOf(chs, Open(chs))
           made == CreatePosts(chs, new)
           told == IF starts
                   THEN <<"candidateready">> \o all \o <<"connecting">>
                   ELSE <<>>
<1>1. new \in SUBSET Names /\ Open(chs) \in SUBSET Names
    BY DEF Open
<1>2. \A n \in Names : channels[n].ref \in 0 .. 2
    BY DEF RefInv, TransportTypeOK, Channel
<1>3. \A n \in Names : n \in new => channels[n].ref <= 1
    BY <1>2 DEF Open
<1>4. /\ channels' = IF starts
                     THEN [n \in Names |-> IF n \in Open(chs)
                                           THEN ConnectChannel(chs[n]) ELSE chs[n]]
                     ELSE chs
      /\ connect_requested' = (connect_requested \/ starts)
      /\ signalQ' = (signalQ \o made) \o told
    BY DEF Begin
<1>5. made \in Seq(Posted) /\ all \in Seq(Posted) /\ signalQ \in Seq(Posted)
    BY <1>1, CreatePostsType, RequestsType DEF RefInv, TransportTypeOK
<1>6. /\ <<"candidateready">> \in Seq(Posted) /\ <<"connecting">> \in Seq(Posted)
      /\ <<>> \in Seq(Posted) /\ Holds(<<"connecting">>, "connecting")
    BY DEF Posted, Holds
<1>7. ASSUME NEW n \in Names
      PROVE  /\ chs[n] \in Wide
             /\ chs[n].ref = channels[n].ref + (IF n \in new THEN 1 ELSE 0)
             /\ chs[n].writable = channels[n].writable
             /\ chs[n].allocated = channels[n].allocated
             /\ chs[n].waiting => channels[n].waiting \/ connect_requested
    BY <1>1, <1>3, CreatedBits
<1>8. told \in Seq(Posted) /\ signalQ \o made \in Seq(Posted)
    BY <1>5, <1>6, ConcatType
<1>9. ~connect_requested => made = <<>>
    BY DEF CreatePosts
<1>10. ASSUME starts PROVE Holds(told, "connecting")
    <2>1. told = (<<"candidateready">> \o all) \o <<"connecting">>
        BY <1>5, <1>6, <1>10, ConcatAssociative
    <2>2. <<"candidateready">> \o all \in Seq(Posted)
        BY <1>5, <1>6, ConcatType
    <2> QED
        BY <1>6, <2>1, <2>2, HoldsConcat
<1>11. ASSUME connect_requested, ~HasChannels, HasChannels'
       PROVE  Holds(made, "connecting")
    <2>1. channels' = chs /\ Open(channels) = {} /\ Open(chs) # {}
        BY <1>4, <1>11 DEF HasChannels
    <2>2. new = S
        BY <2>1
    <2>3. S # {}
        <3>1. PICK n \in Names : chs[n].ref > 0
            BY <2>1 DEF Open
        <3>2. channels[n].ref = 0
            BY <1>2, <2>1 DEF Open
        <3> QED
            BY <1>7, <2>2, <3>1, <3>2
    <2>4. PICK m \in Names : S = {m}
        BY <1>11, <2>1, <2>3
    <2> QED
        BY <1>11, <2>2, <2>4, FirstAnnounced
<1> HIDE DEF new, all, made, chs
<1>12. ASSUME NEW n \in Names
       PROVE  /\ channels'[n].writable <=> channels[n].writable
              /\ channels[n].ref > 0 => channels'[n].ref > 0
              /\ channels'[n].waiting \/ channels'[n].allocated
                   => connect_requested'
    <2>1. channels[n].waiting \/ channels[n].allocated => connect_requested
        BY DEF Bits
    <2>2. channels[n].ref > 0 => chs[n].ref > 0
        BY <1>2, <1>7
    <2>3. CASE starts /\ n \in Open(chs)
        <3>1. channels'[n] = [chs[n] EXCEPT !.waiting = TRUE]
            BY <1>4, <2>3 DEF ConnectChannel
        <3>2. /\ channels'[n].writable = chs[n].writable
              /\ channels'[n].ref = chs[n].ref
            BY <1>7, <3>1 DEF Wide
        <3> QED
            BY <1>4, <1>7, <2>2, <2>3, <3>2
    <2>4. CASE ~(starts /\ n \in Open(chs))
        <3>1. channels'[n] = chs[n]
            BY <1>4, <2>4
        <3> QED
            BY <1>4, <1>7, <2>1, <2>2, <3>1
    <2> QED
        BY <2>3, <2>4
<1> HIDE DEF told
<1>13. ASSUME NEW kind,
              Holds(signalQ, kind) \/ Holds(made, kind) \/ Holds(told, kind)
       PROVE  Holds(signalQ', kind)
    BY <1>4, <1>5, <1>8, <1>13, HoldsConcat
<1>14. ~connect_requested' => signalQ' = signalQ
    <2> SUFFICES ASSUME ~connect_requested' PROVE signalQ' = signalQ
        OBVIOUS
    <2>1. ~starts /\ ~connect_requested
        BY <1>4
    <2>2. made = <<>> /\ told = <<>>
        BY <1>9, <2>1 DEF told
    <2> QED
        BY <1>4, <1>5, <2>2
<1> QED
    BY <1>4, <1>10, <1>11, <1>12, <1>13, <1>14

\* ... and what the session comes to know of it.
LEMMA BeginWatch ==
    ASSUME RefInv, WatchInv, NEW S \in SUBSET Names, NEW c \in BOOLEAN,
           Begin(S, c),
           connect_requested =>
              S \subseteq Open(channels) \/ \E m \in Names : S = {m},
           stage = "live",
           state' = "init" => state = "init" /\ ~c,
           UNCHANGED <<stage, writable_, timer, error>>
    PROVE  WatchInv'
<1>1. /\ \A n \in Names :
           /\ channels'[n].writable <=> channels[n].writable
           /\ channels[n].ref > 0 => channels'[n].ref > 0
           /\ channels'[n].waiting \/ channels'[n].allocated
                => connect_requested'
      /\ connect_requested => connect_requested'
      /\ connect_requested' /\ ~connect_requested
           => c /\ Holds(signalQ', "connecting")
      /\ \A kind : Holds(signalQ, kind) => Holds(signalQ', kind)
      /\ ~connect_requested' => signalQ' = signalQ
      /\ connect_requested /\ ~HasChannels /\ HasChannels'
           => Holds(signalQ', "connecting")
    BY BeginBits DEF WatchInv
<1>2. Bits'
    <2>1. \A n \in Names :
             /\ channels'[n].writable => channels'[n].ref > 0
             /\ channels'[n].waiting \/ channels'[n].allocated \/ channels'[n].writable
                  => connect_requested'
        BY <1>1 DEF WatchInv, Bits
    <2>2. writable_' => connect_requested'
        BY <1>1 DEF WatchInv, Bits
    <2>3. Holds(signalQ', "connecting") => connect_requested'
        BY <1>1, QueuedHolds DEF WatchInv, Bits
    <2>4. state' = "init" => ~connect_requested'
        BY <1>1 DEF WatchInv, Bits
    <2> QED
        BY <2>1, <2>2, <2>3, <2>4, QueuedHolds DEF Bits
<1>3. WritableIsOr'
    <2>1. AnyWritable(channels') = AnyWritable(channels)
        BY <1>1, <1>2, SameOr DEF WatchInv
    <2>2. \A kind : Queued(kind) => Queued(kind)'
        BY <1>1, QueuedHolds
    <2> QED
        BY <2>1, <2>2 DEF WatchInv, WritableIsOr
<1>4. Timed'
    <2>1. HasChannels => HasChannels'
        BY <1>1, AnyChannel
    <2> QED
        BY <1>1, <2>1, QueuedHolds DEF WatchInv, Timed
<1> QED
    BY <1>2, <1>3, <1>4 DEF WatchInv

-----------------------------------------------------------------------------
\* Steps of the session.
LEMMA SessionWatch ==
    ASSUME RefInv, QueueInv, WatchInv,
           SessionSteps \/ \E n \in Names : CreateProxy(n)
    PROVE  WatchInv'
<1>1. CASE Speculate
    <2>1. Begin(Proxied, TRUE) /\ Proxied \in SUBSET Names
        BY <1>1 DEF Speculate, Proxied
    <2>2. ~connect_requested
        BY <1>1 DEF Speculate, WatchInv, Bits
    <2> QED
        BY <1>1, <2>1, <2>2, BeginWatch DEF Speculate, bits
<1>2. CASE CompleteNegotiation
    <2>1. Begin(Proxied, TRUE) /\ Proxied \in SUBSET Names
        BY <1>2 DEF CompleteNegotiation, Proxied
    <2>2. ASSUME connect_requested, NEW n \in Proxied PROVE n \in Open(channels)
        <3>1. n \in Names /\ proxies[n] = "unset" /\ state = "connecting"
            BY <1>2, <2>2 DEF CompleteNegotiation, Proxied, RefInv, TransportTypeOK, Entry,
                              WatchInv, Bits, Negotiated
        <3> QED
            BY <3>1 DEF RefInv, Entry, Open
    <2> QED
        BY <1>2, <2>1, <2>2, BeginWatch DEF CompleteNegotiation, bits
<1>3. ASSUME NEW n \in Names, CreateProxy(n) PROVE WatchInv'
    <2> DEFINE S == IF state = "init" THEN {} ELSE {n}
    <2>1. Begin(S, FALSE) /\ S \in SUBSET Names
        BY <1>3 DEF CreateProxy
    <2>2. S \subseteq Open(channels) \/ \E m \in Names : S = {m}
        OBVIOUS
    <2> HIDE DEF S
    <2> QED
        BY <1>3, <2>1, <2>2, BeginWatch DEF CreateProxy, bits
<1>4. CASE Mux
    <2>1. /\ channels' = Created(channels, Proxied) /\ Proxied \in SUBSET Names
          /\ signalQ' = signalQ \o CreatePosts(channels', Proxied)
          /\ stage = "live" /\ state = "negotiated" /\ state' = "bundled"
          /\ UNCHANGED <<stage, connect_requested, writable_, timer, error>>
        BY <1>4 DEF Mux, Proxied, bits
    <2>2. \A n \in Names : channels[n].ref <= 1 /\ channels[n].ref \in Nat
        <3> SUFFICES ASSUME NEW n \in Names
                     PROVE  channels[n].ref <= 1 /\ channels[n].ref \in Nat
            OBVIOUS
        <3>1. Entry(n) /\ muxed[n] = FALSE
            BY <2>1 DEF RefInv, TransportTypeOK, Entry
        <3> QED
            BY <3>1 DEF Entry, Users
    <2>3. \A n \in Proxied : channels[n].ref > 0
        <3> SUFFICES ASSUME NEW n \in Names, proxies[n] # "none"
                     PROVE  channels[n].ref > 0
            BY DEF Proxied
        <3>1. Entry(n) /\ proxies[n] = "set" /\ muxed[n] = FALSE
            BY <2>1 DEF RefInv, TransportTypeOK, Entry, Negotiated
        <3> QED
            BY <3>1 DEF Entry, Users
    <2>4. ASSUME NEW n \in Names
          PROVE  /\ channels'[n].writable <=> channels[n].writable
                 /\ channels'[n].ref > 0 <=> channels[n].ref > 0
                 /\ channels'[n].waiting \/ channels'[n].allocated
                      => connect_requested
        <3>1. /\ channels'[n].ref = channels[n].ref + (IF n \in Proxied THEN 1 ELSE 0)
              /\ channels'[n].writable = channels[n].writable
              /\ channels'[n].allocated = channels[n].allocated
              /\ channels'[n].waiting => channels[n].waiting \/ connect_requested
            BY <2>1, <2>2, CreatedBits
        <3>2. channels'[n].ref > 0 <=> channels[n].ref > 0
            BY <2>2, <2>3, <3>1
        <3>3. channels[n].waiting \/ channels[n].allocated => connect_requested
            BY DEF WatchInv, Bits
        <3> QED
            BY <3>1, <3>2, <3>3
    <2>5. /\ CreatePosts(channels', Proxied) \in Seq(Posted)
          /\ signalQ \in Seq(Posted)
        BY <2>1, CreatePostsType DEF RefInv, TransportTypeOK
    <2>6. \A kind : Holds(signalQ, kind) => Holds(signalQ', kind)
        BY <2>1, <2>5, HoldsConcat
    <2>7. Holds(signalQ', "connecting") => connect_requested
        <3>1. CASE ~connect_requested
            <4>1. signalQ' = signalQ
                BY <2>1, <2>5, <3>1 DEF CreatePosts
            <4> QED
                BY <4>1, QueuedHolds DEF WatchInv, Bits
        <3> QED
            BY <3>1
    <2> QED
        BY <2>1, <2>4, <2>6, <2>7, SameWatch
<1>5. CASE AnswerSignaling
    BY <1>5, SameWatch, QueuedHolds
       DEF AnswerSignaling, worker, bits, WatchInv, Bits
<1>6. CASE TimerFires
    <2>1. Bits' /\ WritableIsOr'
        BY <1>6, QueuedHolds DEF TimerFires, worker, queues, bits, WatchInv, Bits,
                                 WritableIsOr
    <2>2. Timed'
        BY <1>6 DEF TimerFires, Timed
    <2> QED
        BY <2>1, <2>2 DEF WatchInv
<1>7. CASE EndSession \/ DestroyAllChannels \/ ClearWorker \/ ClearSignaling
    <2>1. /\ stage' # "live" /\ UNCHANGED <<writable_, connect_requested, state>>
          /\ signalQ' = signalQ \/ signalQ' = <<>>
          /\ channels' = channels \/ DestroyAllChannels
        BY <1>7 DEF EndSession, DestroyAllChannels, ClearWorker,
                    ClearSignaling, worker, queues, bits
    <2>2. ASSUME NEW n \in Names
          PROVE  /\ channels'[n].writable => channels'[n].ref > 0
                 /\ channels'[n].waiting \/ channels'[n].allocated
                        \/ channels'[n].writable => connect_requested
        <3>1. channels[n] \in Channel
            BY DEF RefInv, TransportTypeOK
        <3>2. /\ channels[n].writable => channels[n].ref > 0
              /\ channels[n].waiting \/ channels[n].allocated
                     \/ channels[n].writable => connect_requested
            BY DEF WatchInv, Bits
        <3>3. \/ channels'[n] = channels[n]
              \/ /\ channels[n].ref > 1
                 /\ channels'[n] = [channels[n] EXCEPT !.ref = @ - 1]
              \/ channels'[n] = Absent
            BY <2>1 DEF DestroyAllChannels
        <3> QED
            BY <3>1, <3>2, <3>3 DEF Channel, Absent
    <2>3. ~Holds(<<>>, "connecting")
        BY DEF Holds
    <2>4. Bits'
        <3>1. writable_' \/ Queued("connecting")' => connect_requested'
            BY <2>1, <2>3, QueuedHolds DEF WatchInv, Bits
        <3>2. state' = "init" => ~connect_requested'
            BY <2>1 DEF WatchInv, Bits
        <3> QED
            BY <2>1, <2>2, <3>1, <3>2 DEF Bits
    <2> QED
        BY <2>1, <2>4 DEF WatchInv, WritableIsOr, Timed
<1> QED
    BY <1>1, <1>2, <1>3, <1>4, <1>5, <1>6, <1>7 DEF SessionSteps

\* A proxy lets go of its channel.  The last user of a channel has it looked at
\* again whether the transport is writable, and the last channel of a transport
\* whether it has to be timed.
LEMMA DeleteWatch ==
    ASSUME RefInv, WatchInv, NEW m \in Names, DeleteProxy(m) \/ DeleteMuxed(m)
    PROVE  WatchInv'
<1> DEFINE left == Open(Destroyed(m))
           last == IF connect_requested /\ left = {} THEN <<"connecting">> ELSE <<>>
<1>1. /\ \/ channels' = channels /\ signalQ' = signalQ
         \/ channels' = Destroyed(m) /\ signalQ' = signalQ \o DestroyPosts(m)
      /\ UNCHANGED <<stage, state, connect_requested, writable_, timer, error>>
    BY DEF DeleteProxy, DeleteMuxed, bits
<1>2. signalQ \in Seq(Posted) /\ DestroyPosts(m) \in Seq(Posted)
    BY DestroyPostsType DEF RefInv, TransportTypeOK
<1>3. \A kind : Holds(signalQ, kind) => Holds(signalQ', kind)
    BY <1>1, <1>2, HoldsConcat
<1>4. ASSUME NEW n \in Names
      PROVE  /\ channels[n] \in Channel
             /\ channels[n].writable => channels[n].ref > 0
             /\ channels[n].waiting \/ channels[n].allocated
                    \/ channels[n].writable => connect_requested
    BY DEF RefInv, TransportTypeOK, WatchInv, Bits
<1>5. CASE channels' = channels /\ signalQ' = signalQ
    <2>1. Holds(signalQ', "connecting") => connect_requested
        BY <1>5, QueuedHolds DEF WatchInv, Bits
    <2> QED
        BY <1>1, <1>4, <1>5, <2>1, SameWatch
<1>6. ASSUME channels' = Destroyed(m), signalQ' = signalQ \o DestroyPosts(m)
      PROVE  WatchInv'
    <2>1. ASSUME NEW n \in Names
          PROVE  channels'[n] = IF n # m THEN channels[n]
                   ELSE IF channels[m].ref > 1 THEN [channels[m] EXCEPT !.ref = @ - 1]
                   ELSE Absent
        BY <1>6 DEF Destroyed
    <2>2. ASSUME NEW n \in Names
          PROVE  /\ channels'[n].writable => channels'[n].ref > 0
                 /\ channels'[n].waiting \/ channels'[n].allocated
                        \/ channels'[n].writable => connect_requested
                 /\ channels[m].ref # 1 =>
                      /\ channels'[n].writable <=> channels[n].writable
                      /\ channels'[n].ref > 0 <=> channels[n].ref > 0
        BY <1>4, <2>1 DEF Channel, Absent
    <2>3. Holds(signalQ', "connecting") => connect_requested
        <3>1. ASSUME ~connect_requested, Holds(DestroyPosts(m), "connecting")
              PROVE  FALSE
            <4>1. DestroyPosts(m) = <<>> \/ DestroyPosts(m) = <<"writestate">>
                BY <3>1 DEF DestroyPosts
            <4> QED
                BY <3>1, <4>1 DEF Holds
        <3>2. Holds(signalQ, "connecting") => connect_requested
            BY QueuedHolds DEF WatchInv, Bits
        <3> QED
            BY <1>2, <1>6, <3>1, <3>2, HoldsParts
    <2>4. CASE channels[m].ref # 1
        BY <1>1, <1>3, <2>2, <2>3, <2>4, SameWatch
    <2>5. CASE channels[m].ref = 1
        <3>1. Bits'
            <4>1. writable_' \/ Queued("connecting")' => connect_requested'
                BY <1>1, <2>3, QueuedHolds DEF WatchInv, Bits
            <4>2. state' = "init" => ~connect_requested'
                BY <1>1 DEF WatchInv, Bits
            <4> QED
                BY <1>1, <2>2, <4>1, <4>2 DEF Bits
        <3>2. m \in Open(channels) /\ m \notin left
            BY <1>6, <2>1, <2>5 DEF Open, Absent
        <3>3. DestroyPosts(m) = last \o <<"writestate">>
            BY <3>2 DEF DestroyPosts
        <3>4. /\ last \in Seq(Posted) /\ <<"writestate">> \in Seq(Posted)
              /\ Holds(<<"writestate">>, "writestate")
            <4>1. /\ <<"connecting">> \in Seq(Posted) /\ <<>> \in Seq(Posted)
                  /\ <<"writestate">> \in Seq(Posted)
                BY DEF Posted
            <4> HIDE DEF left, Posted
            <4> QED
                BY <4>1 DEF Holds
        <3> HIDE DEF last
        <3>5. ASSUME NEW kind, Holds(last, kind) \/ kind = "writestate"
              PROVE  Holds(signalQ', kind)
            BY <1>2, <1>6, <3>3, <3>4, <3>5, HoldsConcat
        <3>6. WritableIsOr'
            BY <3>5, QueuedHolds DEF WritableIsOr
        <3>7. connect_requested /\ ~Holds(signalQ', "connecting") => HasChannels'
            <4>1. Holds(<<"connecting">>, "connecting")
                BY DEF Holds
            <4>2. connect_requested /\ ~Holds(last, "connecting") => left # {}
                BY <4>1 DEF last
            <4> QED
                BY <1>6, <3>5, <4>2 DEF HasChannels
        <3>8. HasChannels
            BY <3>2 DEF HasChannels
        <3>9. Timed'
            BY <1>1, <1>3, <3>7, <3>8, QueuedHolds DEF WatchInv, Timed
        <3> QED
            BY <3>1, <3>6, <3>9 DEF WatchInv
    <2> QED
        BY <2>4, <2>5
<1> QED
    BY <1>1, <1>5, <1>6

\* A message is taken.  The one that tells that the transport may have become
\* writable, or stopped being so, starts or stops the timer if it has; and until
\* the transport connects there are none of these.
LEMMA MessageWatch ==
    ASSUME RefInv, WatchInv, DispatchSignaling
    PROVE  WatchInv'
<1>1. ASSUME NEW kind, Arrives(kind)
      PROVE  /\ Queued(kind)
             /\ \A other : Holds(signalQ', other) => Holds(signalQ, other)
             /\ \A other : other # kind =>
                  (Holds(signalQ, other) => Holds(signalQ', other))
    <2>1. /\ signalQ \in Seq(Posted) /\ signalQ # <<>> /\ Head(signalQ) = kind
          /\ signalQ' = Tail(signalQ)
        BY <1>1 DEF Arrives, RefInv, TransportTypeOK
    <2>2. 1 \in 1 .. Len(signalQ) /\ signalQ[1] = kind
        BY <2>1
    <2> QED
        BY <2>1, <2>2, TailHolds, HoldsTail DEF Queued
<1>2. UNCHANGED <<stage, state, error, channels, connect_requested>>
    BY DEF DispatchSignaling, OnConnecting, OnChannelReadableState,
           OnChannelWritableState, OnChannelRequestSignaling,
           OnChannelCandidateReady, client, worker
<1>3. /\ HasChannels' = HasChannels
      /\ AnyWritable(channels') = AnyWritable(channels)
    BY <1>2 DEF HasChannels, AnyWritable, Open
<1>4. ASSUME \A other : Holds(signalQ', other) => Holds(signalQ, other),
             writable_' => connect_requested
      PROVE  Bits'
    BY <1>2, <1>4, QueuedHolds DEF WatchInv, Bits
<1>5. CASE OnConnecting
    <2>1. /\ Arrives("connecting") /\ writable_' = writable_
          /\ timer' = (HasChannels /\ ~writable_)
        BY <1>5 DEF OnConnecting, Watch, bits
    <2>2. connect_requested
        BY <1>1, <2>1 DEF WatchInv, Bits
    <2>3. Bits'
        BY <1>1, <1>4, <2>1, <2>2
    <2>4. WritableIsOr'
        BY <1>1, <1>2, <1>3, <2>1, QueuedHolds DEF WatchInv, WritableIsOr
    <2>5. Timed'
        BY <1>2, <1>3, <2>1, <2>2 DEF Timed
    <2> QED
        BY <2>3, <2>4, <2>5 DEF WatchInv
<1>6. CASE OnChannelWritableState
    <2>1. /\ Arrives("writestate") /\ writable_' = AnyWritable(channels)
          /\ \/ writable_' = writable_ /\ timer' = timer
             \/ writable_' # writable_ /\ timer' = (HasChannels /\ ~writable_')
        BY <1>6 DEF OnChannelWritableState, Watch
    <2>2. writable_' => connect_requested
        BY <2>1, AnyChannel DEF WatchInv, Bits
    <2>3. Bits'
        BY <1>1, <1>4, <2>1, <2>2
    <2>4. WritableIsOr'
        BY <1>3, <2>1 DEF WritableIsOr
    <2>5. Queued("connecting") => Queued("connecting")'
        BY <1>1, <2>1, QueuedHolds
    <2>6. Timed'
        <3>1. CASE writable_' = writable_ /\ timer' = timer
            BY <1>2, <1>3, <2>5, <3>1 DEF WatchInv, Timed
        <3>2. CASE writable_' # writable_ /\ timer' = (HasChannels /\ ~writable_')
            <4>1. writable_ \in BOOLEAN /\ writable_' \in BOOLEAN
                BY <2>1 DEF RefInv, TransportTypeOK, AnyWritable
            <4>2. writable_ => connect_requested
                BY DEF WatchInv, Bits
            <4>3. ~writable_' => connect_requested
                BY <3>2, <4>1, <4>2
            <4> QED
                BY <1>2, <1>3, <3>2, <4>3 DEF Timed
        <3> QED
            BY <2>1, <3>1, <3>2
    <2> QED
        BY <2>3, <2>4, <2>6 DEF WatchInv
<1>7. CASE OnChannelReadableState \/ OnChannelRequestSignaling
           \/ OnChannelCandidateReady
    <2>1. PICK kind : Arrives(kind) /\ kind \notin {"connecting", "writestate"}
        BY <1>7 DEF OnChannelReadableState, OnChannelRequestSignaling,
                    OnChannelCandidateReady
    <2>2. UNCHANGED <<writable_, timer>>
        BY <1>7 DEF OnChannelReadableState, OnChannelRequestSignaling,
                    OnChannelCandidateReady, client, bits
    <2>3. Bits'
        BY <1>1, <1>4, <2>1, <2>2 DEF WatchInv, Bits
    <2>4. \A other \in {"connecting", "writestate"} :
             Queued(other) => Queued(other)'
        BY <1>1, <2>1, QueuedHolds
    <2>5. WritableIsOr' /\ Timed'
        BY <1>2, <1>3, <2>2, <2>4 DEF WatchInv, WritableIsOr, Timed
    <2> QED
        BY <2>3, <2>5 DEF WatchInv
<1> QED
    BY <1>5, <1>6, <1>7 DEF DispatchSignaling

\* The worker: a channel that becomes writable, or stops being so, says so.
LEMMA WorkerWatch ==
    ASSUME RefInv, QueueInv, WatchInv,
           OnSignalingReady \/ \E n \in Names : ChannelReports(n)
    PROVE  WatchInv'
<1>1. ASSUME NEW n \in Names
      PROVE  /\ channels[n] \in Channel
             /\ channels[n].writable => channels[n].ref > 0
             /\ channels[n].waiting \/ channels[n].allocated
                    \/ channels[n].writable => connect_requested
             /\ channels[n].allocated =>
                    channels[n].ref > 0 /\ channels[n].wires > 0
    <2>1. channels[n] \in Channel /\ Entry(n)
        BY DEF RefInv, TransportTypeOK
    <2>2. channels[n].allocated => channels[n].wires > 0
        BY DEF QueueInv, Wired
    <2>3. channels[n].wires > 0 => channels[n].ref > 0
        BY <2>1 DEF Entry, Channel
    <2> QED
        BY <2>1, <2>2, <2>3 DEF WatchInv, Bits
<1>2. Holds(signalQ, "connecting") => connect_requested
    BY QueuedHolds DEF WatchInv, Bits
<1>3. CASE OnSignalingReady
    <2>1. UNCHANGED <<stage, state, timer, error, writable_, connect_requested,
                      signalQ>>
        BY <1>3 DEF OnSignalingReady, client, bits
    <2>2. ASSUME NEW n \in Names
          PROVE  /\ channels'[n].writable <=> channels[n].writable
                 /\ channels'[n].ref > 0 <=> channels[n].ref > 0
                 /\ channels'[n].waiting \/ channels'[n].allocated
                      => connect_requested
        <3>1. channels'[n] = IF channels[n].waiting
                THEN [channels[n] EXCEPT !.waiting = FALSE, !.allocated = TRUE]
                ELSE channels[n]
            BY <1>3 DEF OnSignalingReady
        <3> QED
            BY <1>1, <3>1 DEF Channel
    <2> QED
        BY <1>2, <2>1, <2>2, SameWatch
<1>4. ASSUME NEW m \in Names, ChannelReports(m) PROVE WatchInv'
    <2> DEFINE posts(kind) == Times(channels[m].wires, kind)
               old == channels[m]
    <2>1. /\ channels[m].allocated /\ connect_requested /\ channels[m].ref > 0
          /\ UNCHANGED <<stage, state, timer, error, writable_, connect_requested>>
        BY <1>1, <1>4
           DEF ChannelReports, ChannelReadable, ChannelWritable,
               ChannelAllocates, ChannelCandidate, Report, client, bits
    <2>2. channels[m].wires \in Nat /\ channels[m].wires > 0
        BY <1>1, <2>1 DEF Channel
    <2>3. ASSUME NEW kind \in Posted, signalQ' = signalQ \o posts(kind)
          PROVE  /\ Holds(signalQ', kind)
                 /\ \A other : Holds(signalQ, other) => Holds(signalQ', other)
        <3>1. posts(kind) \in Seq(Posted) /\ Holds(posts(kind), kind)
            BY <2>2, TimesType, HoldsTimes
        <3>2. signalQ \in Seq(Posted)
            BY DEF RefInv, TransportTypeOK
        <3> QED
            BY <2>3, <3>1, <3>2, HoldsConcat
    <2>4. \A kind : Holds(signalQ, kind) => Holds(signalQ', kind)
        <3>1. \/ signalQ' = signalQ
              \/ \E kind \in Posted : signalQ' = signalQ \o posts(kind)
            BY <1>4 DEF ChannelReports, ChannelReadable, ChannelWritable,
                        ChannelAllocates, ChannelCandidate, Posted
        <3> QED
            BY <2>3, <3>1
    <2>5. ASSUME NEW b \in BOOLEAN
          PROVE  /\ [old EXCEPT !.readable = b].ref = old.ref
                 /\ [old EXCEPT !.readable = b].writable = old.writable
                 /\ [old EXCEPT !.writable = b].ref = old.ref
                 /\ [old EXCEPT !.waiting = b].ref = old.ref
                 /\ [old EXCEPT !.waiting = b].writable = old.writable
        <3>1. old \in Channel
            BY <1>1
        <3> HIDE DEF old
        <3> QED
            BY <3>1 DEF Channel
    <2>6. (~old.readable) \in BOOLEAN /\ (~old.writable) \in BOOLEAN
        OBVIOUS
    <2> HIDE DEF old, posts
    <2>7. PICK ch : /\ channels' = [channels EXCEPT ![m] = ch]
                    /\ ch.ref = old.ref
                    /\ ChannelWritable(m) \/ ch.writable = old.writable
        <3>1. \/ channels' = [channels EXCEPT
                                ![m] = [old EXCEPT !.readable = ~old.readable]]
              \/ /\ ChannelWritable(m)
                 /\ channels' = [channels EXCEPT
                                   ![m] = [old EXCEPT !.writable = ~old.writable]]
              \/ channels' = [channels EXCEPT ![m] = [old EXCEPT !.waiting = TRUE]]
              \/ channels' = [channels EXCEPT ![m] = old]
            BY <1>4
               DEF ChannelReports, ChannelReadable, ChannelWritable,
                   ChannelAllocates, ChannelCandidate, RefInv, TransportTypeOK, old
        <3> QED
            BY <2>5, <2>6, <3>1
    <2>8. \A n \in Names : channels'[n] = IF n = m THEN ch ELSE channels[n]
        BY <2>7 DEF RefInv, TransportTypeOK
    <2>9. \A n \in Names : channels'[n].ref > 0 <=> channels[n].ref > 0
        BY <2>7, <2>8 DEF old
    <2>10. CASE ~ChannelWritable(m)
        <3>1. \A n \in Names : channels'[n].writable <=> channels[n].writable
            BY <2>7, <2>8, <2>10 DEF old
        <3> QED
            BY <2>1, <2>4, <2>9, <3>1, SameWatch
    <2>11. CASE ChannelWritable(m)
        <3>1. Holds(signalQ', "writestate")
            BY <2>3, <2>11 DEF ChannelWritable, posts, Posted
        <3>2. Bits'
            <4>1. \A n \in Names : channels'[n].writable => channels'[n].ref > 0
                BY <1>1, <2>1, <2>7, <2>8 DEF old
            <4>2. state' = "init" => ~connect_requested'
                BY <2>1 DEF WatchInv, Bits
            <4> QED
                BY <2>1, <4>1, <4>2 DEF Bits
        <3>3. WritableIsOr'
            BY <3>1, QueuedHolds DEF WritableIsOr
        <3>4. Timed'
            BY <2>1, <2>4, <2>9, AnyChannel, QueuedHolds DEF WatchInv, Timed
        <3> QED
            BY <3>2, <3>3, <3>4 DEF WatchInv
    <2> QED
        BY <2>10, <2>11
<1> QED
    BY <1>3, <1>4

LEMMA NextWatch == RefInv /\ QueueInv /\ WatchInv /\ [TransportNext]_transportVars => WatchInv'
<1> SUFFICES ASSUME RefInv, QueueInv, WatchInv, [TransportNext]_transportVars PROVE WatchInv'
    OBVIOUS
<1>1. CASE SessionSteps \/ \E n \in Names : CreateProxy(n)
    BY <1>1, SessionWatch
<1>2. ASSUME NEW n \in Names, DeleteProxy(n) \/ DeleteMuxed(n) PROVE WatchInv'
    BY <1>2, DeleteWatch
<1>3. CASE OnSignalingReady \/ \E n \in Names : ChannelReports(n)
    BY <1>3, WorkerWatch
<1>4. CASE DispatchSignaling
    BY <1>4, MessageWatch
<1>5. CASE TakeSignalingReady \/ UNCHANGED transportVars
    <2>1. UNCHANGED <<stage, state, timer, error, writable_, connect_requested,
                      signalQ, channels>>
        BY <1>5 DEF TakeSignalingReady, transportVars, client, bits, worker, queues
    <2>2. \A n \in Names :
             channels[n].waiting \/ channels[n].allocated => connect_requested
        BY DEF WatchInv, Bits
    <2>3. Holds(signalQ, "connecting") => connect_requested
        BY QueuedHolds DEF WatchInv, Bits
    <2> QED
        BY <2>1, <2>2, <2>3, SameWatch
<1> QED
    BY <1>1, <1>2, <1>3, <1>4, <1>5 DEF TransportNext

-----------------------------------------------------------------------------
\* The invariant of the timer holds throughout, with those it rests on.
THEOREM WatchInvariant == TransportSpec => []WatchInv
BY InitWatch, NextWatch, RefsInvariant, QueueInvariant, PTL DEF TransportSpec

\* writable() is the OR of the channels' bits, or a message that will make it so
\* is in the queue (OnChannelWritableState, DestroyChannel_w).
THEOREM WritableAgrees == TransportSpec => []WritableIsOr
<1>1. WatchInv => WritableIsOr
    BY DEF WatchInv
<1> QED
    BY <1>1, WatchInvariant, PTL

\* When no message about it is in the queue, a session is timed, or has been told
\* ERROR_TIME, if its transport has channels that are to connect and none is
\* writable, and only then is it timed (Session::OnTransportWritable).
THEOREM SessionWatched == TransportSpec => []Watched
<1>1. WatchInv => Watched
    BY DEF WatchInv, WritableIsOr, Timed, Watched
<1> QED
    BY <1>1, WatchInvariant, PTL
=============================================================================
