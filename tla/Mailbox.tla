------------------------------- MODULE Mailbox -------------------------------
(***************************************************************************)
(* What a message queue promises to those who post to it                   *)
(* (base/messagequeue.h): a message is delivered at most once, not before  *)
(* its time, posted messages in the order in which the queue accepted      *)
(* them, delayed ones by their time and then in that order.  Of a posted   *)
(* and a delayed message that are both due, either may come first.  The    *)
(* time of a delayed message is set before the queue accepts it, so that a *)
(* later one may already be due then; it may come first, too.              *)
(***************************************************************************)
EXTENDS Naturals, FiniteSets

CONSTANTS Queues, Msgs

VARIABLES now,      \* the time
          due,      \* when each message may be delivered
          since,    \* when each delayed message was accepted
          delayed,  \* the messages that were posted with a delay
          pending,  \* the messages that each queue has
          taken     \* the messages that have been delivered

Init ==
  /\ now = 0
  /\ due \in [Msgs -> Nat]
  /\ since \in [Msgs -> Nat]
  /\ delayed \in SUBSET Msgs
  /\ pending = [q \in Queues |-> {}]
  /\ taken = {}

Tick ==
  /\ now' = now + 1
  /\ UNCHANGED <<due, since, delayed, pending, taken>>

\* Messages are numbered in the order in which they are accepted.
Accept(q, m) ==
  /\ \A n \in taken : n < m
  /\ \A p \in Queues : \A n \in pending[p] : n < m
  /\ due' \in [Msgs -> Nat] /\ \A n \in Msgs \ {m} : due'[n] = due[n]
  /\ since' \in [Msgs -> Nat] /\ \A n \in Msgs \ {m} : since'[n] = since[n]
  /\ delayed' \in {delayed, delayed \cup {m}, delayed \ {m}}
  /\ m \in delayed' => since'[m] = now
  /\ pending' = [pending EXCEPT ![q] = @ \cup {m}]
  /\ UNCHANGED <<now, taken>>

Before(m, n) == due[m] < due[n] \/ (due[m] = due[n] /\ m < n)

\* Message n was accepted when m was already due.
TooLate(m, n) == m \in delayed /\ m < n /\ since[n] >= due[m]

Deliver(q, m) ==
  /\ m \in pending[q]
  /\ due[m] <= now
  /\ \A n \in pending[q] \ {m} :
       (m \in delayed <=> n \in delayed) => Before(m, n) \/ TooLate(m, n)
  /\ pending' = [pending EXCEPT ![q] = @ \ {m}]
  /\ taken' = taken \cup {m}
  /\ UNCHANGED <<now, due, since, delayed>>

\* Messages go away with their handler or their queue.
Drop(q, S) ==
  /\ pending' = [pending EXCEPT ![q] = @ \ S]
  /\ UNCHANGED <<now, due, since, delayed, taken>>

Next == \/ Tick
        \/ \E q \in Queues, m \in Msgs : Accept(q, m) \/ Deliver(q, m)
        \/ \E q \in Queues, S \in SUBSET Msgs : Drop(q, S)

vars == <<now, due, since, delayed, pending, taken>>
Spec == Init /\ [][Next]_vars
==============================================================================
