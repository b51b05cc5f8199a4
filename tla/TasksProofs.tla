----------------------------- MODULE TasksProofs -----------------------------
(***************************************************************************)
(* The tree of tasks and the runner's loop, for any number of tasks,       *)
(* time-outs and calls.                                                    *)
(*                                                                         *)
(* That a task that is done is blocked needs the tasks only one by one:    *)
(* whichever of them Abort reaches, it leaves each in a state that agrees  *)
(* with the invariant (Sound).  The rest is about the tree (Tree): Abort   *)
(* reaches a set of tasks that is closed under the children of those that  *)
(* are not busy, so a task is never left without its parent, or running    *)
(* under one that has stopped; and about the lists (Loop): the runner's    *)
(* list holds what has been started, the next time-out is on it, and what  *)
(* is not blocked is still ahead in it or has a run to come.               *)
(***************************************************************************)
EXTENDS Tasks, ListsProofs

Members ==
  [life : {"none", "live", "deleted"}, parent : Parents, state : States,
   blocked : BOOLEAN, done : BOOLEAN, aborted : BOOLEAN, busy : BOOLEAN,
   error : BOOLEAN, late : BOOLEAN, timeout_time : Nat,
   timeout_seconds : Seconds \cup {0}]

\* The members of one task that has stopped, or has not.
Sound(m) == m \in Members /\ (m.life = "live" /\ m.done => m.blocked /\ ~m.busy)

IInv == task \in [Tasks -> {m \in Members : Sound(m)}] /\ now \in Nat

-------------------------------------------------------------------------------
\* Abort keeps each task sound: one that is busy is only marked.
LEMMA AbortedSound ==
  ASSUME NEW T \in [Tasks -> {m \in Members : Sound(m)}], NEW S
  PROVE  Aborted(T, S) \in [Tasks -> {m \in Members : Sound(m)}]
<1> SUFFICES ASSUME NEW u \in Tasks
             PROVE  Aborted(T, S)[u] \in Members /\ Sound(Aborted(T, S)[u])
  BY DEF Aborted
<1>1. T[u] \in Members /\ Sound(T[u])
  OBVIOUS
<1>2. Aborted(T, S)[u] =
        IF u \notin S THEN T[u]
        ELSE IF T[u].busy THEN [T[u] EXCEPT !.aborted = TRUE]
        ELSE [T[u] EXCEPT !.aborted = TRUE, !.done = TRUE, !.blocked = TRUE,
                          !.error = TRUE, !.late = FALSE]
  BY DEF Aborted
<1>3. CASE u \notin S
  BY <1>1, <1>2, <1>3
<1>4. CASE u \in S /\ T[u].busy
  BY <1>1, <1>2, <1>4 DEF Members, Sound
<1>5. CASE u \in S /\ ~T[u].busy
  <2> DEFINE m == T[u]
             v == [m EXCEPT !.aborted = TRUE, !.done = TRUE, !.blocked = TRUE,
                            !.error = TRUE, !.late = FALSE]
  <2>1. m \in Members /\ ~m.busy
    BY <1>1, <1>5
  <2> HIDE DEF m
  <2>2. v \in Members
    BY <2>1 DEF Members
  <2>3. v.blocked /\ ~v.busy
    BY <2>1 DEF Members
  <2>4. Aborted(T, S)[u] = v
    BY <1>2, <1>5 DEF m
  <2> QED
    BY <2>2, <2>3, <2>4 DEF Sound
<1> QED
  BY <1>3, <1>4, <1>5

\* Replacing the members of one task by sound ones keeps all of them sound.
LEMMA ExceptSound ==
  ASSUME NEW T \in [Tasks -> {m \in Members : Sound(m)}], NEW t, NEW v,
         t \in Tasks => Sound(v)
  PROVE  [T EXCEPT ![t] = v] \in [Tasks -> {m \in Members : Sound(m)}]
BY DEF Sound

LEMMA NewTaskSound ==
  ASSUME NEW p \in Parents, NEW secs \in Seconds \cup {0}
  PROVE  Sound(NewTask(p, secs))
BY DEF Sound, Members, NewTask, States

LEMMA NoTaskSound ==
  ASSUME NEW l \in {"none", "deleted"}
  PROVE  Sound(NoTask(l))
<1>1. Runner \in Parents
  BY DEF Parents
<1>2. Sound(NewTask(Runner, 0))
  BY <1>1, NewTaskSound
<1> QED
  BY <1>2 DEF Sound, Members, NoTask

\* So does the end of Process, whatever it has returned.
LEMMA ResetSound ==
  ASSUME NEW t \in Tasks, IInv, NEW s \in States
  PROVE  /\ ResetTimeout(t, s) \in Members
         /\ ResetTimeout(t, s).done = task[t].done
         /\ ~ResetTimeout(t, s).busy
<1> DEFINE m == task[t]
           time == IF m.timeout_seconds > 0 /\ s \notin {"INIT", "DONE", "ERROR"}
                     THEN now + m.timeout_seconds ELSE 0
           v == [m EXCEPT !.state = s, !.busy = FALSE, !.late = FALSE,
                          !.timeout_time = time]
<1>1. m \in Members
  BY DEF IInv
<1>2. m.timeout_seconds \in Nat /\ now \in Nat
  <2> HIDE DEF m
  <2>1. m.timeout_seconds \in Seconds \cup {0}
    BY <1>1 DEF Members
  <2>2. Seconds \subseteq Nat
    BY TasksAssumption
  <2>3. now \in Nat
    BY DEF IInv
  <2>4. Seconds \cup {0} \subseteq Nat
    BY <2>2
  <2> QED
    BY <2>1, <2>3, <2>4, Zenon
<1>3. time \in Nat
  BY <1>2
<1>4. ResetTimeout(t, s) = v
  BY DEF ResetTimeout
<1> HIDE DEF m, time
<1>5. v \in Members
  BY <1>1, <1>3 DEF Members
<1>6. v.done = m.done /\ ~v.busy
  BY <1>1 DEF Members
<1> QED
  BY <1>4, <1>5, <1>6 DEF m

-------------------------------------------------------------------------------
\* No tasks yet.
LEMMA InitSound == Init => IInv
<1>1. Sound(NoTask("none"))
  BY NoTaskSound
<1> QED
  BY <1>1 DEF Init, IInv, Sound

\* A step of the code around the runner.
LEMMA CallsSound == IInv /\ Calls => IInv'
<1> SUFFICES ASSUME IInv, Calls PROVE IInv'
  OBVIOUS
<1>1. CASE Tick
  BY <1>1 DEF IInv, Tick, tree
<1>2. ASSUME NEW t \in Tasks, NEW p \in Parents, NEW secs \in Seconds \cup {0},
             New(t, p, secs)
      PROVE  IInv'
  <2>1. task' = [task EXCEPT ![t] = NewTask(p, secs)] /\ now' = now
    BY <1>2 DEF New, bound
  <2>2. Sound(NewTask(p, secs))
    BY NewTaskSound
  <2> QED
    BY <2>1, <2>2, ExceptSound DEF IInv
<1>3. CASE NewClient
  <2>1. CASE 1 \in Tasks
    BY <1>3, <2>1, <1>2 DEF NewClient, Parents
  <2>2. CASE 1 \notin Tasks
    <3>1. task' = [task EXCEPT ![1] = NewTask(Runner, 0)] /\ now' = now
      BY <1>3 DEF NewClient, New, bound
    <3> QED
      BY <2>2, <3>1, ExceptSound DEF IInv
  <2> QED
    BY <2>1, <2>2
<1>4. ASSUME NEW t \in Tasks, NEW p \in Parents, NEW secs \in Seconds,
             NewStarted(t, p, secs)
      PROVE  IInv'
  BY <1>4, <1>2 DEF NewStarted
<1>5. ASSUME NEW t \in Tasks, Start(t) PROVE IInv'
  BY <1>5 DEF IInv, Start, tree, bound
<1>6. ASSUME NEW t \in Tasks, Wake(t) PROVE IInv'
  <2>1. Sound([task[t] EXCEPT !.blocked = FALSE])
    BY <1>6 DEF IInv, Wake, Wakes, Sound, Members
  <2>2. task' = [task EXCEPT ![t] = [task[t] EXCEPT !.blocked = FALSE]] /\ now' = now
    BY <1>6 DEF Wake, IInv
  <2> QED
    BY <2>1, <2>2, ExceptSound DEF IInv
<1>7. ASSUME NEW t \in Tasks, Error(t) PROVE IInv'
  <2> DEFINE v == [task[t] EXCEPT !.error = TRUE, !.blocked = FALSE]
  <2>1. Sound(v)
    BY <1>7 DEF IInv, Error, Sound, Members
  <2>2. task' = [task EXCEPT ![t] = v] /\ now' = now
    BY <1>7 DEF Error, IInv
  <2> QED
    BY <2>1, <2>2, ExceptSound DEF IInv
<1>8. ASSUME NEW t \in Tasks, Abort(t) PROVE IInv'
  BY <1>8, AbortedSound DEF IInv, Abort, bound
<1>9. CASE PollTasks
  <2> DEFINE t == next_timeout_task_
             v == [task[t] EXCEPT !.blocked = FALSE]
  <2>1. now' = now
    BY <1>9 DEF PollTasks, bound
  <2>2. CASE Wakes(task, t)
    <3>1. task' = [task EXCEPT ![t] = v]
      BY <1>9, <2>2 DEF PollTasks, IInv
    <3>2. t \in Tasks => Sound(v)
      BY <2>2 DEF IInv, Wakes, Sound, Members
    <3> QED
      BY <2>1, <3>1, <3>2, ExceptSound DEF IInv
  <2>3. CASE ~Wakes(task, t)
    BY <1>9, <2>1, <2>3 DEF PollTasks, IInv
  <2> QED
    BY <2>2, <2>3
<1>10. CASE Destroy
  <2> DEFINE S == UNION {Family(task, t) : t \in children[Runner]}
             T == Aborted(task, S)
  <2>1. T \in [Tasks -> {m \in Members : Sound(m)}]
    BY AbortedSound DEF IInv
  <2>2. task' = [t \in Tasks |-> IF Started(t) /\ T[t].done
                                   THEN NoTask("deleted") ELSE T[t]]
    BY <1>10 DEF Destroy
  <2>3. Sound(NoTask("deleted"))
    BY NoTaskSound
  <2>4. now' = now
    BY <1>10 DEF Destroy, bound
  <2> HIDE DEF T
  <2> QED
    BY <2>1, <2>2, <2>3, <2>4 DEF IInv, Sound
<1> QED
  BY <1>1, <1>3, <1>4, <1>5, <1>6, <1>7, <1>8, <1>9, <1>10 DEF Calls

\* A step of the runner.
LEMMA RunSound == IInv /\ Run => IInv'
<1> SUFFICES ASSUME IInv, Run PROVE IInv'
  OBVIOUS
<1> DEFINE c == Current
<1>1. CASE RunTasks \/ Skip \/ Again
  BY <1>1 DEF IInv, RunTasks, Skip, Again, tree, bound
<1>2. CASE StepError
  <2> DEFINE v == [task[c] EXCEPT !.done = TRUE, !.blocked = TRUE,
                                  !.state = "ERROR"]
             T == [task EXCEPT ![c] = v]
             S == Family(T, c) \ {c}
  <2>1. now' = now /\ ~InProcess /\ Running /\ at <= Len(tasks_)
    BY <1>2 DEF StepError, Stepping, bound
  <2>2. c \in Tasks => ~task[c].busy
    BY <2>1 DEF InProcess, IInv, Sound, Members
  <2>3. ASSUME c \in Tasks PROVE Sound(v)
    <3> DEFINE m == task[c]
    <3>1. m \in Members /\ ~m.busy
      BY <2>2, <2>3 DEF IInv
    <3> HIDE DEF m
    <3>2. [m EXCEPT !.done = TRUE, !.blocked = TRUE, !.state = "ERROR"] \in Members
      BY <3>1 DEF Members, States
    <3> QED
      BY <3>1, <3>2 DEF Sound, Members, m
  <2>4. T \in [Tasks -> {m \in Members : Sound(m)}]
    BY <2>3, ExceptSound DEF IInv
  <2>5. task' = Aborted(T, S)
    BY <1>2 DEF StepError, StopTask, IInv
  <2> HIDE DEF T, S
  <2> QED
    BY <2>1, <2>4, <2>5, AbortedSound DEF IInv
<1>3. CASE StepInit
  <2>1. now' = now /\ task' = [task EXCEPT ![c] = ResetTimeout(c, "START")]
    BY <1>3 DEF StepInit, Stepping, bound
  <2>2. ~task[c].blocked
    BY <1>3 DEF StepInit, Stepping
  <2>3. c \in Tasks => ~(task[c].life = "live" /\ task[c].done)
    BY <2>2 DEF IInv, Sound
  <2>4. ASSUME c \in Tasks PROVE Sound(ResetTimeout(c, "START"))
    <3>1. "START" \in States
      BY DEF States
    <3>2. ResetTimeout(c, "START").life = task[c].life
      BY <2>4 DEF IInv, Members, ResetTimeout
    <3> HIDE DEF c
    <3> QED
      BY <2>3, <2>4, <3>1, <3>2, ResetSound DEF Sound
  <2> QED
    BY <2>1, <2>4, ExceptSound DEF IInv
<1>4. CASE StepBegin
  <2> DEFINE v == [task[c] EXCEPT !.busy = TRUE, !.late = TimedOut(c),
                     !.timeout_time = IF TimedOut(c) THEN 0 ELSE @]
  <2>1. now' = now /\ task' = [task EXCEPT ![c] = v]
    BY <1>4 DEF StepBegin, Stepping, bound, IInv
  <2>2. ~task[c].blocked
    BY <1>4 DEF StepBegin, Stepping
  <2>3. c \in Tasks => TimedOut(c) \in BOOLEAN
    BY DEF TimedOut
  <2>4. c \in Tasks => Sound(v)
    BY <2>2, <2>3 DEF IInv, Sound, Members
  <2> QED
    BY <2>1, <2>4, ExceptSound DEF IInv
<1>5. CASE EndAborted
  <2> DEFINE v == [task[c] EXCEPT !.busy = FALSE]
             T == [task EXCEPT ![c] = v]
             S == Family(T, c)
  <2>1. now' = now /\ task' = Aborted(T, S)
    BY <1>5 DEF EndAborted, Ending, bound, IInv
  <2>2. c \in Tasks => Sound(v)
    BY DEF IInv, Sound, Members
  <2>3. T \in [Tasks -> {m \in Members : Sound(m)}]
    BY <2>2, ExceptSound DEF IInv
  <2> HIDE DEF T, S
  <2> QED
    BY <2>1, <2>3, AbortedSound DEF IInv
<1>6. CASE EndBlocked
  <2> DEFINE v == [task[c] EXCEPT !.busy = FALSE, !.blocked = TRUE]
  <2>1. now' = now /\ task' = [task EXCEPT ![c] = v]
    BY <1>6 DEF EndBlocked, Ending, bound, IInv
  <2>2. c \in Tasks => Sound(v)
    BY DEF IInv, Sound, Members
  <2> QED
    BY <2>1, <2>2, ExceptSound DEF IInv
<1>7. CASE EndResponse
  <2>1. now' = now /\ task' = [task EXCEPT ![c] = ResetTimeout(c, "RESPONSE")]
    BY <1>7 DEF EndResponse, Ending, bound
  <2>2. InProcess
    BY <1>7 DEF EndResponse, Ending
  <2>3. c \in Tasks => ~(task[c].life = "live" /\ task[c].done)
    BY <2>2 DEF IInv, Sound, InProcess
  <2>4. ASSUME c \in Tasks PROVE Sound(ResetTimeout(c, "RESPONSE"))
    <3>1. "RESPONSE" \in States
      BY DEF States
    <3>2. ResetTimeout(c, "RESPONSE").life = task[c].life
      BY <2>4 DEF IInv, Members, ResetTimeout
    <3> HIDE DEF c
    <3> QED
      BY <2>3, <2>4, <3>1, <3>2, ResetSound DEF Sound
  <2> QED
    BY <2>1, <2>4, ExceptSound DEF IInv
<1>8. ASSUME NEW s \in {"DONE", "ERROR"}, EndDone(s) PROVE IInv'
  <2> DEFINE reset == ResetTimeout(c, s)
             e == s = "ERROR" \/ task[c].error
             v == [reset EXCEPT !.done = TRUE, !.blocked = TRUE, !.error = e]
             T == [task EXCEPT ![c] = v]
             S == Family(T, c) \ {c}
  <2>1. now' = now /\ task' = Aborted(T, S)
    BY <1>8 DEF EndDone, Ending, bound, StopTask
  <2>2. ASSUME c \in Tasks PROVE Sound(v)
    <3>1. s \in States
      BY DEF States
    <3>2. reset \in Members /\ ~reset.busy
      BY <2>2, <3>1, ResetSound
    <3>3. e \in BOOLEAN
      OBVIOUS
    <3> HIDE DEF c, reset, e
    <3>4. v \in Members
      BY <3>2, <3>3 DEF Members
    <3>5. v.blocked /\ ~v.busy
      BY <3>2 DEF Members
    <3> QED
      BY <3>4, <3>5 DEF Sound
  <2>3. T \in [Tasks -> {m \in Members : Sound(m)}]
    BY <2>2, ExceptSound DEF IInv
  <2> HIDE DEF T, S
  <2> QED
    BY <2>1, <2>3, AbortedSound DEF IInv
<1>9. CASE RunEnd
  <2>1. now' = now
    BY <1>9 DEF RunEnd, bound
  <2>2. task' = [t \in Tasks |-> IF t \in Finished THEN NoTask("deleted")
                                                   ELSE task[t]]
    BY <1>9 DEF RunEnd, Delete
  <2>3. Sound(NoTask("deleted"))
    BY NoTaskSound
  <2> QED
    BY <2>1, <2>2, <2>3 DEF IInv, Sound
<1> QED
  BY <1>1, <1>2, <1>3, <1>4, <1>5, <1>6, <1>7, <1>8, <1>9 DEF Run

-------------------------------------------------------------------------------
\* Every task's members are of their types, and agree with each other, from the
\* first step to the last.
THEOREM Soundness == Spec => []IInv
<1>1. ASSUME IInv, [Next]_vars PROVE IInv'
  <2>1. CASE UNCHANGED vars
    BY <1>1, <2>1 DEF vars, IInv
  <2>2. CASE Next
    BY <1>1, <2>2, CallsSound, RunSound DEF Next
  <2> QED
    BY <1>1, <2>1, <2>2
<1> QED
  BY <1>1, InitSound, PTL DEF Spec

\* A task that is done is blocked, and not within its own Process: the runner
\* never steps it again, and its deletion waits for no step ("should be
\* impossible", task.cc:89).
THEOREM DoneStaysBlocked == Spec => []DoneIsBlocked
<1>1. IInv => DoneIsBlocked
  BY DEF IInv, Sound, DoneIsBlocked, Live
<1> QED
  BY <1>1, Soundness, PTL

-------------------------------------------------------------------------------
\* The tree and the lists, with the members of the tasks as a parameter.

\* A task that is not done is a child of its parent, which has not been deleted.
Rooted(T, c) ==
  \A u \in Tasks : T[u].life = "live" /\ ~T[u].done =>
    /\ u \in c[T[u].parent]
    /\ T[u].parent # Runner => T[T[u].parent].life = "live"

\* The children of a task that is done have stopped, or will with their Process.
Halting(m) == m.done \/ (m.aborted /\ m.busy)
Stopped(T) ==
  \A u \in Tasks : T[u].life = "live" /\ T[u].parent # Runner /\ T[T[u].parent].done =>
    Halting(T[u])

\* A parent was created before its children.
Aged(T) ==
  /\ \A u \in Tasks : T[u].life # "none" /\ T[u].parent # Runner => T[u].parent < u
  /\ \A u, v \in Tasks : u < v /\ T[u].life = "none" => T[v].life = "none"

\* A list holds tasks that exist, each of them once.
Listed(T, s) ==
  /\ s \in Seq(Tasks)
  /\ \A i, j \in 1..Len(s) : s[i] = s[j] => i = j
  /\ \A i \in 1..Len(s) : T[s[i]].life = "live"

OnList(s, t) == \E i \in 1..Len(s) : s[i] = t

\* n is on the list s, or nothing there will time out.
NoneDue(T, s) == \A i \in 1..Len(s) : T[s[i]].done \/ T[s[i]].timeout_time = 0
Timed(T, s, n) ==
  /\ n \in Tasks \cup {None}
  /\ n # None => OnList(s, n)
  /\ n = None => NoneDue(T, s)

\* A task has no time-out before its first step.
Fresh(T) == \A u \in Tasks : T[u].state = "INIT" => T[u].timeout_time = 0

\* The tasks before position a have been stepped; and none waits for a run.
Passed(T, s, a) == \A i \in 1..Len(s) : i < a => T[s[i]].blocked
Settled(T, s)   == \A i \in 1..Len(s) : T[s[i]].blocked /\ ~T[s[i]].done

\* Only the task that is being stepped is in its Process.
OneBusy == \A u \in Tasks : task[u].busy => InProcess /\ u = Current

Shapes ==
  /\ children \in [Parents -> SUBSET Tasks]
  /\ at \in 0..Len(tasks_) + 1
  /\ did_run \in BOOLEAN /\ posted \in BOOLEAN /\ destroyed \in BOOLEAN
  /\ now \in 0..MaxTime /\ calls \in 0..MaxCalls

Tree == Rooted(task, children) /\ Stopped(task) /\ Aged(task) /\ Fresh(task)

Loop ==
  /\ Listed(task, tasks_) /\ OneBusy
  /\ Timed(task, tasks_, next_timeout_task_)
  /\ ~posted => Passed(task, tasks_, at) /\ (at = 0 /\ ~destroyed => Settled(task, tasks_))
  /\ destroyed => at = 0 /\ tasks_ = <<>> /\
                  \A u \in Tasks : task[u].life = "live" => task[u].done

TreeInv == IInv /\ Shapes /\ Tree /\ Loop

Known == [Tasks -> {m \in Members : Sound(m)}]

-------------------------------------------------------------------------------
\* What Abort reaches, with each task that it stops: all its children.
Closed(T, c, S) == \A v \in S : ~T[v].busy => c[v] \subseteq S

LEMMA FamilyCloses ==
  ASSUME NEW T, NEW t \in Tasks, children \in [Parents -> SUBSET Tasks]
  PROVE  /\ Family(T, t) \subseteq Tasks /\ t \in Family(T, t)
         /\ Closed(T, children, Family(T, t))
         /\ T[t].busy => Family(T, t) = {t}
<1> DEFINE Reached(S) == t \in S /\ \A v \in S : ~T[v].busy => children[v] \subseteq S
           F == Family(T, t)
<1>1. F = {u \in Tasks : \A S \in SUBSET Tasks : Reached(S) => u \in S}
  BY DEF Family
<1>2. ASSUME NEW v \in F, ~T[v].busy, NEW u \in children[v] PROVE u \in F
  <2>1. v \in Tasks /\ u \in Tasks
    BY <1>1 DEF Parents
  <2>2. ASSUME NEW S \in SUBSET Tasks, Reached(S) PROVE u \in S
    <3>1. v \in S
      BY <1>1, <2>2
    <3> QED
      BY <1>2, <2>2, <3>1
  <2> QED
    BY <1>1, <2>1, <2>2
<1>3. ASSUME T[t].busy PROVE F \subseteq {t}
  <2>1. Reached({t}) /\ {t} \in SUBSET Tasks
    BY <1>3
  <2> QED
    BY <1>1, <2>1
<1>4. t \in F /\ F \subseteq Tasks
  BY <1>1
<1> HIDE DEF F
<1> QED
  BY <1>2, <1>3, <1>4 DEF F, Closed

\* Abort changes neither what a task is nor where it belongs.
LEMMA AbortedFields ==
  ASSUME NEW T \in Known, NEW S, NEW u \in Tasks
  PROVE  LET m == Aborted(T, S)[u] IN
         /\ m.life = T[u].life /\ m.parent = T[u].parent /\ m.state = T[u].state
         /\ m.busy = T[u].busy /\ m.timeout_time = T[u].timeout_time
         /\ (T[u].blocked => m.blocked) /\ (T[u].done => m.done) /\ (T[u].aborted => m.aborted)
         /\ u \notin S \/ T[u].busy => (m.done <=> T[u].done) /\ (m.blocked <=> T[u].blocked)
         /\ u \in S => m.aborted /\ (~T[u].busy => m.done /\ m.blocked)
<1> DEFINE m == T[u]
           v == [m EXCEPT !.aborted = TRUE]
           w == [m EXCEPT !.aborted = TRUE, !.done = TRUE, !.blocked = TRUE,
                          !.error = TRUE, !.late = FALSE]
<1>1. m \in Members /\ Sound(m)
  BY DEF Known
<1>2. Aborted(T, S)[u] = IF u \notin S THEN m ELSE IF m.busy THEN v ELSE w
  BY DEF Aborted
<1> HIDE DEF m
<1>3. /\ v.life = m.life /\ v.parent = m.parent /\ v.state = m.state /\ v.busy = m.busy
      /\ v.timeout_time = m.timeout_time /\ v.done = m.done /\ v.blocked = m.blocked
      /\ v.aborted = TRUE
  BY <1>1 DEF Members
<1>4. /\ w.life = m.life /\ w.parent = m.parent /\ w.state = m.state /\ w.busy = m.busy
      /\ w.timeout_time = m.timeout_time /\ w.done = TRUE /\ w.blocked = TRUE
      /\ w.aborted = TRUE
  BY <1>1 DEF Members
<1> HIDE DEF v, w
<1>5. CASE u \notin S
  BY <1>2, <1>5 DEF m
<1>6. CASE u \in S /\ m.busy
  BY <1>2, <1>3, <1>6 DEF m
<1>7. CASE u \in S /\ ~m.busy
  BY <1>2, <1>4, <1>7 DEF m
<1> QED
  BY <1>5, <1>6, <1>7

\* When the tasks of a closed set F have been aborted, but for those of X, which
\* were done before, no task is left behind that should have stopped with them.
LEMMA AbortStops ==
  ASSUME NEW T \in Known, NEW c \in [Parents -> SUBSET Tasks],
         NEW F \in SUBSET Tasks, NEW X \in SUBSET F,
         Closed(T, c, F), Rooted(T, c), \A x \in X : T[x].done /\ ~T[x].busy,
         \A u \in Tasks : T[u].life = "live" /\ T[u].parent # Runner /\ T[T[u].parent].done =>
           Halting(T[u]) \/ u \in F \/ T[u].parent \in X
  PROVE  /\ Rooted(Aborted(T, F \ X), [p \in Parents |-> c[p] \ {u \in F : ~T[u].busy}])
         /\ Stopped(Aborted(T, F \ X))
<1> DEFINE A == Aborted(T, F \ X)
           d == [p \in Parents |-> c[p] \ {u \in F : ~T[u].busy}]
<1>1. \A u \in Tasks :
        /\ A[u].life = T[u].life /\ A[u].parent = T[u].parent /\ A[u].busy = T[u].busy
        /\ (T[u].done => A[u].done) /\ (T[u].aborted => A[u].aborted)
        /\ u \notin F \ X \/ T[u].busy => (A[u].done <=> T[u].done)
        /\ u \in F \ X => A[u].aborted /\ (~T[u].busy => A[u].done)
  BY AbortedFields
<1>2. \A u \in Tasks : T[u].parent \in Parents
  BY DEF Known, Members
<1>3. \A u \in Tasks : T[u].life = "live" /\ T[u].done => ~T[u].busy
  BY DEF Known, Sound
<1> HIDE DEF A
<1>4. ASSUME NEW u \in Tasks, A[u].life = "live", ~A[u].done
      PROVE  /\ u \in d[A[u].parent]
             /\ A[u].parent # Runner => A[A[u].parent].life = "live"
  <2>1. T[u].life = "live" /\ ~T[u].done /\ A[u].parent = T[u].parent
    BY <1>1, <1>4
  <2>2. u \notin X /\ (u \in F => T[u].busy)
    BY <1>1, <1>4, <2>1
  <2>3. u \in c[T[u].parent]
    BY <2>1 DEF Rooted
  <2>4. T[u].parent # Runner => T[u].parent \in Tasks /\ T[T[u].parent].life = "live"
    BY <1>2, <2>1 DEF Rooted, Parents
  <2> QED
    BY <1>1, <1>2, <2>1, <2>2, <2>3, <2>4
<1>5. ASSUME NEW u \in Tasks, A[u].life = "live", A[u].parent # Runner, A[A[u].parent].done
      PROVE  Halting(A[u])
  <2> DEFINE p == T[u].parent
  <2>1. T[u].life = "live" /\ p # Runner /\ p \in Tasks /\ A[p].done
    BY <1>1, <1>2, <1>5 DEF Parents
  <2> HIDE DEF p
  <2>2. CASE Halting(T[u])
    BY <1>1, <2>2 DEF Halting
  <2>3. CASE u \in F
    <3>1. u \in X => T[u].done
      OBVIOUS
    <3> QED
      BY <1>1, <2>3, <3>1 DEF Halting
  <2>4. ASSUME ~Halting(T[u]), u \notin F, p \in X PROVE FALSE
    <3>1. u \in c[p]
      BY <2>1, <2>4 DEF Rooted, Halting, p
    <3> QED
      BY <2>4, <3>1 DEF Closed
  <2>5. ASSUME ~Halting(T[u]), u \notin F, ~T[p].done PROVE FALSE
    <3>1. u \in c[p]
      BY <2>1, <2>5 DEF Rooted, Halting, p
    <3>2. p \in F /\ ~T[p].busy
      BY <1>1, <2>1, <2>5
    <3> QED
      BY <2>5, <3>1, <3>2 DEF Closed
  <2> QED
    BY <2>1, <2>2, <2>3, <2>4, <2>5 DEF p
<1> QED
  BY <1>4, <1>5 DEF Rooted, Stopped, A

\* A change that leaves alone what the tree depends on.
Same(T, U) ==
  \A u \in Tasks :
    /\ U[u].life = T[u].life /\ U[u].parent = T[u].parent
    /\ U[u].done = T[u].done /\ U[u].aborted = T[u].aborted
    /\ ~T[u].done /\ T[u].aborted /\ T[u].busy => U[u].busy

LEMMA SameTree ==
  ASSUME NEW T \in Known, NEW U, Same(T, U), NEW c, NEW s
  PROVE  /\ Rooted(T, c) => Rooted(U, c)
         /\ Stopped(T) => Stopped(U)
         /\ Aged(T) => Aged(U)
         /\ Listed(T, s) => Listed(U, s)
<1>1. \A u \in Tasks : T[u].parent # Runner => T[u].parent \in Tasks
  BY DEF Known, Members, Parents
<1>2. Rooted(T, c) => Rooted(U, c)
  BY <1>1 DEF Rooted, Same
<1>3. Stopped(T) => Stopped(U)
  BY <1>1 DEF Stopped, Same, Halting
<1>4. Aged(T) => Aged(U)
  BY DEF Aged, Same
<1>5. Listed(T, s) => Listed(U, s)
  <2>1. s \in Seq(Tasks) => \A i \in 1..Len(s) : s[i] \in Tasks
    OBVIOUS
  <2> QED
    BY <2>1 DEF Listed, Same
<1> QED
  BY <1>2, <1>3, <1>4, <1>5

-------------------------------------------------------------------------------
\* The loops of the runner.

\* RecalcNextTimeout finds a task whose time-out is running, if there is one.
LEMMA RecalcFinds ==
  ASSUME NEW T \in Known, NEW s \in Seq(Tasks), NEW S
  PROVE  \/ Recalc(T, s, S) \in Tasks /\ OnList(s, Recalc(T, s, S)) /\ ~T[Recalc(T, s, S)].done
         \/ Recalc(T, s, S) = None /\
            \A i \in 1..Len(s) : s[i] \in S => T[s[i]].done \/ T[s[i]].timeout_time = 0
<1> DEFINE due  == {i \in DOMAIN s : s[i] \in S /\ ~T[s[i]].done /\ T[s[i]].timeout_time > 0}
           soon == {i \in due : \A j \in due : T[s[i]].timeout_time <= T[s[j]].timeout_time}
           n    == Len(s)
           time == [i \in 1..n |-> T[s[i]].timeout_time]
           R    == {p \in (1..n) \X (1..n) :
                      time[p[1]] < time[p[2]] \/ (time[p[1]] = time[p[2]] /\ p[2] < p[1])}
<1>1. n \in Nat /\ DOMAIN s = 1..n /\ \A i \in 1..n : s[i] \in Tasks
  OBVIOUS
<1>2. \A i \in 1..n : time[i] \in Nat
  BY <1>1 DEF Known, Members
<1>3. due \in SUBSET (1..n)
  BY <1>1
<1>4. CASE due = {}
  <2>1. Recalc(T, s, S) = None
    BY <1>4 DEF Recalc
  <2>2. ASSUME NEW i \in 1..n, s[i] \in S PROVE T[s[i]].done \/ T[s[i]].timeout_time = 0
    <3>1. T[s[i]].timeout_time \in Nat /\ i \notin due
      BY <1>2, <1>4
    <3> QED
      BY <1>1, <2>2, <3>1
  <2> QED
    BY <2>1, <2>2
<1>5. CASE due # {}
  <2>1. \A i, j \in 1..n : <<i, j>> \in R <=> time[i] < time[j] \/ (time[i] = time[j] /\ j < i)
    OBVIOUS
  <2> HIDE DEF R
  <2>2. IsFiniteSet(due)
    <3> HIDE DEF due
    <3>1. IsFiniteSet(1..n)
      BY <1>1, FS_Interval
    <3> QED
      BY <1>3, <3>1, FS_Subset
  <2>3. IsOrder(due, R)
    <3> HIDE DEF due, time
    <3>1. \A x \in due : <<x, x>> \notin R
      BY <1>1, <1>2, <1>3, <2>1
    <3>2. \A x, y \in due : x # y => <<x, y>> \in R \/ <<y, x>> \in R
      BY <1>1, <1>2, <1>3, <2>1
    <3>3. \A x, y, z \in due : <<x, y>> \in R /\ <<y, z>> \in R => <<x, z>> \in R
      BY <1>1, <1>2, <1>3, <2>1
    <3> QED
      BY <3>1, <3>2, <3>3 DEF IsOrder
  <2>4. PICK x \in due : \A y \in due : x # y => <<x, y>> \in R
    BY <1>5, <2>2, <2>3, FirstInOrder
  <2>5. \A y \in due : time[x] <= time[y] /\ (time[y] = time[x] => y <= x)
    <3> TAKE y \in due
    <3>1. x \in 1..n /\ y \in 1..n /\ time[x] \in Nat /\ time[y] \in Nat
      BY <1>2, <1>3
    <3> HIDE DEF time, due, n
    <3>2. x # y => <<x, y>> \in R
      BY <2>4
    <3>3. <<x, y>> \in R => time[x] < time[y] \/ (time[x] = time[y] /\ y < x)
      BY <2>1, <3>1
    <3>4. x \in Nat /\ y \in Nat
      BY <1>1, <3>1
    <3> QED
      BY <3>1, <3>2, <3>3, <3>4
  <2>6. x \in soon /\ \A y \in soon : y <= x
    <3>1. \A y \in due : time[y] = T[s[y]].timeout_time
      BY <1>3
    <3>2. \A y \in soon : y \in due /\ time[y] <= time[x]
      BY <3>1
    <3>3. \A y \in due : time[y] \in Nat
      BY <1>2, <1>3
    <3>4. x \in soon
      BY <2>5, <3>1
    <3> HIDE DEF soon, due, time
    <3>5. \A y \in soon : time[y] = time[x]
      BY <2>4, <2>5, <3>2, <3>3
    <3> QED
      BY <2>5, <3>2, <3>4, <3>5
  <2> DEFINE i == CHOOSE i \in soon : \A j \in soon : j <= i
  <2>7. i \in soon
    BY <2>6
  <2>8. Recalc(T, s, S) = s[i]
    BY <1>5 DEF Recalc
  <2> HIDE DEF i
  <2>9. i \in 1..n /\ ~T[s[i]].done
    BY <1>1, <2>7
  <2> QED
    BY <1>1, <2>8, <2>9 DEF OnList
<1> QED
  BY <1>4, <1>5

\* UpdateTaskTimeout keeps the next one on the list, when only t's time-out has
\* changed.
LEMMA UpdateTimed ==
  ASSUME NEW T \in Known, NEW t \in Tasks, task \in Known, Loop, OnList(tasks_, t),
         \A u \in Tasks \ {t} : (task[u].done => T[u].done) /\
                                T[u].timeout_time = task[u].timeout_time
  PROVE  Timed(T, tasks_, UpdateTaskTimeout(T, t))
<1> DEFINE n == next_timeout_task_
           m == UpdateTaskTimeout(T, t)
<1>1. /\ n \in Tasks \cup {None} /\ (n # None => OnList(tasks_, n))
      /\ n = None => NoneDue(task, tasks_)
  BY DEF Loop, Timed
<1>2. tasks_ \in Seq(Tasks) /\ \A i \in 1..Len(tasks_) : tasks_[i] \in Tasks
  BY DEF Loop, Listed
<1>3. None \notin Tasks
  BY TasksAssumption DEF Tasks
<1>4. T[t].timeout_time \in Nat
  BY DEF Known, Members
<1>5. CASE T[t].timeout_time > 0
  <2>1. m = t \/ (m = n /\ n # None)
    BY <1>5 DEF UpdateTaskTimeout
  <2> QED
    BY <1>1, <1>3, <2>1 DEF Timed
<1>6. CASE T[t].timeout_time = 0 /\ n # t
  <2>1. m = n
    BY <1>6 DEF UpdateTaskTimeout
  <2>2. ASSUME n = None PROVE NoneDue(T, tasks_)
    BY <1>1, <1>2, <1>6, <2>2 DEF NoneDue
  <2> QED
    BY <1>1, <2>1, <2>2 DEF Timed
<1>7. CASE T[t].timeout_time = 0 /\ n = t
  <2>1. m = Recalc(T, tasks_, Tasks \ {t})
    BY <1>7 DEF UpdateTaskTimeout
  <2>2. CASE m \in Tasks /\ OnList(tasks_, m)
    BY <1>3, <2>2 DEF Timed
  <2>3. CASE m = None /\ \A i \in 1..Len(tasks_) : tasks_[i] \in Tasks \ {t} =>
               T[tasks_[i]].done \/ T[tasks_[i]].timeout_time = 0
    <3>1. NoneDue(T, tasks_)
      BY <1>2, <1>7, <2>3 DEF NoneDue
    <3> QED
      BY <2>3, <3>1 DEF Timed
  <2> HIDE DEF m
  <2> QED
    BY <1>2, <2>1, <2>2, <2>3, RecalcFinds
<1> QED
  BY <1>4, <1>5, <1>6, <1>7

\* A run goes on to the first task that is not blocked.
LEMMA FirstFromPasses ==
  ASSUME task \in Known, tasks_ \in Seq(Tasks), NEW i \in 1..Len(tasks_) + 1
  PROVE  /\ FirstFrom(i) \in 1..Len(tasks_) + 1
         /\ Passed(task, tasks_, i) => Passed(task, tasks_, FirstFrom(i))
<1> DEFINE n == Len(tasks_)
           S == {j \in i..n : ~task[tasks_[j]].blocked}
           R == Earlier(n)
<1>1. n \in Nat /\ i \in Nat /\ i >= 1 /\ i <= n + 1
  OBVIOUS
<1>2. S \in SUBSET (1..n)
  BY <1>1
<1>3. FirstFrom(i) = IF S = {} THEN n + 1 ELSE CHOOSE j \in S : \A k \in S : j <= k
  BY DEF FirstFrom
<1>4. Passed(task, tasks_, i) => \A k \in 1..n : k < i => task[tasks_[k]].blocked
  BY DEF Passed
<1>5. \A k \in 1..n : k \notin S => k < i \/ task[tasks_[k]].blocked
  BY <1>1
<1> HIDE DEF S
<1>6. CASE S = {}
  <2>1. Passed(task, tasks_, i) => \A k \in 1..n : task[tasks_[k]].blocked
    BY <1>4, <1>5, <1>6
  <2> QED
    BY <1>1, <1>3, <1>6, <2>1 DEF Passed
<1>7. CASE S # {}
  <2>1. IsFiniteSet(S)
    <3>1. IsFiniteSet(1..n)
      BY <1>1, FS_Interval
    <3> QED
      BY <1>2, <3>1, FS_Subset
  <2>2. \A j, k \in 1..n : <<j, k>> \in R <=> j < k
    BY DEF Earlier
  <2>3. IsOrder(S, R)
    BY <1>1, <1>2, <2>2 DEF IsOrder
  <2> HIDE DEF R
  <2>4. PICK x \in S : \A k \in S : x # k => <<x, k>> \in R
    BY <1>7, <2>1, <2>3, FirstInOrder
  <2>5. \A k \in S : x <= k
    <3> TAKE k \in S
    <3>1. x \in 1..n /\ k \in 1..n
      BY <1>2
    <3> HIDE DEF n
    <3>2. x # k => x < k
      BY <2>2, <2>4, <3>1
    <3> QED
      BY <1>1, <3>1, <3>2
  <2>6. FirstFrom(i) \in S /\ \A k \in S : FirstFrom(i) <= k
    BY <1>3, <1>7, <2>5
  <2>7. PICK f : f = FirstFrom(i)
    OBVIOUS
  <2>8. f \in 1..n /\ \A k \in S : f <= k
    BY <1>2, <2>6, <2>7
  <2>9. ASSUME Passed(task, tasks_, i), NEW k \in 1..n, k < f PROVE task[tasks_[k]].blocked
    <3>1. k \notin S
      BY <1>1, <2>8, <2>9
    <3> QED
      BY <1>4, <1>5, <2>9, <3>1
  <2> QED
    BY <1>1, <2>7, <2>8, <2>9 DEF Passed
<1> QED
  BY <1>6, <1>7

-------------------------------------------------------------------------------
\* Which tasks a step can be about.

LEMMA KnownTasks == IInv <=> task \in Known /\ now \in Nat
BY DEF IInv, Known

\* When nothing is within a Process, no task is.
LEMMA NobodyBusy ==
  ASSUME TreeInv, ~InProcess
  PROVE  \A u \in Tasks : ~task[u].busy
BY DEF TreeInv, Loop, OneBusy

\* The task at the runner's position is on its list, and lives.
LEMMA CurrentLives ==
  ASSUME TreeInv, Running, at <= Len(tasks_)
  PROVE  /\ at \in 1..Len(tasks_) /\ Current \in Tasks /\ OnList(tasks_, Current)
         /\ task[Current].life = "live" /\ ~destroyed
<1>1. at \in 1..Len(tasks_)
  BY DEF TreeInv, Shapes, Running
<1> QED
  BY <1>1 DEF TreeInv, Loop, Listed, OnList, Current, Running

LEMMA SteppedLives ==
  ASSUME TreeInv, Stepping
  PROVE  /\ at \in 1..Len(tasks_) /\ Current \in Tasks /\ OnList(tasks_, Current)
         /\ task[Current].life = "live" /\ ~task[Current].done /\ ~destroyed
         /\ \A u \in Tasks : ~task[u].busy
<1>1. Running /\ at <= Len(tasks_) /\ ~InProcess /\ ~task[Current].blocked
  BY DEF Stepping
<1>2. at \in 1..Len(tasks_) /\ Current \in Tasks /\ OnList(tasks_, Current)
      /\ task[Current].life = "live" /\ ~destroyed
  BY <1>1, CurrentLives
<1>3. Sound(task[Current])
  BY <1>2 DEF TreeInv, IInv
<1> QED
  BY <1>1, <1>2, <1>3, NobodyBusy DEF Sound

LEMMA BusyLives ==
  ASSUME TreeInv, InProcess
  PROVE  /\ at \in 1..Len(tasks_) /\ Current \in Tasks /\ OnList(tasks_, Current)
         /\ task[Current].life = "live" /\ ~task[Current].done /\ ~destroyed
         /\ task[Current].busy /\ \A u \in Tasks : task[u].busy => u = Current
<1>1. Running /\ at <= Len(tasks_) /\ task[Current].busy
  BY DEF InProcess
<1>2. at \in 1..Len(tasks_) /\ Current \in Tasks /\ OnList(tasks_, Current)
      /\ task[Current].life = "live" /\ ~destroyed
  BY <1>1, CurrentLives
<1>3. Sound(task[Current])
  BY <1>2 DEF TreeInv, IInv
<1> QED
  BY <1>1, <1>2, <1>3 DEF Sound, TreeInv, Loop, OneBusy

LEMMA StartedOnList ==
  ASSUME TreeInv, NEW t \in Tasks
  PROVE  Started(t) <=> OnList(tasks_, t)
<1>1. tasks_ \in Seq(Tasks) /\ DOMAIN tasks_ = 1..Len(tasks_)
      /\ \A i \in 1..Len(tasks_) : task[tasks_[i]].life = "live"
  BY DEF TreeInv, Loop, Listed
<1> QED
  BY <1>1 DEF Started, Live, OnList

\* The code around the runner runs within the Process of a task, or between two
\* runs.
LEMMA OutsideLives ==
  ASSUME TreeInv, Outside
  PROVE  ~destroyed /\ (at = 0 \/ InProcess)
BY DEF Outside, Running, TreeInv, Shapes

-------------------------------------------------------------------------------
\* Steps that leave the tree as it is.
Tidy(T, s, a) == Passed(T, s, a) /\ (a = 0 => Settled(T, s))

LEMMA SameInv ==
  ASSUME TreeInv, IInv', Shapes', Same(task, task'), ~destroyed, ~destroyed',
         UNCHANGED <<children, tasks_>>, Fresh(task'), OneBusy',
         Timed(task', tasks_, next_timeout_task_'),
         ~posted' => Tidy(task', tasks_, at')
  PROVE  TreeInv'
<1>1. task \in Known
  BY KnownTasks DEF TreeInv
<1>2. Rooted(task, children) /\ Stopped(task) /\ Aged(task) /\ Listed(task, tasks_)
  BY DEF TreeInv, Tree, Loop
<1>3. Rooted(task', children) /\ Stopped(task') /\ Aged(task') /\ Listed(task', tasks_)
  BY <1>1, <1>2, SameTree
<1>4. Tree'
  BY <1>3 DEF Tree
<1>5. Loop'
  BY <1>3 DEF Loop, Tidy
<1> QED
  BY <1>4, <1>5 DEF TreeInv

LEMMA SameSelf == \A T : Same(T, T)
BY DEF Same

LEMMA TickTree == TreeInv /\ IInv' /\ Tick => TreeInv'
<1> SUFFICES ASSUME TreeInv, IInv', Tick PROVE TreeInv'
  OBVIOUS
<1>1. /\ UNCHANGED <<task, children, tasks_, next_timeout_task_, at, did_run, posted,
                     destroyed, calls>>
      /\ now < MaxTime /\ now' = now + 1 /\ ~destroyed
  BY DEF Tick, tree, loop
<1>2. Shapes'
  BY <1>1, TasksAssumption DEF TreeInv, Shapes
<1>3. OneBusy'
  BY <1>1 DEF TreeInv, Loop, OneBusy, InProcess, Current, Running
<1>4. Fresh(task') /\ Timed(task', tasks_, next_timeout_task_')
      /\ (~posted' => Tidy(task', tasks_, at'))
  BY <1>1 DEF TreeInv, Tree, Loop, Tidy
<1>5. Same(task, task')
  BY <1>1, SameSelf
<1> QED
  BY <1>1, <1>2, <1>3, <1>4, <1>5, SameInv

\* The runner moves to the first task from i on that it must step.
LEMMA MovesTree ==
  ASSUME TreeInv, IInv', ~InProcess, NEW i \in 1..Len(tasks_) + 1, ~destroyed,
         at' = FirstFrom(i), did_run' \in BOOLEAN, posted' \in BOOLEAN,
         ~posted' => Passed(task, tasks_, i),
         UNCHANGED <<task, children, tasks_, next_timeout_task_, destroyed, now, calls>>
  PROVE  TreeInv'
<1>1. task \in Known /\ tasks_ \in Seq(Tasks)
  BY KnownTasks DEF TreeInv, Loop, Listed
<1>2. at' \in 1..Len(tasks_) + 1 /\ (~posted' => Passed(task, tasks_, at'))
  BY <1>1, FirstFromPasses
<1>3. Shapes'
  <2>1. at' \in 0..Len(tasks_) + 1
    BY <1>2
  <2> QED
    BY <2>1 DEF TreeInv, Shapes
<1>4. OneBusy'
  BY NobodyBusy DEF OneBusy
<1>5. ~posted' => Tidy(task', tasks_, at')
  <2>1. at' # 0
    BY <1>2
  <2> QED
    BY <1>2, <2>1 DEF Tidy
<1>6. Fresh(task') /\ Timed(task', tasks_, next_timeout_task_')
  BY DEF TreeInv, Tree, Loop
<1>7. Same(task, task')
  BY SameSelf
<1> QED
  BY <1>3, <1>4, <1>5, <1>6, <1>7, SameInv

LEMMA RunTasksTree == TreeInv /\ IInv' /\ RunTasks => TreeInv'
<1> SUFFICES ASSUME TreeInv, IInv', RunTasks PROVE TreeInv'
  OBVIOUS
<1>1. ~InProcess
  BY DEF RunTasks, InProcess
<1>2. 1 \in 1..Len(tasks_) + 1 /\ Passed(task, tasks_, 1)
  BY DEF TreeInv, Loop, Listed, Passed
<1> QED
  BY <1>1, <1>2, MovesTree DEF RunTasks, tree, bound

LEMMA SkipTree == TreeInv /\ IInv' /\ Skip => TreeInv'
<1> SUFFICES ASSUME TreeInv, IInv', Skip PROVE TreeInv'
  OBVIOUS
<1>1. Running /\ at <= Len(tasks_) /\ ~InProcess /\ at' = FirstFrom(at)
      /\ UNCHANGED <<task, children, tasks_, next_timeout_task_, did_run, posted,
                     destroyed, now, calls>>
  BY DEF Skip, tree, bound
<1>2. at \in 1..Len(tasks_) /\ ~destroyed
  BY <1>1, CurrentLives
<1>3. did_run' \in BOOLEAN /\ posted' \in BOOLEAN
  BY <1>1 DEF TreeInv, Shapes
<1>4. ~posted => Passed(task, tasks_, at)
  BY DEF TreeInv, Loop
<1>5. at \in 1..Len(tasks_) + 1
  BY <1>2 DEF TreeInv, Loop, Listed
<1> QED
  BY <1>1, <1>2, <1>3, <1>4, <1>5, MovesTree

LEMMA AgainTree == TreeInv /\ IInv' /\ Again => TreeInv'
<1> SUFFICES ASSUME TreeInv, IInv', Again PROVE TreeInv'
  OBVIOUS
<1>1. at > Len(tasks_) /\ at' = FirstFrom(1) /\ did_run' = FALSE
      /\ UNCHANGED <<task, children, tasks_, next_timeout_task_, posted, destroyed,
                     now, calls>>
  BY DEF Again, tree, bound
<1>2. Len(tasks_) \in Nat /\ at \in Nat /\ posted' \in BOOLEAN
  BY <1>1 DEF TreeInv, Shapes, Loop, Listed
<1>3. ~InProcess /\ ~destroyed
  BY <1>1, <1>2 DEF InProcess, TreeInv, Loop
<1>4. 1 \in 1..Len(tasks_) + 1 /\ Passed(task, tasks_, 1)
  BY <1>2 DEF Passed
<1> QED
  BY <1>1, <1>2, <1>3, <1>4, MovesTree

\* One task changes, neither created nor stopped.
Alike(m, v) ==
  /\ v.life = m.life /\ v.parent = m.parent /\ v.done = m.done
  /\ v.aborted = m.aborted /\ (~m.done /\ m.aborted /\ m.busy => v.busy)

LEMMA OneAlike ==
  ASSUME NEW T \in Known, NEW t \in Tasks, NEW v, Alike(T[t], v)
  PROVE  Same(T, [T EXCEPT ![t] = v])
BY DEF Same, Known, Alike

\* The members that Wake, Error and PollTasks write.
LEMMA WokenAlike ==
  ASSUME NEW m \in Members, NEW e \in BOOLEAN
  PROVE  LET v == [m EXCEPT !.error = e, !.blocked = FALSE] IN
         /\ Alike(m, v) /\ v.busy = m.busy /\ v.state = m.state
         /\ v.timeout_time = m.timeout_time /\ v.done = m.done
BY DEF Members, Alike

LEMMA WokenTree ==
  ASSUME TreeInv, IInv', NEW t \in Tasks, NEW e \in BOOLEAN,
         task' = [task EXCEPT ![t] = [task[t] EXCEPT !.error = e, !.blocked = FALSE]],
         ~destroyed, posted' \in BOOLEAN, calls' \in 0..MaxCalls, posted' \/ ~task[t].blocked,
         posted => posted',
         UNCHANGED <<children, tasks_, next_timeout_task_, at, did_run, destroyed, now>>
  PROVE  TreeInv'
<1> DEFINE m == task[t]
           v == [m EXCEPT !.error = e, !.blocked = FALSE]
<1>1. task \in Known /\ m \in Members
  BY KnownTasks DEF TreeInv, Known
<1> HIDE DEF m
<1>2. /\ Alike(m, v) /\ v.busy = m.busy /\ v.state = m.state
      /\ v.timeout_time = m.timeout_time /\ v.done = m.done /\ v.blocked = FALSE
  <2>1. v.blocked = FALSE
    BY <1>1 DEF Members
  <2> HIDE DEF v
  <2> QED
    BY <1>1, <2>1, WokenAlike DEF v
<1> HIDE DEF v
<1>3. task' = [task EXCEPT ![t] = v]
  BY DEF m, v
<1>4. task' \in [Tasks -> {v} \cup {task[u] : u \in Tasks}]
      /\ \A u \in Tasks : task'[u] = IF u = t THEN v ELSE task[u]
  BY <1>1, <1>3 DEF Known
<1>5. Same(task, task')
  <2>1. Alike(task[t], v)
    BY <1>2 DEF m
  <2>2. Same(task, [task EXCEPT ![t] = v])
    BY <1>1, <2>1, OneAlike
  <2> QED
    BY <1>3, <2>2
<1>6. /\ Fresh(task') /\ \A u \in Tasks : task'[u].busy = task[u].busy
      /\ \A u \in Tasks : task'[u].done = task[u].done /\
                          task'[u].timeout_time = task[u].timeout_time
  BY <1>2, <1>4 DEF Fresh, TreeInv, Tree, m
<1>7. Shapes'
  BY DEF TreeInv, Shapes
<1>8. tasks_ \in Seq(Tasks) /\ \A i \in 1..Len(tasks_) : tasks_[i] \in Tasks
  BY DEF TreeInv, Loop, Listed
<1>9. OneBusy'
  <2> SUFFICES ASSUME NEW u \in Tasks, task'[u].busy PROVE (InProcess /\ u = Current)'
    BY DEF OneBusy
  <2>1. InProcess /\ u = Current
    BY <1>6 DEF TreeInv, Loop, OneBusy
  <2> QED
    BY <2>1 DEF InProcess, Current, Running
<1>10. Timed(task', tasks_, next_timeout_task_')
  BY <1>6, <1>8 DEF TreeInv, Loop, Timed, NoneDue
<1>11. ASSUME ~posted' PROVE Tidy(task', tasks_, at')
  <2>1. ~m.blocked /\ Tidy(task, tasks_, at)
    BY <1>11 DEF TreeInv, Loop, Tidy, m
  <2>2. \A i \in 1..Len(tasks_) : task[tasks_[i]].blocked => task'[tasks_[i]] = task[tasks_[i]]
    BY <1>4, <1>8, <2>1 DEF m
  <2> QED
    BY <2>1, <2>2 DEF Tidy, Passed, Settled
<1> QED
  BY <1>5, <1>6, <1>7, <1>9, <1>10, <1>11, SameInv

LEMMA WakeTree == ASSUME TreeInv, IInv', NEW t \in Tasks, Wake(t) PROVE TreeInv'
<1>1. ~destroyed /\ task[t] \in Members
  BY OutsideLives DEF Wake, TreeInv, IInv
<1>2. [task[t] EXCEPT !.blocked = FALSE] =
        [task[t] EXCEPT !.error = task[t].error, !.blocked = FALSE]
  BY <1>1 DEF Members
<1>3. task[t].error \in BOOLEAN
  BY <1>1 DEF Members
<1>4. task' = [task EXCEPT ![t] = [task[t] EXCEPT !.error = task[t].error, !.blocked = FALSE]]
  BY <1>2, KnownTasks DEF Wake, TreeInv, Known
<1>5. calls' \in 0..MaxCalls
  BY TasksAssumption DEF Wake, TreeInv, Shapes
<1> QED
  BY <1>1, <1>3, <1>4, <1>5, WokenTree DEF Wake, loop

LEMMA ErrorTree == ASSUME TreeInv, IInv', NEW t \in Tasks, Error(t) PROVE TreeInv'
<1>1. ~destroyed /\ task[t] \in Members
  BY OutsideLives DEF Error, TreeInv, IInv
<1>2. task' = [task EXCEPT ![t] = [task[t] EXCEPT !.error = TRUE, !.blocked = FALSE]]
  BY KnownTasks DEF Error, TreeInv, Known
<1>3. calls' \in 0..MaxCalls
  BY TasksAssumption DEF Error, TreeInv, Shapes
<1>4. task[t].blocked \in BOOLEAN /\ posted \in BOOLEAN
  BY <1>1 DEF Members, TreeInv, Shapes
<1>5. posted' \in BOOLEAN /\ (posted' \/ ~task[t].blocked) /\ (posted => posted')
  BY <1>4 DEF Error
<1> QED
  BY <1>1, <1>2, <1>3, <1>5, WokenTree DEF Error, loop

LEMMA PollTasksTree == TreeInv /\ IInv' /\ PollTasks => TreeInv'
<1> SUFFICES ASSUME TreeInv, IInv', PollTasks PROVE TreeInv'
  OBVIOUS
<1> DEFINE t == next_timeout_task_
<1>1. t \in Tasks /\ task[t] \in Members
  BY DEF PollTasks, TreeInv, Loop, Timed, IInv
<1>2. /\ ~destroyed /\ posted' = TRUE
      /\ UNCHANGED <<children, tasks_, next_timeout_task_, at, did_run, destroyed, now, calls>>
  BY DEF PollTasks, loop, bound
<1>3. CASE Wakes(task, t)
  <2>1. task' = [task EXCEPT ![t] = [task[t] EXCEPT !.blocked = FALSE]]
    BY <1>3, KnownTasks DEF PollTasks, TreeInv, Known
  <2>2. [task[t] EXCEPT !.blocked = FALSE] =
          [task[t] EXCEPT !.error = task[t].error, !.blocked = FALSE]
        /\ task[t].error \in BOOLEAN
    BY <1>1 DEF Members
  <2>3. task' = [task EXCEPT ![t] = [task[t] EXCEPT !.error = task[t].error, !.blocked = FALSE]]
    BY <2>1, <2>2
  <2>4. calls' \in 0..MaxCalls
    BY <1>2 DEF TreeInv, Shapes
  <2> QED
    BY <1>1, <1>2, <2>2, <2>3, <2>4, WokenTree
<1>4. CASE ~Wakes(task, t)
  <2>1. task' = task
    BY <1>4 DEF PollTasks
  <2>2. Shapes'
    BY <1>2 DEF TreeInv, Shapes
  <2>3. OneBusy'
    BY <1>2, <2>1 DEF TreeInv, Loop, OneBusy, InProcess, Current, Running
  <2>4. Fresh(task') /\ Timed(task', tasks_, next_timeout_task_')
    BY <1>2, <2>1 DEF TreeInv, Tree, Loop
  <2> QED
    BY <1>2, <2>1, <2>2, <2>3, <2>4, SameSelf, SameInv
<1> QED
  BY <1>3, <1>4

-------------------------------------------------------------------------------
\* Tasks are created and started.

\* A new task finds its parent living and not done.
LEMMA NewGrows ==
  ASSUME TreeInv, NEW t \in Tasks, NEW p \in Parents, NEW secs \in Seconds \cup {0},
         New(t, p, secs)
  PROVE  /\ Tree' /\ children' \in [Parents -> SUBSET Tasks]
         /\ Listed(task', tasks_) /\ ~OnList(tasks_, t) /\ ~destroyed
         /\ task'[t].life = "live" /\ task'[t].timeout_time = 0 /\ ~task'[t].busy
         /\ \A u \in Tasks \ {t} : task'[u] = task[u]
<1> DEFINE v == NewTask(p, secs)
<1>1. /\ v.life = "live" /\ v.parent = p /\ v.state = "INIT" /\ v.done = FALSE
      /\ v.busy = FALSE /\ v.timeout_time = 0
  BY DEF NewTask
<1> HIDE DEF v
<1>2. task \in Known /\ children \in [Parents -> SUBSET Tasks]
  BY KnownTasks DEF TreeInv, Shapes
<1>3. task'[t] = v /\ \A u \in Tasks \ {t} : task'[u] = task[u]
  BY <1>2 DEF New, Known, v
<1>4. /\ children' \in [Parents -> SUBSET Tasks] /\ t \in children'[p]
      /\ \A q \in Parents : children[q] \subseteq children'[q]
  BY <1>2 DEF New
<1>5. task[t].life = "none" /\ (\A u \in 1..t - 1 : task[u].life # "none")
      /\ (p # Runner => task[p].life = "live" /\ ~task[p].done) /\ ~destroyed
  BY OutsideLives DEF New, Live
<1>6. \A u \in Tasks : task[u].parent \in Parents
  BY <1>2 DEF Known, Members
<1>7. Runner \notin Tasks /\ MaxTasks \in Nat /\ Parents = Tasks \cup {Runner}
  BY TasksAssumption DEF Tasks, Parents
<1>8. Rooted(task, children) /\ Stopped(task) /\ Aged(task) /\ Fresh(task)
  BY DEF TreeInv, Tree
<1>9. Rooted(task', children')
  <2> SUFFICES ASSUME NEW u \in Tasks, task'[u].life = "live", ~task'[u].done
               PROVE  /\ u \in children'[task'[u].parent]
                      /\ task'[u].parent # Runner => task'[task'[u].parent].life = "live"
    BY DEF Rooted
  <2>1. CASE u = t
    BY <1>1, <1>3, <1>4, <1>5, <1>7, <2>1
  <2>2. CASE u # t
    BY <1>1, <1>3, <1>4, <1>6, <1>7, <1>8, <2>2 DEF Rooted
  <2> QED
    BY <2>1, <2>2
<1>10. Stopped(task')
  <2> SUFFICES ASSUME NEW u \in Tasks, task'[u].life = "live", task'[u].parent # Runner,
                      task'[task'[u].parent].done
               PROVE  Halting(task'[u])
    BY DEF Stopped
  <2>1. CASE u = t
    BY <1>1, <1>3, <1>5, <1>7, <2>1
  <2>2. CASE u # t
    BY <1>1, <1>3, <1>6, <1>7, <1>8, <2>2 DEF Stopped
  <2> QED
    BY <2>1, <2>2
<1>11. Aged(task')
  <2>1. ASSUME NEW u \in Tasks, task'[u].life # "none", task'[u].parent # Runner
        PROVE  task'[u].parent < u
    <3>1. CASE u # t
      BY <1>3, <1>8, <2>1, <3>1 DEF Aged
    <3>2. CASE u = t
      <4>1. p \in Tasks /\ task[p].life = "live"
        BY <1>1, <1>3, <1>5, <1>7, <2>1, <3>2
      <4>2. p # t /\ ~(t < p)
        BY <1>5, <1>8, <4>1 DEF Aged
      <4>3. p < t
        BY <1>7, <4>1, <4>2 DEF Tasks
      <4> QED
        BY <1>1, <1>3, <3>2, <4>3
    <3> QED
      BY <3>1, <3>2
  <2>2. ASSUME NEW u \in Tasks, NEW w \in Tasks, u < w, task'[u].life = "none"
        PROVE  task'[w].life = "none"
    <3>1. u # t
      BY <1>1, <1>3, <2>2
    <3>2. w # t
      <4>1. u < t => u \in 1..t - 1
        BY <1>7 DEF Tasks
      <4> QED
        BY <1>3, <1>5, <2>2, <3>1, <4>1
    <3> QED
      BY <1>3, <1>8, <2>2, <3>1, <3>2 DEF Aged
  <2> QED
    BY <2>1, <2>2 DEF Aged
<1>12. Fresh(task')
  BY <1>1, <1>3, <1>8 DEF Fresh
<1>13. Listed(task', tasks_) /\ ~OnList(tasks_, t)
  <2>1. Listed(task, tasks_)
    BY DEF TreeInv, Loop
  <2>2. ~OnList(tasks_, t)
    BY <1>5, <2>1 DEF Listed, OnList
  <2> QED
    BY <1>3, <2>1, <2>2 DEF Listed, OnList
<1> QED
  BY <1>1, <1>3, <1>4, <1>5, <1>9, <1>10, <1>11, <1>12, <1>13 DEF Tree

\* The code around the runner leaves busy what was busy.
LEMMA StillBusy ==
  ASSUME TreeInv, at' = at, tasks_' \in Seq(Tasks), Len(tasks_') >= Len(tasks_),
         \A i \in 1..Len(tasks_) : tasks_'[i] = tasks_[i],
         \A u \in Tasks : task'[u].busy => task[u].busy,
         InProcess => task'[Current].busy
  PROVE  OneBusy'
<1> SUFFICES ASSUME NEW u \in Tasks, task'[u].busy PROVE (InProcess /\ u = Current)'
  BY DEF OneBusy
<1>1. InProcess /\ u = Current
  BY DEF TreeInv, Loop, OneBusy
<1>2. at \in 1..Len(tasks_) /\ Len(tasks_) \in Nat /\ Len(tasks_') \in Nat
  BY <1>1, BusyLives DEF TreeInv, Loop, Listed
<1>3. tasks_'[at'] = Current /\ at' > 0 /\ at' <= Len(tasks_')
  BY <1>2 DEF Current
<1>4. task'[tasks_'[at']].busy
  BY <1>1, <1>3
<1> QED
  BY <1>1, <1>3, <1>4 DEF InProcess, Current, Running

\* A task t is put at the end of the list.
LEMMA StartTree ==
  ASSUME TreeInv, IInv', NEW t \in Tasks, ~OnList(tasks_, t), Tree', Listed(task', tasks_),
         children' \in [Parents -> SUBSET Tasks], ~destroyed,
         task'[t].life = "live", task'[t].timeout_time = 0,
         task'[t].busy = task[t].busy, \A u \in Tasks \ {t} : task'[u] = task[u],
         StartTask(t), UNCHANGED <<next_timeout_task_, at, did_run, destroyed, now, calls>>
  PROVE  TreeInv'
<1> DEFINE n == Len(tasks_)
<1>1. tasks_' = Append(tasks_, t) /\ posted' = TRUE
  BY DEF StartTask
<1>2. tasks_ \in Seq(Tasks) /\ n \in Nat
  BY DEF Listed
<1>3. /\ tasks_' \in Seq(Tasks) /\ Len(tasks_') = n + 1 /\ tasks_'[n + 1] = t
      /\ \A i \in 1..n : tasks_'[i] = tasks_[i]
  BY <1>1, <1>2, AppendProperties
<1>4. \A i, j \in 1..Len(tasks_') : tasks_'[i] = tasks_'[j] => i = j
  BY <1>1, <1>2, AppendNoRepeats DEF Listed, OnList
<1>5. \A i \in 1..Len(tasks_') : i \in 1..n \/ i = n + 1
  BY <1>2, <1>3
<1>6. Listed(task', tasks_')
  BY <1>3, <1>4, <1>5 DEF Listed
<1>7. Timed(task', tasks_', next_timeout_task_')
  <2>1. Timed(task, tasks_, next_timeout_task_)
    BY DEF TreeInv, Loop
  <2>2. ASSUME NEW i \in 1..n PROVE i \in 1..Len(tasks_') /\ tasks_'[i] \in Tasks \ {t}
    BY <1>2, <1>3 DEF OnList
  <2>3. OnList(tasks_, next_timeout_task_) => OnList(tasks_', next_timeout_task_)
    BY <1>3, <2>2 DEF OnList
  <2>4. NoneDue(task, tasks_) => NoneDue(task', tasks_')
    BY <1>3, <1>5, <2>2 DEF NoneDue
  <2> QED
    BY <2>1, <2>3, <2>4 DEF Timed
<1>8. OneBusy'
  <2>1. \A u \in Tasks : task'[u].busy = task[u].busy
    OBVIOUS
  <2>2. InProcess => task'[Current].busy
    BY <2>1, BusyLives
  <2>3. Len(tasks_') >= n
    BY <1>2, <1>3
  <2> QED
    BY <1>3, <2>1, <2>2, <2>3, StillBusy
<1>9. Shapes'
  <2>1. at \in 0..n + 2
    BY <1>2 DEF TreeInv, Shapes
  <2>2. Len(tasks_') + 1 = n + 2
    BY <1>2, <1>3
  <2> QED
    BY <1>1, <2>1, <2>2 DEF TreeInv, Shapes
<1> QED
  BY <1>1, <1>6, <1>7, <1>8, <1>9 DEF TreeInv, Loop

LEMMA NewStartedTree ==
  ASSUME TreeInv, IInv', NEW t \in Tasks, NEW p \in Parents, NEW secs \in Seconds,
         NewStarted(t, p, secs)
  PROVE  TreeInv'
<1>1. New(t, p, secs) /\ StartTask(t)
      /\ UNCHANGED <<next_timeout_task_, at, did_run, destroyed, now, calls>>
  BY DEF NewStarted, New, loop, bound
<1>2. task[t].busy = FALSE
  <2>1. task[t].life = "none"
    BY <1>1 DEF New
  <2>2. task[t].busy \in BOOLEAN
    BY DEF TreeInv, IInv, Members
  <2>3. task[t].busy => task[t].life = "live"
    BY BusyLives DEF TreeInv, Loop, OneBusy
  <2> QED
    BY <2>1, <2>2, <2>3
<1>3. task'[t].busy = FALSE
  BY <1>1 DEF New, NewTask, TreeInv, IInv
<1> QED
  BY <1>1, <1>2, <1>3, NewGrows, StartTree

LEMMA NewClientTree == TreeInv /\ IInv' /\ NewClient => TreeInv'
<1> SUFFICES ASSUME TreeInv, IInv', NewClient PROVE TreeInv'
  OBVIOUS
<1>1. /\ New(1, Runner, 0)
      /\ UNCHANGED <<tasks_, posted, next_timeout_task_, at, did_run, destroyed, now, calls>>
  BY DEF NewClient, New, loop, bound
<1>2. 1 \in Tasks /\ Runner \in Parents
  BY TasksAssumption DEF Tasks, Parents
<1>3. /\ Tree' /\ children' \in [Parents -> SUBSET Tasks]
      /\ Listed(task', tasks_) /\ ~OnList(tasks_, 1) /\ ~destroyed /\ ~task'[1].busy
      /\ \A u \in Tasks \ {1} : task'[u] = task[u]
  BY <1>1, <1>2, NewGrows
<1>4. tasks_ \in Seq(Tasks) /\ \A i \in 1..Len(tasks_) : tasks_[i] \in Tasks \ {1}
  BY <1>3 DEF Listed, OnList
<1>5. \A i \in 1..Len(tasks_) : task'[tasks_[i]] = task[tasks_[i]]
  BY <1>3, <1>4
<1>6. Timed(task', tasks_', next_timeout_task_')
  BY <1>1, <1>5 DEF TreeInv, Loop, Timed, NoneDue
<1>7. OneBusy'
  <2>1. \A u \in Tasks : task'[u].busy => task[u].busy
    BY <1>3
  <2>2. InProcess => task'[Current].busy
    BY <1>5, BusyLives DEF Current
  <2>3. Len(tasks_') >= Len(tasks_)
    BY <1>1, <1>4
  <2> QED
    BY <1>1, <1>4, <2>1, <2>2, <2>3, StillBusy
<1>8. Shapes'
  BY <1>1, <1>3 DEF TreeInv, Shapes
<1>9. posted' = posted /\ (~posted => Passed(task', tasks_, at') /\
                           (at' = 0 /\ ~destroyed => Settled(task', tasks_)))
  BY <1>1, <1>5 DEF TreeInv, Loop, Passed, Settled
<1> QED
  BY <1>1, <1>3, <1>6, <1>7, <1>8, <1>9 DEF TreeInv, Loop

LEMMA StartingTree == ASSUME TreeInv, IInv', NEW t \in Tasks, Start(t) PROVE TreeInv'
<1>1. /\ StartTask(t) /\ ~destroyed /\ task[t].state = "INIT" /\ task[t].life = "live"
      /\ ~OnList(tasks_, t)
      /\ UNCHANGED <<task, children, next_timeout_task_, at, did_run, destroyed, now, calls>>
  BY OutsideLives, StartedOnList DEF Start, Live, tree, loop, bound
<1>2. Tree' /\ Listed(task', tasks_) /\ children' \in [Parents -> SUBSET Tasks]
  BY <1>1 DEF TreeInv, Tree, Loop, Shapes
<1>3. task'[t].timeout_time = 0
  BY <1>1 DEF TreeInv, Tree, Fresh
<1> QED
  BY <1>1, <1>2, <1>3, StartTree

-------------------------------------------------------------------------------
\* The runner steps a task that goes on.

LEMMA ResetFields ==
  ASSUME NEW t \in Tasks, IInv, NEW s \in States
  PROVE  LET m == task[t]
             v == ResetTimeout(t, s)
         IN  /\ v.life = m.life /\ v.parent = m.parent /\ v.done = m.done
             /\ v.aborted = m.aborted /\ v.blocked = m.blocked /\ v.error = m.error
             /\ v.state = s /\ v.busy = FALSE
             /\ v \in Members /\ (s = "DONE" \/ s = "ERROR" => v.timeout_time = 0)
<1> DEFINE m == task[t]
           time == IF m.timeout_seconds > 0 /\ s \notin {"INIT", "DONE", "ERROR"}
                     THEN now + m.timeout_seconds ELSE 0
           v == [m EXCEPT !.state = s, !.busy = FALSE, !.late = FALSE,
                          !.timeout_time = time]
<1>1. m \in Members
  BY DEF IInv
<1>2. ResetTimeout(t, s) = v /\ ResetTimeout(t, s) \in Members
  BY ResetSound DEF ResetTimeout
<1>3. s = "DONE" \/ s = "ERROR" => time = 0
  OBVIOUS
<1> HIDE DEF m, time
<1>4. /\ v.life = m.life /\ v.parent = m.parent /\ v.done = m.done
      /\ v.aborted = m.aborted /\ v.blocked = m.blocked /\ v.error = m.error
      /\ v.state = s /\ v.busy = FALSE /\ v.timeout_time = time
  BY <1>1 DEF Members
<1> HIDE DEF v
<1> QED
  BY <1>2, <1>3, <1>4 DEF m

\* The task at the runner's position changes, and no other.
LEMMA OneStep ==
  ASSUME TreeInv, IInv', NEW c \in Tasks, c = Current, at \in 1..Len(tasks_), NEW v,
         task' = [task EXCEPT ![c] = v], Alike(task[c], v),
         task[c].blocked => v.blocked, v.state = "INIT" => v.timeout_time = 0,
         \A u \in Tasks \ {c} : ~task[u].busy, ~destroyed, did_run' \in BOOLEAN,
         Timed(task', tasks_, next_timeout_task_'),
         UNCHANGED <<children, tasks_, at, posted, destroyed, now, calls>>
  PROVE  TreeInv'
<1>1. task \in Known
  BY KnownTasks DEF TreeInv
<1>2. \A u \in Tasks : task'[u] = IF u = c THEN v ELSE task[u]
  BY <1>1 DEF Known
<1>3. Same(task, task')
  BY <1>1, OneAlike
<1>4. Shapes'
  BY DEF TreeInv, Shapes
<1>5. Fresh(task')
  BY <1>2 DEF TreeInv, Tree, Fresh
<1>6. OneBusy'
  <2> SUFFICES ASSUME NEW u \in Tasks, task'[u].busy PROVE (InProcess /\ u = Current)'
    BY DEF OneBusy
  <2>1. u = c /\ Current' = c
    BY <1>2 DEF Current
  <2>2. at' > 0 /\ at' <= Len(tasks_')
    OBVIOUS
  <2> QED
    BY <2>1, <2>2 DEF InProcess, Running
<1>7. ASSUME ~posted' PROVE Tidy(task', tasks_, at')
  <2>1. Passed(task, tasks_, at)
    BY <1>7 DEF TreeInv, Loop
  <2>2. \A i \in 1..Len(tasks_) : tasks_[i] \in Tasks
    BY DEF TreeInv, Loop, Listed
  <2>3. Passed(task', tasks_, at')
    BY <1>2, <2>1, <2>2 DEF Passed
  <2> QED
    BY <2>3 DEF Tidy
<1> QED
  BY <1>3, <1>4, <1>5, <1>6, <1>7, SameInv

\* What the time-outs of the other tasks are is not changed.
LEMMA OthersTimes ==
  ASSUME NEW T \in Known, NEW c \in Tasks, NEW v
  PROVE  \A u \in Tasks \ {c} : (T[u].done => [T EXCEPT ![c] = v][u].done) /\
                                [T EXCEPT ![c] = v][u].timeout_time = T[u].timeout_time
BY DEF Known

LEMMA StepInitTree == TreeInv /\ IInv' /\ StepInit => TreeInv'
<1> SUFFICES ASSUME TreeInv, IInv', StepInit PROVE TreeInv'
  OBVIOUS
<1>1. PICK c : c = Current
  OBVIOUS
<1>2. PICK v : v = ResetTimeout(c, "START")
  OBVIOUS
<1>3. Stepping /\ UNCHANGED <<children, tasks_, at, posted, destroyed, now, calls>>
      /\ task' = [task EXCEPT ![c] = v] /\ did_run' = TRUE
      /\ next_timeout_task_' = UpdateTaskTimeout(task', c)
  BY <1>1, <1>2 DEF StepInit, Stepping, bound
<1>4. /\ at \in 1..Len(tasks_) /\ c \in Tasks /\ OnList(tasks_, c) /\ ~destroyed
      /\ \A u \in Tasks : ~task[u].busy
  BY <1>1, <1>3, SteppedLives
<1>5. /\ v.life = task[c].life /\ v.parent = task[c].parent /\ v.done = task[c].done
      /\ v.aborted = task[c].aborted /\ v.blocked = task[c].blocked /\ v.state = "START"
  <2>1. "START" \in States
    BY DEF States
  <2> QED
    BY <1>2, <1>4, <2>1, ResetFields DEF TreeInv
<1>6. Alike(task[c], v)
  BY <1>4, <1>5 DEF Alike
<1>7. Timed(task', tasks_, next_timeout_task_')
  <2>1. task \in Known /\ task' \in Known /\ Loop
    BY KnownTasks DEF TreeInv, IInv, Known
  <2>2. \A u \in Tasks \ {c} : (task[u].done => task'[u].done) /\
                               task'[u].timeout_time = task[u].timeout_time
    BY <1>3, <1>4, <2>1, OthersTimes
  <2> QED
    BY <1>3, <1>4, <2>1, <2>2, UpdateTimed
<1> QED
  BY <1>1, <1>3, <1>4, <1>5, <1>6, <1>7, OneStep

LEMMA EndResponseTree == TreeInv /\ IInv' /\ EndResponse => TreeInv'
<1> SUFFICES ASSUME TreeInv, IInv', EndResponse PROVE TreeInv'
  OBVIOUS
<1>1. PICK c : c = Current
  OBVIOUS
<1>2. PICK v : v = ResetTimeout(c, "RESPONSE")
  OBVIOUS
<1>3. InProcess /\ UNCHANGED <<children, tasks_, at, did_run, posted, destroyed, now, calls>>
      /\ task' = [task EXCEPT ![c] = v] /\ ~task[c].aborted
      /\ next_timeout_task_' = UpdateTaskTimeout(task', c)
  BY <1>1, <1>2 DEF EndResponse, Ending, loop, bound, AbortedInProcess
<1>4. /\ at \in 1..Len(tasks_) /\ c \in Tasks /\ OnList(tasks_, c) /\ ~destroyed
      /\ \A u \in Tasks : task[u].busy => u = c
  BY <1>1, <1>3, BusyLives
<1>5. /\ v.life = task[c].life /\ v.parent = task[c].parent /\ v.done = task[c].done
      /\ v.aborted = task[c].aborted /\ v.blocked = task[c].blocked /\ v.state = "RESPONSE"
  <2>1. "RESPONSE" \in States
    BY DEF States
  <2> QED
    BY <1>2, <1>4, <2>1, ResetFields DEF TreeInv
<1>6. Alike(task[c], v)
  BY <1>3, <1>5 DEF Alike
<1>7. Timed(task', tasks_, next_timeout_task_')
  <2>1. task \in Known /\ task' \in Known /\ Loop
    BY KnownTasks DEF TreeInv, IInv, Known
  <2>2. \A u \in Tasks \ {c} : (task[u].done => task'[u].done) /\
                               task'[u].timeout_time = task[u].timeout_time
    BY <1>3, <1>4, <2>1, OthersTimes
  <2> QED
    BY <1>3, <1>4, <2>1, <2>2, UpdateTimed
<1>8. did_run' \in BOOLEAN
  BY <1>3 DEF TreeInv, Shapes
<1> QED
  BY <1>1, <1>3, <1>4, <1>5, <1>6, <1>7, <1>8, OneStep

\* Nothing that has a time-out changes it.
LEMMA TimedStays ==
  ASSUME TreeInv, NEW U,
         \A u \in Tasks : (task[u].done => U[u].done) /\
                          (U[u].done \/ U[u].timeout_time = task[u].timeout_time)
  PROVE  Timed(U, tasks_, next_timeout_task_)
<1>1. \A i \in 1..Len(tasks_) : tasks_[i] \in Tasks
  BY DEF TreeInv, Loop, Listed
<1> QED
  BY <1>1 DEF TreeInv, Loop, Timed, NoneDue

LEMMA EndBlockedTree == TreeInv /\ IInv' /\ EndBlocked => TreeInv'
<1> SUFFICES ASSUME TreeInv, IInv', EndBlocked PROVE TreeInv'
  OBVIOUS
<1>1. PICK c : c = Current
  OBVIOUS
<1>2. PICK m : m = task[c]
  OBVIOUS
<1>3. PICK v : v = [m EXCEPT !.busy = FALSE, !.blocked = TRUE]
  OBVIOUS
<1>4. InProcess /\ UNCHANGED <<children, tasks_, at, did_run, posted, destroyed, now, calls>>
      /\ task' = [task EXCEPT ![c] = v] /\ ~m.aborted
      /\ next_timeout_task_' = next_timeout_task_
  BY <1>1, <1>2, <1>3, KnownTasks
     DEF EndBlocked, Ending, loop, bound, AbortedInProcess, TreeInv, Known
<1>5. /\ at \in 1..Len(tasks_) /\ c \in Tasks /\ OnList(tasks_, c) /\ ~destroyed
      /\ \A u \in Tasks : task[u].busy => u = c
  BY <1>1, <1>4, BusyLives
<1>6. m \in Members
  BY <1>2, <1>5 DEF TreeInv, IInv
<1>7. /\ v.life = m.life /\ v.parent = m.parent /\ v.done = m.done /\ v.aborted = m.aborted
      /\ v.blocked /\ v.state = m.state /\ v.timeout_time = m.timeout_time
  BY <1>3, <1>6 DEF Members
<1>8. Alike(task[c], v)
  BY <1>2, <1>4, <1>7 DEF Alike
<1>9. v.state = "INIT" => v.timeout_time = 0
  BY <1>2, <1>5, <1>7 DEF TreeInv, Tree, Fresh
<1>10. Timed(task', tasks_, next_timeout_task_')
  <2>1. task \in Known
    BY KnownTasks DEF TreeInv
  <2>2. \A u \in Tasks : (task[u].done => task'[u].done) /\
                         task'[u].timeout_time = task[u].timeout_time
    BY <1>2, <1>4, <1>5, <1>7, <2>1 DEF Known
  <2> QED
    BY <1>4, <2>2, TimedStays
<1>11. did_run' \in BOOLEAN
  BY <1>4 DEF TreeInv, Shapes
<1> QED
  BY <1>1, <1>2, <1>4, <1>5, <1>7, <1>8, <1>9, <1>10, <1>11, OneStep

LEMMA StepBeginTree == TreeInv /\ IInv' /\ StepBegin => TreeInv'
<1> SUFFICES ASSUME TreeInv, IInv', StepBegin PROVE TreeInv'
  OBVIOUS
<1>1. PICK c : c = Current
  OBVIOUS
<1>2. PICK m : m = task[c]
  OBVIOUS
<1>3. PICK late : late = TimedOut(c)
  OBVIOUS
<1>4. PICK time : time = IF late THEN 0 ELSE m.timeout_time
  OBVIOUS
<1>5. PICK v : v = [m EXCEPT !.busy = TRUE, !.late = late, !.timeout_time = time]
  OBVIOUS
<1>6. Stepping /\ UNCHANGED <<children, tasks_, at, posted, destroyed, now, calls>>
      /\ task' = [task EXCEPT ![c] = v] /\ did_run' = TRUE /\ m.state # "INIT"
      /\ next_timeout_task_' = IF late THEN UpdateTaskTimeout(task', c) ELSE next_timeout_task_
  <2> DEFINE w == [task[Current] EXCEPT !.busy = TRUE, !.late = TimedOut(Current),
                     !.timeout_time = IF TimedOut(Current) THEN 0 ELSE @]
  <2>1. task' = [task EXCEPT ![Current] = w]
    BY KnownTasks DEF StepBegin, TreeInv, Known
  <2>2. v = w
    BY <1>1, <1>2, <1>3, <1>4, <1>5
  <2>3. task' = [task EXCEPT ![c] = v]
    BY <1>1, <2>1, <2>2
  <2> HIDE DEF w
  <2> QED
    BY <1>1, <1>2, <1>3, <2>3 DEF StepBegin, Stepping, bound
<1>7. /\ at \in 1..Len(tasks_) /\ c \in Tasks /\ OnList(tasks_, c) /\ ~destroyed
      /\ \A u \in Tasks : ~task[u].busy
  BY <1>1, <1>6, SteppedLives
<1>8. m \in Members /\ task \in Known
  BY <1>2, <1>7, KnownTasks DEF TreeInv, IInv
<1>9. /\ v.life = m.life /\ v.parent = m.parent /\ v.done = m.done /\ v.aborted = m.aborted
      /\ v.blocked = m.blocked /\ v.state = m.state /\ v.timeout_time = time /\ v.busy
  BY <1>5, <1>8 DEF Members
<1>10. Alike(task[c], v)
  BY <1>2, <1>9 DEF Alike
<1>11. Timed(task', tasks_, next_timeout_task_')
  <2>1. task' \in Known /\ Loop
    BY DEF TreeInv, IInv, Known
  <2>2. \A u \in Tasks \ {c} : (task[u].done => task'[u].done) /\
                               task'[u].timeout_time = task[u].timeout_time
    BY <1>6, <1>7, <1>8, OthersTimes
  <2>3. CASE late
    BY <1>6, <1>7, <1>8, <2>1, <2>2, <2>3, UpdateTimed
  <2>4. CASE ~late
    <3>1. \A u \in Tasks : (task[u].done => task'[u].done) /\
                           task'[u].timeout_time = task[u].timeout_time
      BY <1>2, <1>4, <1>6, <1>7, <1>8, <1>9, <2>4 DEF Known
    <3> QED
      BY <1>6, <2>4, <3>1, TimedStays
  <2> QED
    BY <2>3, <2>4
<1> QED
  BY <1>1, <1>2, <1>6, <1>7, <1>9, <1>10, <1>11, OneStep

-------------------------------------------------------------------------------
\* Tasks stop, with their families.

\* T are the members before the tasks of F are aborted, but for those of X.
Stops(T, F, X) ==
  /\ T \in Known /\ F \in SUBSET Tasks /\ X \in SUBSET F
  /\ task' = Aborted(T, F \ X) /\ children' = Orphaned(T, F)
  /\ Closed(T, children, F) /\ \A x \in X : T[x].done /\ ~T[x].busy

\* T differs from the members by what has happened to one task.
Leads(T, F, X) ==
  /\ Rooted(T, children) /\ Fresh(T)
  /\ \A u \in Tasks :
       /\ T[u].life = task[u].life /\ T[u].parent = task[u].parent
       /\ task[u].blocked => T[u].blocked
  /\ \A u \in Tasks : T[u].life = "live" /\ T[u].parent # Runner /\ T[T[u].parent].done =>
                        Halting(T[u]) \/ u \in F \/ T[u].parent \in X

LEMMA HaltInv ==
  ASSUME TreeInv, IInv', NEW T, NEW F, NEW X, Stops(T, F, X), Leads(T, F, X),
         Timed(T, tasks_, next_timeout_task_'),
         (\A u \in Tasks : ~T[u].busy) \/ T = task,
         ~posted' => ~posted /\ at # 0, posted' \in BOOLEAN, did_run' \in BOOLEAN,
         ~destroyed, UNCHANGED <<tasks_, at, destroyed, now, calls>>
  PROVE  TreeInv'
<1> DEFINE A == Aborted(T, F \ X)
<1>1. T \in Known /\ F \in SUBSET Tasks /\ X \in SUBSET F /\ task' = A
      /\ children' = Orphaned(T, F)
  BY DEF Stops
<1>2. \A u \in Tasks :
        /\ A[u].life = T[u].life /\ A[u].parent = T[u].parent /\ A[u].state = T[u].state
        /\ A[u].busy = T[u].busy /\ A[u].timeout_time = T[u].timeout_time
        /\ (T[u].blocked => A[u].blocked) /\ (T[u].done => A[u].done)
  BY <1>1, AbortedFields
<1> HIDE DEF A
<1>3. children \in [Parents -> SUBSET Tasks]
  BY DEF TreeInv, Shapes
<1>4. Rooted(task', children') /\ Stopped(task')
  <2>1. /\ Rooted(Aborted(T, F \ X), [p \in Parents |-> children[p] \ {u \in F : ~T[u].busy}])
        /\ Stopped(Aborted(T, F \ X))
    BY <1>1, <1>3, AbortStops DEF Stops, Leads
  <2> QED
    BY <1>1, <2>1 DEF Orphaned, A
<1>5. Aged(task')
  <2>1. \A u \in Tasks : task'[u].life = task[u].life /\ task'[u].parent = task[u].parent
    BY <1>1, <1>2 DEF Leads
  <2> QED
    BY <2>1 DEF TreeInv, Tree, Aged
<1>6. Fresh(task')
  BY <1>1, <1>2 DEF Leads, Fresh
<1>7. tasks_ \in Seq(Tasks) /\ \A i \in 1..Len(tasks_) : tasks_[i] \in Tasks
  BY DEF TreeInv, Loop, Listed
<1>8. Listed(task', tasks_)
  BY <1>1, <1>2, <1>7 DEF TreeInv, Loop, Listed, Leads
<1>9. Timed(task', tasks_, next_timeout_task_')
  <2>1. NoneDue(T, tasks_) => NoneDue(task', tasks_)
    BY <1>1, <1>2, <1>7 DEF NoneDue
  <2> QED
    BY <2>1 DEF Timed
<1>10. OneBusy'
  <2>1. CASE \A u \in Tasks : ~T[u].busy
    BY <1>1, <1>2, <2>1 DEF OneBusy
  <2>2. CASE T = task
    <3>1. \A u \in Tasks : task'[u].busy = task[u].busy
      BY <1>1, <1>2, <2>2
    <3>2. InProcess => task'[Current].busy
      BY <3>1, BusyLives
    <3>3. Len(tasks_') >= Len(tasks_) /\ \A i \in 1..Len(tasks_) : tasks_'[i] = tasks_[i]
      BY <1>7
    <3> QED
      BY <1>7, <3>1, <3>2, <3>3, StillBusy
  <2> QED
    BY <2>1, <2>2
<1>11. ASSUME ~posted' PROVE Passed(task', tasks_, at') /\ at' # 0
  <2>1. Passed(task, tasks_, at)
    BY <1>11 DEF TreeInv, Loop
  <2> QED
    BY <1>1, <1>2, <1>7, <1>11, <2>1 DEF Passed, Leads
<1>12. Shapes'
  <2>1. Orphaned(T, F) \in [Parents -> SUBSET Tasks]
    BY <1>3 DEF Orphaned
  <2> QED
    BY <1>1, <2>1 DEF TreeInv, Shapes
<1> QED
  BY <1>4, <1>5, <1>6, <1>8, <1>9, <1>10, <1>11, <1>12 DEF TreeInv, Tree, Loop

LEMMA AbortTree == ASSUME TreeInv, IInv', NEW t \in Tasks, Abort(t) PROVE TreeInv'
<1> DEFINE F == Family(task, t)
<1>1. task \in Known /\ ~destroyed /\ children \in [Parents -> SUBSET Tasks]
      /\ (at = 0 \/ InProcess)
  BY OutsideLives, KnownTasks DEF Abort, TreeInv, Shapes
<1>2. F \subseteq Tasks /\ Closed(task, children, F)
  BY <1>1, FamilyCloses
<1>3. task' = Aborted(task, F) /\ children' = Orphaned(task, F)
      /\ posted' = (posted \/ ~task[t].busy)
      /\ UNCHANGED <<tasks_, next_timeout_task_, at, did_run, destroyed, now, calls>>
  BY DEF Abort, loop, bound
<1> HIDE DEF F
<1>4. Stops(task, F, {})
  <2>1. F \ {} = F
    OBVIOUS
  <2> QED
    BY <1>1, <1>2, <1>3, <2>1 DEF Stops
<1>5. Leads(task, F, {})
  BY DEF Leads, TreeInv, Tree, Stopped
<1>6. posted' \in BOOLEAN /\ did_run' \in BOOLEAN
  BY <1>3 DEF TreeInv, Shapes
<1>7. ~posted' => ~posted /\ at # 0
  <2>1. ~posted' => ~posted /\ task[t].busy
    BY <1>3
  <2>2. task[t].busy => at # 0
    BY DEF TreeInv, Loop, OneBusy, InProcess, Running, Shapes
  <2> QED
    BY <2>1, <2>2
<1>8. Timed(task, tasks_, next_timeout_task_')
  BY <1>3 DEF TreeInv, Loop
<1> QED
  BY <1>1, <1>3, <1>4, <1>5, <1>6, <1>7, <1>8, HaltInv

\* What has happened to the task that is being stepped.
LEMMA OneLeads ==
  ASSUME TreeInv, NEW c \in Tasks, NEW v, NEW F, NEW X,
         v.life = task[c].life, v.parent = task[c].parent,
         task[c].blocked => v.blocked, v.state = "INIT" => v.timeout_time = 0,
         task[c].done => v.done, ~v.done => c \in F,
         v.done => (task[c].done \/ c \in X)
  PROVE  Leads([task EXCEPT ![c] = v], F, X)
<1> DEFINE T == [task EXCEPT ![c] = v]
<1>1. task \in Known
  BY KnownTasks DEF TreeInv
<1>2. \A u \in Tasks : T[u] = IF u = c THEN v ELSE task[u]
  BY <1>1 DEF Known
<1>3. \A u \in Tasks : task[u].parent # Runner => task[u].parent \in Tasks
  BY <1>1 DEF Known, Members, Parents
<1> HIDE DEF T
<1>4. Rooted(task, children) /\ Stopped(task) /\ Fresh(task)
  BY DEF TreeInv, Tree
<1>5. \A u \in Tasks : /\ T[u].life = task[u].life /\ T[u].parent = task[u].parent
                       /\ (task[u].blocked => T[u].blocked) /\ (task[u].done => T[u].done)
  BY <1>2
<1>6. Rooted(T, children)
  BY <1>3, <1>4, <1>5 DEF Rooted
<1>7. Fresh(T)
  BY <1>2, <1>4 DEF Fresh
<1>8. ASSUME NEW u \in Tasks, T[u].life = "live", T[u].parent # Runner, T[T[u].parent].done
      PROVE  Halting(T[u]) \/ u \in F \/ T[u].parent \in X
  <2>1. task[u].life = "live" /\ task[u].parent # Runner /\ task[u].parent \in Tasks
        /\ T[u].parent = task[u].parent
    BY <1>3, <1>5, <1>8
  <2>2. task[task[u].parent].done \/ T[u].parent \in X
    BY <1>2, <1>8, <2>1
  <2>3. CASE task[task[u].parent].done
    <3>1. Halting(task[u])
      BY <1>4, <2>1, <2>3 DEF Stopped
    <3> QED
      BY <1>2, <3>1 DEF Halting
  <2> QED
    BY <2>2, <2>3
<1> QED
  BY <1>5, <1>6, <1>7, <1>8 DEF Leads, T

LEMMA StepErrorTree == TreeInv /\ IInv' /\ StepError => TreeInv'
<1> SUFFICES ASSUME TreeInv, IInv', StepError PROVE TreeInv'
  OBVIOUS
<1>1. PICK c : c = Current
  OBVIOUS
<1>2. PICK m : m = task[c]
  OBVIOUS
<1>3. PICK v : v = [m EXCEPT !.done = TRUE, !.blocked = TRUE, !.state = "ERROR"]
  OBVIOUS
<1>4. PICK T : T = [task EXCEPT ![c] = v]
  OBVIOUS
<1>5. Stepping /\ StopTask(T, c) /\ did_run' = TRUE
      /\ UNCHANGED <<tasks_, at, posted, destroyed, now, calls, next_timeout_task_>>
  BY <1>1, <1>2, <1>3, <1>4, KnownTasks DEF StepError, Stepping, bound, TreeInv, Known
<1>6. /\ at \in 1..Len(tasks_) /\ c \in Tasks /\ ~destroyed
      /\ \A u \in Tasks : ~task[u].busy
  BY <1>1, <1>5, SteppedLives
<1>7. m \in Members /\ Sound(m) /\ task \in Known /\ children \in [Parents -> SUBSET Tasks]
  BY <1>2, <1>6, KnownTasks DEF TreeInv, IInv, Shapes
<1>8. /\ v.life = m.life /\ v.parent = m.parent /\ v.done /\ v.blocked /\ v.busy = m.busy
      /\ v.state = "ERROR" /\ v.timeout_time = m.timeout_time /\ v \in Members
  BY <1>3, <1>7 DEF Members, States
<1>9. ~v.busy
  BY <1>2, <1>6, <1>8
<1>10. T \in Known
  <2>1. Sound(v)
    BY <1>8, <1>9 DEF Sound
  <2> QED
    BY <1>4, <1>7, <2>1, ExceptSound DEF Known
<1>11. \A u \in Tasks : T[u] = IF u = c THEN v ELSE task[u]
  BY <1>4, <1>7 DEF Known
<1>12. PICK F : F = Family(T, c)
  OBVIOUS
<1>13. F \subseteq Tasks /\ c \in F /\ Closed(T, children, F)
  BY <1>6, <1>7, <1>12, FamilyCloses
<1>14. Stops(T, F, {c})
  <2>1. (F \ {c}) \cup {c} = F
    BY <1>13
  <2> QED
    BY <1>5, <1>6, <1>8, <1>9, <1>10, <1>11, <1>12, <1>13, <2>1 DEF Stops, StopTask
<1>15. Leads(T, F, {c})
  BY <1>2, <1>4, <1>6, <1>8, OneLeads
<1>16. Timed(T, tasks_, next_timeout_task_')
  <2>1. \A u \in Tasks : (task[u].done => T[u].done) /\ T[u].timeout_time = task[u].timeout_time
    BY <1>2, <1>8, <1>11
  <2> QED
    BY <1>5, <2>1, TimedStays
<1>17. at # 0 /\ posted' \in BOOLEAN /\ \A u \in Tasks : ~T[u].busy
  BY <1>5, <1>6, <1>9, <1>11 DEF TreeInv, Shapes
<1> QED
  BY <1>5, <1>6, <1>14, <1>15, <1>16, <1>17, HaltInv

LEMMA EndAbortedTree == TreeInv /\ IInv' /\ EndAborted => TreeInv'
<1> SUFFICES ASSUME TreeInv, IInv', EndAborted PROVE TreeInv'
  OBVIOUS
<1>1. PICK c : c = Current
  OBVIOUS
<1>2. PICK m : m = task[c]
  OBVIOUS
<1>3. PICK v : v = [m EXCEPT !.busy = FALSE]
  OBVIOUS
<1>4. PICK T : T = [task EXCEPT ![c] = v]
  OBVIOUS
<1>5. PICK F : F = Family(T, c)
  OBVIOUS
<1>6. InProcess /\ task' = Aborted(T, F) /\ children' = Orphaned(T, F)
      /\ UNCHANGED <<tasks_, at, did_run, posted, destroyed, now, calls, next_timeout_task_>>
  <2>1. T = [task EXCEPT ![c].busy = FALSE]
    BY <1>2, <1>3, <1>4, KnownTasks DEF TreeInv, Known
  <2> QED
    BY <1>1, <1>5, <2>1 DEF EndAborted, Ending, loop, bound
<1>7. /\ at \in 1..Len(tasks_) /\ c \in Tasks /\ ~destroyed /\ ~m.done
      /\ \A u \in Tasks : task[u].busy => u = c
  BY <1>1, <1>2, <1>6, BusyLives
<1>8. m \in Members /\ task \in Known /\ children \in [Parents -> SUBSET Tasks]
  BY <1>2, <1>7, KnownTasks DEF TreeInv, IInv, Shapes
<1>9. /\ v.life = m.life /\ v.parent = m.parent /\ v.done = m.done /\ v.blocked = m.blocked
      /\ ~v.busy /\ v.state = m.state /\ v.timeout_time = m.timeout_time /\ v \in Members
  BY <1>3, <1>8 DEF Members
<1>10. T \in Known
  <2>1. Sound(v)
    BY <1>7, <1>9 DEF Sound
  <2> QED
    BY <1>4, <1>8, <2>1, ExceptSound DEF Known
<1>11. \A u \in Tasks : T[u] = IF u = c THEN v ELSE task[u]
  BY <1>4, <1>8 DEF Known
<1>12. F \subseteq Tasks /\ c \in F /\ Closed(T, children, F)
  BY <1>5, <1>7, <1>8, FamilyCloses
<1>13. Stops(T, F, {})
  <2>1. F \ {} = F
    OBVIOUS
  <2> QED
    BY <1>6, <1>10, <1>12, <2>1 DEF Stops
<1>14. Leads(T, F, {})
  <2>1. v.state = "INIT" => v.timeout_time = 0
    BY <1>2, <1>7, <1>9 DEF TreeInv, Tree, Fresh
  <2> QED
    BY <1>2, <1>4, <1>7, <1>9, <1>12, <2>1, OneLeads
<1>15. Timed(T, tasks_, next_timeout_task_')
  <2>1. \A u \in Tasks : (task[u].done => T[u].done) /\ T[u].timeout_time = task[u].timeout_time
    BY <1>2, <1>9, <1>11
  <2> QED
    BY <1>6, <2>1, TimedStays
<1>16. at # 0 /\ posted' \in BOOLEAN /\ did_run' \in BOOLEAN /\ \A u \in Tasks : ~T[u].busy
  BY <1>6, <1>7, <1>9, <1>11 DEF TreeInv, Shapes
<1> QED
  BY <1>6, <1>7, <1>13, <1>14, <1>15, <1>16, HaltInv

LEMMA EndDoneTree ==
  ASSUME TreeInv, IInv', NEW s \in {"DONE", "ERROR"}, EndDone(s)
  PROVE  TreeInv'
<1>1. PICK c : c = Current
  OBVIOUS
<1>2. PICK m : m = ResetTimeout(c, s)
  OBVIOUS
<1>3. PICK e : e = (s = "ERROR" \/ task[c].error)
  OBVIOUS
<1>4. PICK v : v = [m EXCEPT !.done = TRUE, !.blocked = TRUE, !.error = e]
  OBVIOUS
<1>5. PICK T : T = [task EXCEPT ![c] = v]
  OBVIOUS
<1>6. InProcess /\ StopTask(T, c) /\ next_timeout_task_' = UpdateTaskTimeout(T, c)
      /\ UNCHANGED <<tasks_, at, did_run, posted, destroyed, now, calls>>
  BY <1>1, <1>2, <1>3, <1>4, <1>5 DEF EndDone, Ending, loop, bound
<1>7. /\ at \in 1..Len(tasks_) /\ c \in Tasks /\ ~destroyed /\ OnList(tasks_, c)
      /\ \A u \in Tasks : task[u].busy => u = c
  BY <1>1, <1>6, BusyLives
<1>8. task \in Known /\ children \in [Parents -> SUBSET Tasks] /\ task[c].error \in BOOLEAN
  BY <1>7, KnownTasks DEF TreeInv, IInv, Shapes, Members
<1>9. /\ m.life = task[c].life /\ m.parent = task[c].parent /\ m.busy = FALSE /\ m.state = s
      /\ m \in Members
  <2>1. s \in States
    BY DEF States
  <2> QED
    BY <1>2, <1>7, <2>1, ResetFields DEF TreeInv
<1>10. e \in BOOLEAN
  BY <1>3, <1>8
<1>11. /\ v.life = m.life /\ v.parent = m.parent /\ v.done /\ v.blocked /\ ~v.busy
       /\ v.state = s /\ v \in Members
  BY <1>4, <1>9, <1>10 DEF Members
<1>12. T \in Known
  <2>1. Sound(v)
    BY <1>11 DEF Sound
  <2> QED
    BY <1>5, <1>8, <2>1, ExceptSound DEF Known
<1>13. \A u \in Tasks : T[u] = IF u = c THEN v ELSE task[u]
  BY <1>5, <1>8 DEF Known
<1>14. PICK F : F = Family(T, c)
  OBVIOUS
<1>15. F \subseteq Tasks /\ c \in F /\ Closed(T, children, F)
  BY <1>7, <1>8, <1>14, FamilyCloses
<1>16. Stops(T, F, {c})
  <2>1. (F \ {c}) \cup {c} = F
    BY <1>15
  <2> QED
    BY <1>6, <1>7, <1>11, <1>12, <1>13, <1>14, <1>15, <2>1 DEF Stops, StopTask
<1>17. Leads(T, F, {c})
  <2>1. v.state # "INIT"
    BY <1>11
  <2> QED
    BY <1>5, <1>7, <1>9, <1>11, <2>1, OneLeads
<1>18. Timed(T, tasks_, next_timeout_task_')
  <2>1. \A u \in Tasks \ {c} : (task[u].done => T[u].done) /\
                               T[u].timeout_time = task[u].timeout_time
    BY <1>13
  <2> QED
    BY <1>6, <1>7, <1>8, <1>12, <2>1, UpdateTimed DEF TreeInv
<1>19. at # 0 /\ posted' \in BOOLEAN /\ did_run' \in BOOLEAN /\ \A u \in Tasks : ~T[u].busy
  BY <1>6, <1>7, <1>11, <1>13 DEF TreeInv, Shapes
<1> QED
  BY <1>6, <1>7, <1>16, <1>17, <1>18, <1>19, HaltInv

-------------------------------------------------------------------------------
\* Tasks are deleted.

LEMMA DeletedFields ==
  LET m == NoTask("deleted") IN
  /\ m.life = "deleted" /\ m.parent = Runner /\ m.done = FALSE /\ m.busy = FALSE
  /\ m.timeout_time = 0
BY DEF NoTask, NewTask

\* The tasks of D are gone, which nothing was going to happen to.
Without(T, D) == [t \in Tasks |-> IF t \in D THEN NoTask("deleted") ELSE T[t]]

LEMMA DeletionKeeps ==
  ASSUME NEW T \in Known, NEW c, NEW D \in SUBSET Tasks,
         \A d \in D : T[d].life = "live" /\ T[d].done, \A u \in Tasks : ~T[u].busy,
         Rooted(T, c), Stopped(T), Aged(T), Fresh(T)
  PROVE  /\ Rooted(Without(T, D), c) /\ Stopped(Without(T, D))
         /\ Aged(Without(T, D)) /\ Fresh(Without(T, D))
         /\ \A u \in Tasks : ~Without(T, D)[u].busy
<1> DEFINE W == Without(T, D)
<1>1. \A u \in Tasks : W[u] = IF u \in D THEN NoTask("deleted") ELSE T[u]
  BY DEF Without
<1>2. \A u \in D : /\ W[u].life = "deleted" /\ W[u].parent = Runner /\ W[u].done = FALSE
                   /\ W[u].busy = FALSE /\ W[u].timeout_time = 0
  BY <1>1, DeletedFields
<1>3. \A u \in Tasks : u \notin D => W[u] = T[u]
  BY <1>1
<1> HIDE DEF W
<1>4. \A u \in Tasks : T[u].parent # Runner => T[u].parent \in Tasks
  BY DEF Known, Members, Parents
<1>5. ASSUME NEW u \in Tasks, W[u].life = "live", ~W[u].done
      PROVE  /\ u \in c[W[u].parent]
             /\ W[u].parent # Runner => W[W[u].parent].life = "live"
  <2>1. u \notin D /\ W[u] = T[u] /\ T[u].life = "live" /\ ~T[u].done
    BY <1>2, <1>3, <1>5
  <2>2. u \in c[T[u].parent]
    BY <2>1 DEF Rooted
  <2>3. ASSUME T[u].parent # Runner PROVE W[T[u].parent].life = "live"
    <3> DEFINE p == T[u].parent
    <3>1. p \in Tasks /\ T[p].life = "live"
      BY <1>4, <2>1, <2>3 DEF Rooted
    <3>2. ~T[p].done
      BY <2>1, <2>3 DEF Stopped, Halting
    <3>3. p \notin D
      BY <3>2
    <3> QED
      BY <1>3, <3>1, <3>3
  <2> QED
    BY <2>1, <2>2, <2>3
<1>6. ASSUME NEW u \in Tasks, W[u].life = "live", W[u].parent # Runner, W[W[u].parent].done
      PROVE  Halting(W[u])
  <2>1. u \notin D /\ W[u] = T[u]
    BY <1>2, <1>3, <1>6
  <2>2. T[u].parent \in Tasks \ D
    BY <1>2, <1>4, <1>6, <2>1
  <2> QED
    BY <1>3, <1>6, <2>1, <2>2 DEF Stopped
<1>7. Aged(W)
  BY <1>2, <1>3 DEF Aged
<1>8. Fresh(W) /\ \A u \in Tasks : ~W[u].busy
  BY <1>2, <1>3 DEF Fresh
<1> QED
  BY <1>5, <1>6, <1>7, <1>8 DEF Rooted, Stopped, W

\* The lists hold the tasks that are left.
LEMMA KeptListed ==
  ASSUME NEW T, NEW s, Listed(T, s), NEW K, NEW U,
         \A i \in 1..Len(s) : s[i] \in K => U[s[i]].life = "live"
  PROVE  /\ Listed(U, Keep(s, K))
         /\ \A k \in 1..Len(Keep(s, K)) : Keep(s, K)[k] \in K /\ OnList(s, Keep(s, K)[k])
         /\ \A t : OnList(s, t) /\ t \in K => OnList(Keep(s, K), t)
<1> DEFINE r == Keep(s, K)
<1>1. s \in Seq(Tasks) /\ \A i, j \in 1..Len(s) : s[i] = s[j] => i = j
  BY DEF Listed
<1>2. r \in Seq(Tasks)
  BY <1>1, KeepType
<1>3. \A k \in 1..Len(r) : r[k] \in K /\ \E i \in 1..Len(s) : s[i] = r[k]
  BY <1>1, KeepMembers
<1>4. \A i \in 1..Len(s) : s[i] \in K => \E k \in 1..Len(r) : r[k] = s[i]
  BY <1>1, KeepMembers
<1>5. \A i, j \in 1..Len(r) : r[i] = r[j] => i = j
  BY <1>1, KeepNoRepeats
<1> HIDE DEF r
<1>6. \A k \in 1..Len(r) : r[k] \in K /\ r[k] \in Tasks /\ OnList(s, r[k])
  BY <1>2, <1>3 DEF OnList
<1>7. ASSUME NEW k \in 1..Len(r) PROVE U[r[k]].life = "live"
  <2>1. PICK i \in 1..Len(s) : s[i] = r[k]
    BY <1>3
  <2> QED
    BY <1>6, <2>1
<1>8. \A t : OnList(s, t) /\ t \in K => OnList(r, t)
  BY <1>4 DEF OnList
<1>9. Listed(U, r)
  BY <1>2, <1>5, <1>7 DEF Listed
<1> QED
  BY <1>6, <1>8, <1>9 DEF r

LEMMA RunEndTree == TreeInv /\ IInv' /\ RunEnd => TreeInv'
<1> SUFFICES ASSUME TreeInv, IInv', RunEnd PROVE TreeInv'
  OBVIOUS
<1> DEFINE K == {t \in Tasks : ~task[t].done}
           n == next_timeout_task_
<1>1. /\ Running /\ at > Len(tasks_) /\ at' = 0
      /\ task' = Without(task, Finished) /\ tasks_' = Keep(tasks_, K)
      /\ n' = NextAfterDeletion(tasks_')
      /\ UNCHANGED <<children, did_run, posted, destroyed, now, calls>>
  BY DEF RunEnd, Delete, Kept, Without, bound
<1>2. task \in Known /\ Listed(task, tasks_) /\ Timed(task, tasks_, n)
  BY KnownTasks DEF TreeInv, Loop
<1>3. Len(tasks_) \in Nat /\ at \in Nat /\ ~InProcess /\ ~destroyed
  BY <1>1, <1>2 DEF Listed, TreeInv, Shapes, Loop, InProcess, Running
<1>4. \A u \in Tasks : ~task[u].busy
  BY <1>3, NobodyBusy
<1>5. \A u \in Tasks : u \in Finished <=> OnList(tasks_, u) /\ task[u].done
  BY StartedOnList DEF Finished
<1>6. \A u \in Finished : u \in Tasks /\ task[u].life = "live" /\ task[u].done
  BY DEF Finished, Started, Live
<1>7. Tree' /\ \A u \in Tasks : ~task'[u].busy
  <2>1. Rooted(task, children) /\ Stopped(task) /\ Aged(task) /\ Fresh(task)
    BY DEF TreeInv, Tree
  <2>2. Finished \in SUBSET Tasks
    BY <1>6
  <2>3. /\ Rooted(task', children) /\ Stopped(task') /\ Aged(task') /\ Fresh(task')
        /\ \A u \in Tasks : ~task'[u].busy
    BY <1>1, <1>2, <1>4, <1>6, <2>1, <2>2, DeletionKeeps
  <2> QED
    BY <1>1, <2>3 DEF Tree
<1>8. \A u \in K : u \in Tasks /\ ~task[u].done /\ task'[u] = task[u]
  BY <1>1, <1>6 DEF Without
<1>9. /\ Listed(task', tasks_')
      /\ \A k \in 1..Len(tasks_') : tasks_'[k] \in K /\ OnList(tasks_, tasks_'[k])
      /\ \A t : OnList(tasks_, t) /\ t \in K => OnList(tasks_', t)
  <2>1. \A i \in 1..Len(tasks_) : tasks_[i] \in K => task'[tasks_[i]].life = "live"
    BY <1>2, <1>8 DEF Listed
  <2> HIDE DEF K
  <2> QED
    BY <1>1, <1>2, <2>1, KeptListed
<1>10. Timed(task', tasks_', n')
  <2>1. tasks_' \in Seq(Tasks)
    BY <1>9 DEF Listed
  <2>2. ASSUME n \notin Finished PROVE Timed(task', tasks_', n')
    <3>1. n' = n
      BY <1>1, <2>2 DEF NextAfterDeletion
    <3>2. n # None => OnList(tasks_', n)
      <4>1. n # None => OnList(tasks_, n) /\ n \in Tasks
        BY <1>2 DEF Timed
      <4>2. n # None => n \in K
        BY <1>5, <2>2, <4>1
      <4> QED
        BY <1>9, <4>1, <4>2
    <3>3. ASSUME n = None PROVE NoneDue(task', tasks_')
      <4>1. NoneDue(task, tasks_)
        BY <1>2, <3>3 DEF Timed
      <4> QED
        BY <1>8, <1>9, <4>1 DEF NoneDue, OnList
    <3> QED
      BY <1>2, <3>1, <3>2, <3>3 DEF Timed
  <2>3. ASSUME n \in Finished PROVE Timed(task', tasks_', n')
    <3>1. PICK s : s = tasks_'
      OBVIOUS
    <3>2. n' = Recalc(task, s, Tasks) /\ s \in Seq(Tasks)
      BY <1>1, <2>1, <2>3, <3>1 DEF NextAfterDeletion
    <3>3. \/ n' \in Tasks /\ OnList(s, n')
          \/ n' = None /\ \A i \in 1..Len(s) : s[i] \in Tasks =>
                            task[s[i]].done \/ task[s[i]].timeout_time = 0
      BY <1>2, <3>2, RecalcFinds
    <3>4. None \notin Tasks
      BY TasksAssumption DEF Tasks
    <3>5. \A i \in 1..Len(s) : s[i] \in Tasks /\ task'[s[i]] = task[s[i]]
      BY <1>8, <1>9, <3>1
    <3>6. Timed(task', s, n')
      BY <3>3, <3>4, <3>5 DEF Timed, NoneDue
    <3> QED
      BY <3>1, <3>6
  <2> QED
    BY <2>2, <2>3
<1>11. OneBusy'
  BY <1>7 DEF OneBusy
<1>12. ASSUME ~posted' PROVE Passed(task', tasks_', at') /\ Settled(task', tasks_')
  <2>1. Passed(task, tasks_, at)
    BY <1>1, <1>12 DEF TreeInv, Loop
  <2>2. \A i \in 1..Len(tasks_) : i < at /\ task[tasks_[i]].blocked
    <3> TAKE i \in 1..Len(tasks_)
    <3>1. i < at
      BY <1>1, <1>3
    <3> QED
      BY <2>1, <3>1 DEF Passed
  <2>3. \A u : OnList(tasks_, u) => task[u].blocked
    BY <2>2 DEF OnList
  <2> QED
    BY <1>8, <1>9, <2>3 DEF Passed, Settled
<1>13. Shapes'
  <2>1. 0 \in 0..Len(tasks_') + 1
    BY <1>9 DEF Listed
  <2> QED
    BY <1>1, <2>1 DEF TreeInv, Shapes
<1> QED
  BY <1>1, <1>3, <1>7, <1>9, <1>10, <1>11, <1>12, <1>13 DEF TreeInv, Loop

\* Destroying the runner stops every task: the oldest that it did not stop would
\* have a parent that it did stop.
LEMMA NobodySurvives ==
  ASSUME NEW T, NEW c, Rooted(T, c), Stopped(T), Aged(T), T \in Known,
         \A u \in Tasks : ~T[u].busy, \A u \in c[Runner] \cap Tasks : T[u].done
  PROVE  \A u \in Tasks : T[u].life = "live" => T[u].done
<1> SUFFICES ASSUME NEW S, S = {u \in Tasks : T[u].life = "live" /\ ~T[u].done}, S # {}
             PROVE  FALSE
  OBVIOUS
<1>1. MaxTasks \in Nat /\ S \in SUBSET (1..MaxTasks)
  BY TasksAssumption DEF Tasks
<1>2. IsFiniteSet(S)
  <2>1. IsFiniteSet(1..MaxTasks)
    BY <1>1, FS_Interval
  <2> QED
    BY <1>1, <2>1, FS_Subset
<1> DEFINE R == Earlier(MaxTasks)
<1>3. \A i, j \in 1..MaxTasks : <<i, j>> \in R <=> i < j
  BY DEF Earlier
<1> HIDE DEF R
<1>4. IsOrder(S, R)
  BY <1>1, <1>3 DEF IsOrder
<1>5. PICK u \in S : \A v \in S : u # v => <<u, v>> \in R
  BY <1>2, <1>4, FirstInOrder
<1>6. u \in Tasks /\ T[u].life = "live" /\ ~T[u].done /\ ~T[u].busy /\ u \in c[T[u].parent]
  BY DEF Rooted
<1>7. T[u].parent # Runner
  BY <1>6
<1>8. T[u].parent \in Tasks /\ T[T[u].parent].life = "live" /\ T[u].parent < u
  BY <1>6, <1>7 DEF Rooted, Aged, Known, Members, Parents
<1>9. ~T[T[u].parent].done
  BY <1>6, <1>7 DEF Stopped, Halting
<1>10. T[u].parent \in S
  BY <1>8, <1>9
<1>11. u # T[u].parent /\ u \in 1..MaxTasks /\ T[u].parent \in 1..MaxTasks
  BY <1>1, <1>8, <1>10
<1>12. u < T[u].parent
  BY <1>3, <1>5, <1>10, <1>11
<1> QED
  BY <1>8, <1>11, <1>12

LEMMA DestroyTree == TreeInv /\ IInv' /\ Destroy => TreeInv'
<1> SUFFICES ASSUME TreeInv, IInv', Destroy PROVE TreeInv'
  OBVIOUS
<1>1. PICK S : S = UNION {Family(task, t) : t \in children[Runner]}
  OBVIOUS
<1>2. PICK T : T = Aborted(task, S)
  OBVIOUS
<1>3. PICK D : D = {t \in Tasks : Started(t) /\ T[t].done}
  OBVIOUS
<1>4. PICK K : K = {t \in Tasks : ~T[t].done}
  OBVIOUS
<1>5. /\ ~Running /\ destroyed' = TRUE /\ task' = Without(T, D)
      /\ children' = Orphaned(task, S) /\ tasks_' = Keep(tasks_, K)
      /\ next_timeout_task_' = None
      /\ UNCHANGED <<at, did_run, posted, now, calls>>
  <2>1. task' = [t \in Tasks |-> IF Started(t) /\ T[t].done THEN NoTask("deleted") ELSE T[t]]
    BY <1>1, <1>2 DEF Destroy
  <2>2. task' = Without(T, D)
    BY <1>3, <2>1 DEF Without
  <2> QED
    BY <1>1, <1>2, <1>4, <2>2 DEF Destroy, loop, bound
<1>6. task \in Known /\ Listed(task, tasks_) /\ children \in [Parents -> SUBSET Tasks]
      /\ Runner \in Parents /\ children[Runner] \subseteq Tasks
  BY KnownTasks DEF TreeInv, Loop, Shapes, Parents
<1>7. at = 0 /\ ~InProcess /\ \A u \in Tasks : ~task[u].busy
  <2>1. at = 0 /\ ~InProcess
    BY <1>5 DEF Running, InProcess, TreeInv, Shapes
  <2> QED
    BY <2>1, NobodyBusy
<1>8. S \in SUBSET Tasks /\ Closed(task, children, S) /\ children[Runner] \subseteq S
  <2>1. \A t \in children[Runner] : Family(task, t) \subseteq Tasks /\ t \in Family(task, t)
                                    /\ Closed(task, children, Family(task, t))
    BY <1>6, FamilyCloses
  <2> QED
    BY <1>1, <2>1 DEF Closed
<1>9. \A u \in Tasks :
        /\ T[u].life = task[u].life /\ T[u].parent = task[u].parent
        /\ T[u].state = task[u].state /\ ~T[u].busy
        /\ T[u].timeout_time = task[u].timeout_time /\ (u \in S => T[u].done)
  BY <1>2, <1>6, <1>7, AbortedFields
<1>10. T \in Known
  BY <1>2, <1>6, AbortedSound DEF Known
<1>11. Rooted(task, children) /\ Stopped(task) /\ Aged(task) /\ Fresh(task)
  BY DEF TreeInv, Tree
<1>12. Rooted(T, children') /\ Stopped(T)
  <2>1. \A u \in Tasks : task[u].life = "live" /\ task[u].parent # Runner /\
                         task[task[u].parent].done =>
                           Halting(task[u]) \/ u \in S \/ task[u].parent \in {}
    BY <1>11 DEF Stopped
  <2>2. S \ {} = S /\ {} \in SUBSET S
    OBVIOUS
  <2>3. /\ Rooted(Aborted(task, S \ {}), [p \in Parents |-> children[p] \ {u \in S : ~task[u].busy}])
        /\ Stopped(Aborted(task, S \ {}))
    <3> DEFINE X == {}
    <3>1. X \in SUBSET S /\ \A x \in X : task[x].done /\ ~task[x].busy
      OBVIOUS
    <3>2. \A u \in Tasks : task[u].life = "live" /\ task[u].parent # Runner /\
                           task[task[u].parent].done =>
                             Halting(task[u]) \/ u \in S \/ task[u].parent \in X
      BY <2>1
    <3> HIDE DEF X
    <3>3. /\ Rooted(Aborted(task, S \ X), [p \in Parents |-> children[p] \ {u \in S : ~task[u].busy}])
          /\ Stopped(Aborted(task, S \ X))
      BY <1>6, <1>8, <1>11, <3>1, <3>2, AbortStops
    <3> QED
      BY <3>3 DEF X
  <2> QED
    BY <1>2, <1>5, <2>2, <2>3 DEF Orphaned
<1>13. Aged(T) /\ Fresh(T)
  BY <1>9, <1>11 DEF Aged, Fresh
<1>14. \A u \in Tasks : T[u].life = "live" => T[u].done
  <2>1. children'[Runner] \subseteq S
    BY <1>5, <1>6, <1>8 DEF Orphaned
  <2>2. PICK c : c = children'
    OBVIOUS
  <2>3. Rooted(T, c) /\ \A u \in c[Runner] \cap Tasks : T[u].done
    BY <1>9, <1>12, <2>1, <2>2
  <2> QED
    BY <1>9, <1>10, <1>12, <1>13, <2>3, NobodySurvives
<1>15. \A u \in Tasks : u \in D <=> OnList(tasks_, u) /\ T[u].done
  BY <1>3, StartedOnList
<1>16. \A u \in D : u \in Tasks /\ T[u].life = "live" /\ T[u].done
  BY <1>3, <1>9 DEF Started, Live
<1>17. Tree' /\ \A u \in Tasks : ~task'[u].busy
  <2>1. D \in SUBSET Tasks
    BY <1>16
  <2>2. PICK c : c = children'
    OBVIOUS
  <2>3. /\ Rooted(task', c) /\ Stopped(task') /\ Aged(task') /\ Fresh(task')
        /\ \A u \in Tasks : ~task'[u].busy
    BY <1>5, <1>9, <1>10, <1>12, <1>13, <1>16, <2>1, <2>2, DeletionKeeps
  <2> QED
    BY <2>2, <2>3 DEF Tree
<1>18. tasks_' = <<>>
  <2>1. \A i \in 1..Len(tasks_) : tasks_[i] \in Tasks /\ tasks_[i] \notin K
    BY <1>4, <1>6, <1>9, <1>14 DEF Listed
  <2>2. /\ tasks_' \in Seq(Tasks)
        /\ \A k \in 1..Len(tasks_') : tasks_'[k] \in K /\ OnList(tasks_, tasks_'[k])
    BY <1>5, <1>6, <2>1, KeptListed DEF Listed
  <2>3. \A k \in 1..Len(tasks_') : FALSE
    BY <2>1, <2>2 DEF OnList
  <2>4. Len(tasks_') = 0
    <3>1. Len(tasks_') \in Nat
      BY <2>2
    <3> QED
      BY <2>3, <3>1
  <2> QED
    BY <2>2, <2>4, EmptySeq
<1>19. Loop'
  <2>1. Listed(task', tasks_') /\ Timed(task', tasks_', next_timeout_task_')
    BY <1>5, <1>18 DEF Listed, Timed, NoneDue
  <2>2. OneBusy'
    BY <1>17 DEF OneBusy
  <2>3. Passed(task', tasks_', at')
    BY <1>18 DEF Passed
  <2>4. \A u \in Tasks : task'[u].life = "live" => task'[u].done
    <3>1. \A u \in Tasks : task'[u] = IF u \in D THEN NoTask("deleted") ELSE T[u]
      BY <1>5 DEF Without
    <3> QED
      BY <1>14, <3>1, DeletedFields
  <2> QED
    BY <1>5, <1>7, <1>18, <2>1, <2>2, <2>3, <2>4 DEF Loop
<1>20. Shapes'
  <2>1. children' \in [Parents -> SUBSET Tasks]
    BY <1>5, <1>6 DEF Orphaned
  <2>2. at' \in 0..Len(tasks_') + 1
    BY <1>5, <1>7, <1>18
  <2> QED
    BY <1>5, <2>1, <2>2 DEF TreeInv, Shapes
<1> QED
  BY <1>17, <1>19, <1>20 DEF TreeInv

-------------------------------------------------------------------------------
LEMMA InitTree == Init => TreeInv
<1> SUFFICES ASSUME Init PROVE TreeInv
  OBVIOUS
<1>1. IInv
  BY InitSound
<1>2. task = [t \in Tasks |-> NoTask("none")] /\ children = [p \in Parents |-> {}]
      /\ tasks_ = <<>> /\ next_timeout_task_ = None /\ at = 0 /\ did_run = FALSE
      /\ posted = FALSE /\ destroyed = FALSE /\ now = 0 /\ calls = 0
  BY DEF Init
<1>3. \A u \in Tasks : task[u].life = "none" /\ task[u].parent = Runner
                       /\ task[u].busy = FALSE /\ task[u].timeout_time = 0
  BY <1>2 DEF NoTask, NewTask
<1>4. Tree
  BY <1>3 DEF Tree, Rooted, Stopped, Aged, Fresh
<1>5. Loop
  BY <1>2, <1>3 DEF Loop, Listed, OneBusy, Timed, NoneDue, Passed, Settled
<1>6. Shapes
  <2>1. 0 \in 0..MaxTime /\ 0 \in 0..MaxCalls
    BY TasksAssumption
  <2>2. at \in 0..Len(tasks_) + 1
    BY <1>2
  <2> QED
    BY <1>2, <2>1, <2>2 DEF Shapes
<1> QED
  BY <1>1, <1>4, <1>5, <1>6 DEF TreeInv

LEMMA NextTree == TreeInv /\ [Next]_vars => TreeInv'
<1> SUFFICES ASSUME TreeInv, [Next]_vars PROVE TreeInv'
  OBVIOUS
<1>1. CASE UNCHANGED vars
  BY <1>1 DEF vars, TreeInv, IInv, Shapes, Tree, Loop, OneBusy, InProcess, Running, Current
<1>2. CASE Calls
  <2>1. IInv'
    BY <1>2, CallsSound DEF TreeInv
  <2>2. CASE Tick
    BY <2>1, <2>2, TickTree
  <2>3. CASE PollTasks
    BY <2>1, <2>3, PollTasksTree
  <2>4. CASE Destroy
    BY <2>1, <2>4, DestroyTree
  <2>5. CASE NewClient
    BY <2>1, <2>5, NewClientTree
  <2>6. ASSUME NEW t \in Tasks, Start(t) PROVE TreeInv'
    BY <2>1, <2>6, StartingTree
  <2>7. ASSUME NEW t \in Tasks, Wake(t) PROVE TreeInv'
    BY <2>1, <2>7, WakeTree
  <2>8. ASSUME NEW t \in Tasks, Error(t) PROVE TreeInv'
    BY <2>1, <2>8, ErrorTree
  <2>9. ASSUME NEW t \in Tasks, Abort(t) PROVE TreeInv'
    BY <2>1, <2>9, AbortTree
  <2>10. ASSUME NEW t \in Tasks, NEW p \in Parents, NEW secs \in Seconds,
                NewStarted(t, p, secs)
         PROVE  TreeInv'
    BY <2>1, <2>10, NewStartedTree
  <2> QED
    BY <1>2, <2>2, <2>3, <2>4, <2>5, <2>6, <2>7, <2>8, <2>9, <2>10 DEF Calls
<1>3. CASE Run
  <2>1. IInv'
    BY <1>3, RunSound DEF TreeInv
  <2>2. CASE RunTasks \/ Skip \/ Again
    BY <2>1, <2>2, RunTasksTree, SkipTree, AgainTree
  <2>3. CASE StepError \/ StepInit \/ StepBegin
    BY <2>1, <2>3, StepErrorTree, StepInitTree, StepBeginTree
  <2>4. CASE EndAborted \/ EndBlocked \/ EndResponse
    BY <2>1, <2>4, EndAbortedTree, EndBlockedTree, EndResponseTree
  <2>5. ASSUME NEW s \in {"DONE", "ERROR"}, EndDone(s) PROVE TreeInv'
    BY <2>1, <2>5, EndDoneTree
  <2>6. CASE RunEnd
    BY <2>1, <2>6, RunEndTree
  <2> QED
    BY <1>3, <2>2, <2>3, <2>4, <2>5, <2>6 DEF Run
<1> QED
  BY <1>1, <1>2, <1>3 DEF Next

LEMMA TreeKept == Spec => []TreeInv
BY InitTree, NextTree, PTL DEF Spec

-------------------------------------------------------------------------------
\* The members have their types, and tasks_ holds each task that has been started
\* and not deleted, once.
THEOREM TypeCorrect == Spec => []TypeOK
<1>1. TreeInv => TypeOK
  <2> SUFFICES ASSUME TreeInv PROVE TypeOK
    OBVIOUS
  <2>1. task \in [Tasks -> Members]
    BY DEF TreeInv, IInv
  <2>2. /\ tasks_ \in Seq(Tasks) /\ IsInjective(tasks_)
        /\ \A i \in DOMAIN tasks_ : Live(tasks_[i])
    <3>1. tasks_ \in Seq(Tasks) /\ DOMAIN tasks_ = 1..Len(tasks_)
      BY DEF TreeInv, Loop, Listed
    <3> QED
      BY <3>1 DEF TreeInv, Loop, Listed, IsInjective, Live
  <2>3. next_timeout_task_ \in Tasks \cup {None}
    BY DEF TreeInv, Loop, Timed
  <2> QED
    BY <2>1, <2>2, <2>3 DEF TypeOK, TreeInv, Shapes, Members
<1> QED
  BY <1>1, TreeKept, PTL

\* Whatever stops a task, its error, its last step, Abort from anywhere or the
\* destruction of the runner, stops its children: "if a parent task gets aborted,
\* all the children tasks are too" (task.h:65).
THEOREM ChildrenStopToo == Spec => []ChildrenStop
<1>1. TreeInv => ChildrenStop
  BY DEF TreeInv, Tree, Stopped, Halting, ChildrenStop, Live
<1> QED
  BY <1>1, TreeKept, PTL

\* A task that is not done can follow parent_, and the runner
\* next_timeout_task_, at any time.
THEOREM PointersHold == Spec => []NothingDangling
<1>1. TreeInv => NothingDangling
  <2> SUFFICES ASSUME TreeInv PROVE NothingDangling
    OBVIOUS
  <2>1. \A t \in Tasks : Live(t) /\ ~task[t].done =>
          /\ task[t].parent # Runner => Live(task[t].parent)
          /\ t \in children[task[t].parent]
    BY DEF TreeInv, Tree, Rooted, Live
  <2>2. Timed(task, tasks_, next_timeout_task_)
    BY DEF TreeInv, Loop
  <2>3. \A t \in Tasks : Started(t) <=> OnList(tasks_, t)
    BY StartedOnList
  <2>4. next_timeout_task_ # None => Started(next_timeout_task_)
    BY <2>2, <2>3 DEF Timed
  <2>5. next_timeout_task_ = None =>
          \A t \in Tasks : Started(t) /\ ~task[t].done => task[t].timeout_time = 0
    BY <2>2, <2>3 DEF Timed, NoneDue, OnList
  <2> QED
    BY <2>1, <2>4, <2>5 DEF NothingDangling
<1> QED
  BY <1>1, TreeKept, PTL

\* WakeTasks is called for whatever the runner has gone past in its list: there
\* is a run to come as long as a task waits to be stepped or deleted.
THEOREM EveryTaskHasARun == Spec => []NobodyForgotten
<1>1. TreeInv => NobodyForgotten
  <2> SUFFICES ASSUME TreeInv, ~Running, ~posted, ~destroyed, NEW t \in Tasks, Started(t)
               PROVE  task[t].blocked /\ ~task[t].done
    BY DEF NobodyForgotten
  <2>1. at = 0 /\ Settled(task, tasks_)
    BY DEF TreeInv, Shapes, Loop, Running
  <2> QED
    BY <2>1, StartedOnList DEF Settled, OnList
<1> QED
  BY <1>1, TreeKept, PTL

\* ~TaskRunner leaves no task that is on its list, and none that is not done:
\* the tree has no root but the runner.
THEOREM RunnerTakesAll == Spec => []DestroyedWithRunner
<1>1. TreeInv => DestroyedWithRunner
  <2> SUFFICES ASSUME TreeInv, destroyed, NEW t \in Tasks
               PROVE  ~Started(t) /\ (Live(t) => task[t].done)
    BY DEF DestroyedWithRunner
  <2>1. tasks_ = <<>> /\ (task[t].life = "live" => task[t].done)
    BY DEF TreeInv, Loop
  <2> QED
    BY <2>1, StartedOnList DEF OnList, Live
<1> QED
  BY <1>1, TreeKept, PTL
==============================================================================
