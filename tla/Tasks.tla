--------------------------------- MODULE Tasks ---------------------------------
(***************************************************************************)
(* talk_base::Task, TaskParent and TaskRunner (base/task.cc,               *)
(* taskparent.cc, taskrunner.cc): the tree of tasks behind XMPP, which one *)
(* thread runs.  WakeTasks posts a message whose handler is RunTasks, as   *)
(* XmppPump does.                                                          *)
(*                                                                         *)
(* Between two runs, and inside the Process of the task that is being      *)
(* stepped, any code may create, start, wake, abort or fail tasks; these   *)
(* calls are actions of their own, so Process is begun, called out of and  *)
(* ended.  The states of the subclasses are START and RESPONSE; the START  *)
(* that ReceiveTask returns for each stanza it holds is RESPONSE too, and  *)
(* a task does not return RESPONSE from RESPONSE.  Nothing creates or      *)
(* starts a task under a parent that is done, and a task is started once.  *)
(* SuspendTimeout and AnyChildError, which nothing calls, are left out.    *)
(***************************************************************************)
EXTENDS Integers, Sequences, FiniteSets, SequencesExt, Lists

CONSTANTS MaxTasks,  \* bound: how many tasks are created
          Runner,    \* the TaskRunner (XmppPump)
          Seconds,   \* time-outs that are asked for; 0 is none
          MaxTime,   \* bound: how long the program runs
          MaxCalls,  \* bound: how many times Wake and Error are called
          None

ASSUME TasksAssumption ==
  /\ MaxTasks \in Nat \ {0} /\ Runner \notin 1..MaxTasks /\ None \notin 1..MaxTasks
  /\ Seconds \subseteq Nat /\ MaxTime \in Nat /\ MaxCalls \in Nat

Tasks   == 1..MaxTasks   \* unique_id_
Parents == Tasks \cup {Runner}
States  == {"INIT", "START", "RESPONSE", "DONE", "ERROR"}

VARIABLES task,      \* the members of each task; life is "none", "live" or
                     \* "deleted", late that Process has found it timed out
          children,  \* children_ of each parent
          tasks_,    \* the tasks that have been started, in this order
          next_timeout_task_,
          at,        \* index in InternalRunTasks; 0 is ~tasks_running_
          did_run,
          posted,    \* a message of WakeTasks is in the queue
          destroyed, \* the TaskRunner has been
          now,       \* CurrentTime()
          calls      \* Wake and Error so far

tree  == <<task, children>>
loop  == <<at, did_run>>
bound == <<now, calls>>
vars  == <<task, children, tasks_, next_timeout_task_, at, did_run, posted,
           destroyed, now, calls>>

NewTask(p, secs) ==
  [life |-> "live", parent |-> p, state |-> "INIT", blocked |-> FALSE,
   done |-> FALSE, aborted |-> FALSE, busy |-> FALSE, error |-> FALSE,
   late |-> FALSE, timeout_time |-> 0, timeout_seconds |-> secs]

NoTask(l) == [NewTask(Runner, 0) EXCEPT !.life = l]

Live(t)    == task[t].life = "live"
Started(t) == Live(t) /\ \E i \in DOMAIN tasks_ : tasks_[i] = t

Current   == tasks_[at]
Running   == at > 0
InProcess == Running /\ at <= Len(tasks_) /\ task[Current].busy

\* Where code other than the task runner's is executing.
Outside == ~destroyed /\ (~Running \/ InProcess)

-------------------------------------------------------------------------------
\* Time-outs.

TimedOut(t) == task[t].timeout_time > 0 /\ now >= task[t].timeout_time

\* RecalcNextTimeout over the tasks S in the order of s: the last of those that
\* are due soonest.
Recalc(T, s, S) ==
  LET due  == {i \in DOMAIN s : s[i] \in S /\ ~T[s[i]].done /\
                                T[s[i]].timeout_time > 0}
      soon == {i \in due : \A j \in due :
                             T[s[i]].timeout_time <= T[s[j]].timeout_time}
  IN  IF due = {} THEN None
      ELSE s[CHOOSE i \in soon : \A j \in soon : j <= i]

\* UpdateTaskTimeout, once the members are T.  A task that is already the next
\* one stays it whatever its new time is.
UpdateTaskTimeout(T, t) ==
  LET n == next_timeout_task_
  IN  IF T[t].timeout_time > 0
        THEN IF n = None \/ n = t \/ T[t].timeout_time <= T[n].timeout_time
               THEN t ELSE n
        ELSE IF n = t THEN Recalc(T, tasks_, Tasks \ {t}) ELSE n

\* The members of t when Process has returned something else than BLOCKED.
ResetTimeout(t, s) ==
  [task[t] EXCEPT !.state = s, !.busy = FALSE, !.late = FALSE,
     !.timeout_time =
       IF task[t].timeout_seconds > 0 /\ s \notin {"INIT", "DONE", "ERROR"}
         THEN now + task[t].timeout_seconds ELSE 0]

-------------------------------------------------------------------------------
\* Stopping.

\* The tasks that Abort reaches from t.  It does not go on from one that is
\* busy, which will abort its own children when its Process has returned.
Family(T, t) ==
  LET Reached(S) == t \in S /\ \A v \in S : ~T[v].busy => children[v] \subseteq S
  IN  {u \in Tasks : \A S \in SUBSET Tasks : Reached(S) => u \in S}

\* The members after Abort of the tasks S.
Aborted(T, S) ==
  [u \in Tasks |->
     IF u \notin S THEN T[u]
     ELSE IF T[u].busy THEN [T[u] EXCEPT !.aborted = TRUE]
     ELSE [T[u] EXCEPT !.aborted = TRUE, !.done = TRUE, !.blocked = TRUE,
                       !.error = TRUE, !.late = FALSE]]

Orphaned(T, S) ==
  [p \in Parents |-> children[p] \ {u \in S : ~T[u].busy}]

\* t has become done; Stop.
StopTask(T, t) ==
  LET S == Family(T, t) \ {t}
  IN  /\ task' = Aborted(T, S)
      /\ children' = Orphaned(T, S \cup {t})

-------------------------------------------------------------------------------
Init ==
  /\ task = [t \in Tasks |-> NoTask("none")]
  /\ children = [p \in Parents |-> {}]
  /\ tasks_ = <<>>
  /\ next_timeout_task_ = None
  /\ at = 0 /\ did_run = FALSE
  /\ posted = FALSE
  /\ destroyed = FALSE
  /\ now = 0 /\ calls = 0

Tick ==
  /\ now < MaxTime /\ ~destroyed
  /\ now' = now + 1
  /\ UNCHANGED <<tree, tasks_, next_timeout_task_, loop, posted, destroyed,
                 calls>>

-------------------------------------------------------------------------------
\* What any code may do.

\* Task::Task; the constructors of IqTask and SessionSendTask set a time-out,
\* which has no effect before the first step.
New(t, p, secs) ==
  /\ Outside /\ task[t].life = "none"
  /\ \A u \in 1..t - 1 : task[u].life # "none"
  /\ p # Runner => Live(p) /\ ~task[p].done
  /\ task' = [task EXCEPT ![t] = NewTask(p, secs)]
  /\ children' = [children EXCEPT ![p] = @ \cup {t}]
  /\ UNCHANGED <<next_timeout_task_, loop, destroyed, bound>>

\* TaskRunner::StartTask.  Its UpdateTaskTimeout does nothing.
StartTask(t) ==
  /\ tasks_' = Append(tasks_, t)
  /\ posted' = TRUE

\* A task is started as soon as it is there.
NewStarted(t, p, secs) == New(t, p, secs) /\ StartTask(t)

\* XmppPump::XmppPump creates the XmppClient, the first task, which DoLogin
\* starts.
NewClient == New(1, Runner, 0) /\ UNCHANGED <<tasks_, posted>>

\* Task::Start.
Start(t) ==
  /\ Outside /\ Live(t) /\ ~task[t].done
  /\ task[t].state = "INIT" /\ ~Started(t)
  /\ StartTask(t)
  /\ UNCHANGED <<tree, next_timeout_task_, loop, destroyed, bound>>

\* Mutant: a task that is done can be woken.
Wakes_Done(T, t) == T[t].blocked

Wakes(T, t) == ~T[t].done /\ T[t].blocked

Wake(t) ==
  /\ Outside /\ Started(t) /\ calls < MaxCalls
  /\ Wakes(task, t)
  /\ task' = [task EXCEPT ![t].blocked = FALSE]
  /\ posted' = TRUE
  /\ calls' = calls + 1
  /\ UNCHANGED <<children, tasks_, next_timeout_task_, loop, destroyed, now>>

\* Task::Error, by XmppTask::OnDisconnect.
Error(t) ==
  /\ Outside /\ Started(t) /\ calls < MaxCalls
  /\ ~task[t].error /\ ~task[t].done
  /\ task' = [task EXCEPT ![t].error = TRUE, ![t].blocked = FALSE]
  /\ posted' = (posted \/ task[t].blocked)
  /\ calls' = calls + 1
  /\ UNCHANGED <<children, tasks_, next_timeout_task_, loop, destroyed, now>>

\* Mutant: Abort leaves it to the next run, whenever that is.
Abort_Quietly(t) ==
  /\ Outside /\ Started(t) /\ ~task[t].done
  /\ task' = Aborted(task, Family(task, t))
  /\ children' = Orphaned(task, Family(task, t))
  /\ UNCHANGED <<tasks_, next_timeout_task_, loop, posted, destroyed, bound>>

\* Task::Abort, by XmppClient::Disconnect.
Abort(t) ==
  /\ Outside /\ Started(t) /\ ~task[t].done
  /\ task' = Aborted(task, Family(task, t))
  /\ children' = Orphaned(task, Family(task, t))
  /\ posted' = (posted \/ ~task[t].busy)
  /\ UNCHANGED <<tasks_, next_timeout_task_, loop, destroyed, bound>>

\* TaskRunner::PollTasks, by a timer.  WakeTasks does not run the task here, so
\* the loop ends after one turn.
PollTasks ==
  /\ ~destroyed /\ ~Running /\ next_timeout_task_ # None
  /\ TimedOut(next_timeout_task_)
  /\ task' = IF Wakes(task, next_timeout_task_)
               THEN [task EXCEPT ![next_timeout_task_].blocked = FALSE]
               ELSE task
  /\ posted' = TRUE
  /\ UNCHANGED <<children, tasks_, next_timeout_task_, loop, destroyed, bound>>

-------------------------------------------------------------------------------
\* TaskRunner::InternalRunTasks.

\* The first task from i on that is not blocked.
FirstFrom(i) ==
  LET S == {j \in i..Len(tasks_) : ~task[tasks_[j]].blocked}
  IN  IF S = {} THEN Len(tasks_) + 1 ELSE CHOOSE j \in S : \A k \in S : j <= k

RunTasks ==
  /\ posted /\ ~Running /\ ~destroyed
  /\ posted' = FALSE
  /\ at' = FirstFrom(1) /\ did_run' = FALSE
  /\ UNCHANGED <<tree, tasks_, next_timeout_task_, destroyed, bound>>

Skip ==
  /\ Running /\ at <= Len(tasks_) /\ ~InProcess
  /\ task[Current].blocked
  /\ at' = FirstFrom(at)
  /\ UNCHANGED <<tree, tasks_, next_timeout_task_, did_run, posted, destroyed,
                 bound>>

\* A task that is not blocked, and not in its Process, is stepped.  It is
\* never done (DoneIsBlocked).
Stepping ==
  /\ Running /\ at <= Len(tasks_) /\ ~InProcess
  /\ ~task[Current].blocked
  /\ did_run' = TRUE
  /\ UNCHANGED <<tasks_, at, destroyed, bound>>

StepError ==
  /\ Stepping /\ task[Current].error
  /\ StopTask([task EXCEPT ![Current].done = TRUE, ![Current].blocked = TRUE,
                           ![Current].state = "ERROR"], Current)
  /\ UNCHANGED <<next_timeout_task_, posted>>

StepInit ==
  /\ Stepping /\ ~task[Current].error /\ task[Current].state = "INIT"
  /\ task' = [task EXCEPT ![Current] = ResetTimeout(Current, "START")]
  /\ next_timeout_task_' = UpdateTaskTimeout(task', Current)
  /\ UNCHANGED <<children, posted>>

\* Into Process, which sees first whether the task has timed out.
StepBegin ==
  /\ Stepping /\ ~task[Current].error /\ task[Current].state # "INIT"
  /\ task' = [task EXCEPT ![Current].busy = TRUE,
                          ![Current].late = TimedOut(Current),
                          ![Current].timeout_time =
                             IF TimedOut(Current) THEN 0 ELSE @]
  /\ next_timeout_task_' = IF TimedOut(Current)
                             THEN UpdateTaskTimeout(task', Current)
                             ELSE next_timeout_task_
  /\ UNCHANGED <<children, posted>>

Ending == InProcess /\ UNCHANGED <<tasks_, loop, posted, destroyed, bound>>

\* Mutant: a task that has been aborted in its Process goes on.
AbortedInProcess_Ignored(t) == FALSE

AbortedInProcess(t) == task[t].aborted

EndAborted ==
  /\ Ending /\ AbortedInProcess(Current)
  /\ LET T == [task EXCEPT ![Current].busy = FALSE]
         S == Family(T, Current)
     IN  task' = Aborted(T, S) /\ children' = Orphaned(T, S)
  /\ UNCHANGED next_timeout_task_

\* The time-out goes on.
EndBlocked ==
  /\ Ending /\ ~AbortedInProcess(Current) /\ ~task[Current].late
  /\ task' = [task EXCEPT ![Current].busy = FALSE, ![Current].blocked = TRUE]
  /\ UNCHANGED <<children, next_timeout_task_>>

EndResponse ==
  /\ Ending /\ ~AbortedInProcess(Current) /\ ~task[Current].late
  /\ task[Current].state = "START"
  /\ task' = [task EXCEPT ![Current] = ResetTimeout(Current, "RESPONSE")]
  /\ next_timeout_task_' = UpdateTaskTimeout(task', Current)
  /\ UNCHANGED children

\* OnTimeout returns DONE.
EndDone(s) ==
  /\ Ending /\ ~AbortedInProcess(Current)
  /\ task[Current].late => s = "DONE"
  /\ LET T == [task EXCEPT ![Current] =
                 [ResetTimeout(Current, s) EXCEPT
                    !.done = TRUE, !.blocked = TRUE,
                    !.error = (s = "ERROR" \/ task[Current].error)]]
     IN  /\ StopTask(T, Current)
         /\ next_timeout_task_' = UpdateTaskTimeout(T, Current)

Again ==
  /\ at > Len(tasks_) /\ Running /\ did_run
  /\ at' = FirstFrom(1) /\ did_run' = FALSE
  /\ UNCHANGED <<tree, tasks_, next_timeout_task_, posted, destroyed, bound>>

Finished == {t \in Tasks : Started(t) /\ task[t].done}

\* Mutant: the next task to time out is not looked at.
NextAfterDeletion_Stale(s) == next_timeout_task_

NextAfterDeletion(s) ==
  IF next_timeout_task_ \in Finished THEN Recalc(task, s, Tasks)
  ELSE next_timeout_task_

Kept == Keep(tasks_, {t \in Tasks : ~task[t].done})

Delete ==
  /\ task' = [t \in Tasks |->
                IF t \in Finished THEN NoTask("deleted")
                ELSE task[t]]
  /\ tasks_' = Kept
  /\ next_timeout_task_' = NextAfterDeletion(Kept)
  /\ UNCHANGED children

RunEnd ==
  /\ Running /\ at > Len(tasks_) /\ ~did_run
  /\ at' = 0
  /\ Delete
  /\ UNCHANGED <<did_run, posted, destroyed, bound>>

\* TaskRunner::~TaskRunner: AbortAllChildren and a last InternalRunTasks.  A
\* task that has never been started is done and stays.
Destroy ==
  /\ ~Running /\ ~destroyed
  /\ destroyed' = TRUE
  /\ LET S == UNION {Family(task, t) : t \in children[Runner]}
         T == Aborted(task, S)
     IN  /\ task' = [t \in Tasks |-> IF Started(t) /\ T[t].done
                                       THEN NoTask("deleted")
                                       ELSE T[t]]
         /\ children' = Orphaned(task, S)
         /\ tasks_' = Keep(tasks_, {t \in Tasks : ~T[t].done})
  /\ next_timeout_task_' = None
  /\ UNCHANGED <<loop, posted, bound>>

-------------------------------------------------------------------------------
Calls ==
  \/ Tick \/ PollTasks \/ Destroy \/ NewClient
  \/ \E t \in Tasks :
       \/ Start(t) \/ Wake(t) \/ Error(t) \/ Abort(t)
       \/ \E p \in Parents \ {t}, secs \in Seconds : NewStarted(t, p, secs)

Run ==
  \/ RunTasks \/ Skip \/ StepError \/ StepInit \/ StepBegin
  \/ EndAborted \/ EndBlocked \/ EndResponse
  \/ \E s \in {"DONE", "ERROR"} : EndDone(s)
  \/ Again \/ RunEnd

Next == Calls \/ Run

Spec == Init /\ [][Next]_vars

-------------------------------------------------------------------------------
\* Types; and tasks_ holds each task once, and only tasks that exist, since
\* the runner deletes what it finds there.
TypeOK ==
  /\ task \in [Tasks -> [life : {"none", "live", "deleted"},
                         parent : Parents, state : States, blocked : BOOLEAN,
                         done : BOOLEAN, aborted : BOOLEAN, busy : BOOLEAN,
                         error : BOOLEAN, late : BOOLEAN, timeout_time : Nat,
                         timeout_seconds : Seconds \cup {0}]]
  /\ children \in [Parents -> SUBSET Tasks]
  /\ tasks_ \in Seq(Tasks) /\ IsInjective(tasks_)
  /\ \A i \in DOMAIN tasks_ : Live(tasks_[i])
  /\ next_timeout_task_ \in Tasks \cup {None}
  /\ at \in 0..Len(tasks_) + 1
  /\ did_run \in BOOLEAN /\ posted \in BOOLEAN /\ destroyed \in BOOLEAN
  /\ now \in 0..MaxTime /\ calls \in 0..MaxCalls

\* A task that is done stays blocked, or the runner would step it again: "we do
\* not know how !blocked_ happens when done_ - should be impossible"
\* (task.cc:89).
DoneIsBlocked ==
  \A t \in Tasks : Live(t) /\ task[t].done => task[t].blocked /\ ~task[t].busy

\* The children of a task that is done have been aborted with it; only the one
\* whose own Process stopped the parent is still running.
ChildrenStop ==
  \A t \in Tasks :
    Live(t) /\ task[t].parent # Runner /\ task[task[t].parent].done =>
      task[t].done \/ (task[t].aborted /\ task[t].busy)

\* No pointer between tasks dangles.  While a task is not done its parent has
\* not been deleted, and holds it as a child: when the task stops, OnStopped
\* follows parent_ (taskparent.cc:103).  It is for this that tasks are deleted
\* only "when running has paused" (taskrunner.cc:102).  The task that PollTasks
\* and UpdateTaskTimeout dereference has not been deleted either; and there is
\* one when a task that is not done has a time-out.
NothingDangling ==
  /\ \A t \in Tasks : Live(t) /\ ~task[t].done =>
       /\ task[t].parent # Runner => Live(task[t].parent)
       /\ t \in children[task[t].parent]
  /\ next_timeout_task_ # None => Started(next_timeout_task_)
  /\ next_timeout_task_ = None =>
       \A t \in Tasks : Started(t) /\ ~task[t].done => task[t].timeout_time = 0

\* When the thread has nothing to do for the runner, no task is waiting to be
\* stepped or to be deleted: what is started, woken or aborted, also while the
\* runner is past it, has a run to come.
NobodyForgotten ==
  ~Running /\ ~posted /\ ~destroyed =>
    \A t \in Tasks : Started(t) => task[t].blocked /\ ~task[t].done

\* When the runner is destroyed, so are all tasks that have been started
\* ("this kills and deletes children silently!", taskrunner.cc:51).
DestroyedWithRunner == destroyed => \A t \in Tasks : ~Started(t) /\
                                      (Live(t) => task[t].done)

\* "Returns the next absolute time when a task times out OR 0 if there is no
\* next timeout" (taskrunner.h:78), when the runner is idle.
NextIsSoonest ==
  ~Running /\ next_timeout_task_ # None =>
    \A t \in Tasks : Started(t) /\ ~task[t].done /\ task[t].timeout_time > 0 =>
      task[next_timeout_task_].timeout_time <= task[t].timeout_time
================================================================================
