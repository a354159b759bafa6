----------------------------- MODULE TaskQueue ------------------------------
(***************************************************************************)
(* The task queue of pkg/controller/helper: workers that wait.Until runs   *)
(* again and again take tasks from a rate-limited work queue and sync      *)
(* them, callers that enqueue tasks, and one caller of Shutdown, which     *)
(* waits for the channel workerDone.  One action is one call of the work   *)
(* queue, of the sync function or of a channel.                            *)
(***************************************************************************)
EXTENDS Naturals, Sequences, FiniteSets

CONSTANTS
  Workers,  \* the goroutines that Run may start
  Tasks,    \* the elements of the queue
  NoTask,   \* in place of a task: none
  MaxBudget \* bounds: tasks enqueued, syncs that fail

BudgetKeys == {"enqueue", "fault"}

ASSUME QueueAssumption ==
  /\ NoTask \notin Tasks
  /\ MaxBudget \in [BudgetKeys -> Nat]

VARIABLES
  queue, dirty, processing,  \* the work queue: tasks in order, to do, in work
  delayed,                   \* tasks that wait for their rate-limited retry
  shuttingDown,              \* the work queue's flag
  adding,                    \* tasks of callers past the check of the flag
  run,                       \* the workers that Run has started
  pc, task,                  \* where each worker is and the task it has
  stopped,                   \* stopCh is closed
  workerDone,                \* workerDone is closed
  shutdown,                  \* the call of Shutdown
  panicked,                  \* a closed channel was closed: the process ended
  owed,                      \* ghost: tasks not synced since they were added
  budget                     \* what is left of MaxBudget

vars == <<queue, dirty, processing, delayed, shuttingDown, adding, run, pc, task,
          stopped, workerDone, shutdown, panicked, owed, budget>>

workQueue == <<queue, dirty, processing, delayed, shuttingDown, owed>>
channels  == <<stopped, workerDone, shutdown, panicked>>

Init ==
  /\ queue = << >> /\ dirty = {} /\ processing = {} /\ delayed = {}
  /\ shuttingDown = FALSE
  /\ adding = {}
  /\ run = {}
  /\ pc = [w \in Workers |-> "off"]
  /\ task = [w \in Workers |-> NoTask]
  /\ stopped = FALSE /\ workerDone = FALSE
  /\ shutdown = "none"
  /\ panicked = FALSE
  /\ owed = {}
  /\ budget = MaxBudget

Spend(k) == budget[k] > 0 /\ budget' = [budget EXCEPT ![k] = @ - 1]

-----------------------------------------------------------------------------
(***************************************************************************)
(* The work queue: a task is to do at most once, and a task in work that   *)
(* is added again waits until it is done.  A queue that shuts down takes   *)
(* no more tasks but gives out those it has.                               *)
(***************************************************************************)
QueueAdd(t) ==
  IF shuttingDown
  THEN UNCHANGED <<queue, dirty, owed>>
  ELSE /\ dirty' = dirty \cup {t}
       /\ queue' = IF t \in dirty \cup processing THEN queue ELSE Append(queue, t)
       /\ owed' = owed \cup {t}

QueueDone(t) ==
  /\ processing' = processing \ {t}
  /\ queue' = IF t \in dirty THEN Append(queue, t) ELSE queue

(* A delay is over; the goroutine of the delays ends with ShutDown. *)
RetryDue(t) ==
  /\ ~panicked
  /\ t \in delayed
  /\ delayed' = delayed \ {t}
  /\ QueueAdd(t)
  /\ UNCHANGED <<processing, shuttingDown, adding, run, pc, task, channels, budget>>

-----------------------------------------------------------------------------
(* enqueue: the check of the flag, and then the Add. *)
Enqueue(t) ==
  /\ ~panicked
  /\ ~shuttingDown
  /\ Spend("enqueue")
  /\ adding' = adding \cup {t}
  /\ UNCHANGED <<workQueue, run, pc, task, channels>>

Add(t) ==
  /\ ~panicked
  /\ t \in adding
  /\ adding' = adding \ {t}
  /\ QueueAdd(t)
  /\ UNCHANGED <<processing, delayed, shuttingDown, run, pc, task, channels, budget>>

Run(ws) ==
  /\ ~panicked
  /\ run = {} /\ ws # {}
  /\ run' = ws
  /\ pc' = [w \in Workers |-> IF w \in ws THEN "until" ELSE "off"]
  /\ UNCHANGED <<workQueue, adding, task, channels, budget>>

(* The owner of stopCh closes it. *)
Stop ==
  /\ ~panicked
  /\ ~stopped /\ stopped' = TRUE
  /\ UNCHANGED <<workQueue, adding, run, pc, task, workerDone, shutdown, panicked, budget>>

-----------------------------------------------------------------------------
Goto(w, label) == pc' = [pc EXCEPT ![w] = label]

(* wait.Until calls worker, also after it returned, until stopCh is closed. *)
Until(w) ==
  /\ ~panicked
  /\ pc[w] = "until"
  /\ Goto(w, IF stopped THEN "ended" ELSE "get")
  /\ UNCHANGED <<workQueue, adding, run, task, channels, budget>>

Take(w) ==
  /\ queue # << >>
  /\ Goto(w, "sync")
  /\ task' = [task EXCEPT ![w] = Head(queue)]
  /\ queue' = Tail(queue)
  /\ dirty' = dirty \ {Head(queue)}
  /\ processing' = processing \cup {Head(queue)}

MutGet(w) ==
  /\ ~panicked
  /\ pc[w] = "get"
  /\ \/ ~shuttingDown /\ Take(w)
     \/ /\ shuttingDown
        /\ Goto(w, "quit")
        /\ UNCHANGED <<queue, dirty, processing, task>>
  /\ UNCHANGED <<delayed, shuttingDown, adding, run, channels, owed, budget>>

Get(w) ==
  /\ ~panicked
  /\ pc[w] = "get"
  /\ \/ Take(w)
     \/ /\ queue = << >> /\ shuttingDown
        /\ Goto(w, "quit")
        /\ UNCHANGED <<queue, dirty, processing, task>>
  /\ UNCHANGED <<delayed, shuttingDown, adding, run, channels, owed, budget>>

MutSyncDone(w) ==
  LET t == task[w] IN
  /\ ~panicked
  /\ pc[w] = "sync"
  /\ \/ t \in processing /\ QueueDone(t) /\ UNCHANGED <<pc, task>>
     \/ /\ t \notin processing
        /\ Goto(w, "get") /\ task' = [task EXCEPT ![w] = NoTask]
        /\ UNCHANGED <<queue, processing>>
  /\ UNCHANGED <<dirty, shuttingDown, adding, run, channels, budget, delayed, owed>>

MutSyncKept(w) ==
  /\ ~panicked
  /\ pc[w] = "sync"
  /\ \/ /\ owed' = owed \ ({task[w]} \ dirty)
        /\ Goto(w, "done")
        /\ UNCHANGED <<delayed, budget>>
     \/ /\ Spend("fault")
        /\ delayed' = IF shuttingDown THEN delayed ELSE delayed \cup {task[w]}
        /\ Goto(w, "get")
        /\ UNCHANGED owed
  /\ UNCHANGED <<queue, dirty, processing, shuttingDown, adding, run, task, channels>>

MutSyncForget(w) ==
  /\ ~panicked
  /\ pc[w] = "sync"
  /\ \/ UNCHANGED budget /\ owed' = owed \ ({task[w]} \ dirty)
     \/ Spend("fault") /\ UNCHANGED owed
  /\ Goto(w, "done")
  /\ UNCHANGED <<queue, dirty, processing, delayed, shuttingDown, adding, run, task, channels>>

(* A task whose sync fails comes back after a delay, unless the queue shuts down. *)
Sync(w) ==
  /\ ~panicked
  /\ pc[w] = "sync"
  /\ \/ /\ owed' = owed \ ({task[w]} \ dirty)
        /\ UNCHANGED <<delayed, budget>>
     \/ /\ Spend("fault")
        /\ delayed' = IF shuttingDown THEN delayed ELSE delayed \cup {task[w]}
        /\ UNCHANGED owed
  /\ Goto(w, "done")
  /\ UNCHANGED <<queue, dirty, processing, shuttingDown, adding, run, task, channels>>

Done(w) ==
  /\ ~panicked
  /\ pc[w] = "done"
  /\ QueueDone(task[w])
  /\ task' = [task EXCEPT ![w] = NoTask]
  /\ Goto(w, "get")
  /\ UNCHANGED <<dirty, delayed, shuttingDown, adding, run, channels, owed, budget>>

MutQuit(w) ==
  /\ ~panicked
  /\ pc[w] = "quit"
  /\ Goto(w, "close")
  /\ UNCHANGED <<workQueue, adding, run, task, channels, budget>>

MutQuitOpen(w) ==
  /\ ~panicked
  /\ pc[w] = "quit"
  /\ Goto(w, IF workerDone THEN "close" ELSE "until")
  /\ UNCHANGED <<workQueue, adding, run, task, channels, budget>>

(* isClosed(workerDone), and then close(workerDone). *)
Quit(w) ==
  /\ ~panicked
  /\ pc[w] = "quit"
  /\ Goto(w, IF workerDone THEN "until" ELSE "close")
  /\ UNCHANGED <<workQueue, adding, run, task, channels, budget>>

Close(w) ==
  /\ ~panicked
  /\ pc[w] = "close"
  /\ IF workerDone
     THEN panicked' = TRUE /\ UNCHANGED <<pc, workerDone>>
     ELSE workerDone' = TRUE /\ Goto(w, "until") /\ UNCHANGED panicked
  /\ UNCHANGED <<workQueue, adding, run, task, stopped, shutdown, budget>>

(* Shutdown: ShutDown of the work queue, which ends the delays, and the wait. *)
ShutDown ==
  /\ ~panicked
  /\ shutdown = "none"
  /\ shutdown' = "waits"
  /\ shuttingDown' = TRUE
  /\ delayed' = {}
  /\ UNCHANGED <<queue, dirty, processing, adding, run, pc, task, stopped, workerDone,
                 panicked, owed, budget>>

ShutdownReturns ==
  /\ ~panicked
  /\ shutdown = "waits" /\ workerDone
  /\ shutdown' = "returned"
  /\ UNCHANGED <<workQueue, adding, run, pc, task, stopped, workerDone, panicked, budget>>

-----------------------------------------------------------------------------
Worker(w) == Until(w) \/ Get(w) \/ Sync(w) \/ Done(w) \/ Quit(w) \/ Close(w)

Next ==
  \/ \E t \in Tasks : Enqueue(t) \/ Add(t) \/ RetryDue(t)
  \/ \E ws \in SUBSET Workers : Run(ws)
  \/ \E w \in Workers : Worker(w)
  \/ Stop \/ ShutDown \/ ShutdownReturns

Safety == Init /\ [][Next]_vars

(***************************************************************************)
(* Goroutines run, the sync function returns and delays end; whether Run,  *)
(* Shutdown and the end of stopCh ever come is not asked.                  *)
(***************************************************************************)
Fairness ==
  /\ \A w \in Workers : WF_vars(Worker(w))
  /\ \A t \in Tasks : WF_vars(Add(t)) /\ WF_vars(RetryDue(t))
  /\ WF_vars(ShutdownReturns)

Spec == Safety /\ Fairness

-----------------------------------------------------------------------------
(* Every variable keeps its type, and what is in work is what the workers hold. *)
Busy(w) == pc[w] \in {"sync", "done"}

TypeOK ==
  /\ queue \in Seq(Tasks) /\ dirty \subseteq Tasks /\ processing \subseteq Tasks
  /\ delayed \subseteq Tasks /\ adding \subseteq Tasks /\ owed \subseteq Tasks
  /\ {shuttingDown, stopped, workerDone, panicked} \subseteq BOOLEAN
  /\ run \subseteq Workers
  /\ pc \in [Workers -> {"off", "until", "get", "sync", "done", "quit", "close", "ended"}]
  /\ task \in [Workers -> Tasks \cup {NoTask}]
  /\ shutdown \in {"none", "waits", "returned"}
  /\ budget \in [BudgetKeys -> Nat]
  /\ processing = {task[w] : w \in {v \in Workers : Busy(v)}}

(***************************************************************************)
(* No two workers sync the same task at once: it is Done only when its     *)
(* sync has returned, and one that is added or retried meanwhile waits.    *)
(***************************************************************************)
Syncing(w) == pc[w] = "sync"

OneWorkerPerTask ==
  \A v, w \in Workers : v # w /\ Syncing(v) /\ Syncing(w) => task[v] # task[w]

(***************************************************************************)
(* A task that was added is not lost before it is synced: so long as the   *)
(* queue runs it stands in the queue, waits for its retry, is in the sync  *)
(* function, or is with a worker whose Done puts it back into the queue.   *)
(***************************************************************************)
Kept(t) ==
  \/ t \in delayed \/ \E i \in DOMAIN queue : queue[i] = t
  \/ \E w \in Workers : task[w] = t /\ (Syncing(w) \/ (pc[w] = "done" /\ t \in dirty))

NoTaskLost == ~shuttingDown => \A t \in owed : Kept(t)

(***************************************************************************)
(* With one worker Shutdown is what its comment says: it returns when the  *)
(* worker is through with all tasks that were added, and workerDone is     *)
(* closed once, although wait.Until runs the worker again.                 *)
(***************************************************************************)
Alone == \E w \in Workers : run = {w}

ShutdownDrains ==
  Alone /\ shutdown = "returned" => queue = << >> /\ dirty = {} /\ processing = {}

OneWorkerNeverPanics == Alone => ~panicked

Inside == \E w \in Workers : pc[w] \notin {"off", "until", "ended"}

(***************************************************************************)
(* A task that was added is synced, failures, retries and additions in     *)
(* between notwithstanding, unless the queue shuts down first.             *)
(***************************************************************************)
TasksAreSynced ==
  \A t \in Tasks : Inside /\ t \in owed ~> t \notin owed \/ shuttingDown \/ panicked

(***************************************************************************)
(* Shutdown returns once a worker is inside worker(), which leaves it only *)
(* for a queue that shuts down; a second worker may end the process first. *)
(***************************************************************************)
ShutdownIsAcknowledged ==
  shutdown = "waits" /\ Inside ~> shutdown = "returned" \/ panicked
=============================================================================
