-------------------------- MODULE TaskQueueProofs ---------------------------
(***************************************************************************)
(* Theorems about TaskQueue, for any workers, tasks and bounds.            *)
(***************************************************************************)
EXTENDS TaskQueue, TLAPS

Labels == {"off", "until", "get", "sync", "done", "quit", "close", "ended"}

(* The types without what relates the work queue to the workers. *)
QueueTypes ==
  /\ queue \in Seq(Tasks) /\ dirty \subseteq Tasks /\ processing \subseteq Tasks

RestTypes ==
  /\ delayed \subseteq Tasks /\ adding \subseteq Tasks /\ owed \subseteq Tasks
  /\ {shuttingDown, stopped, workerDone, panicked} \subseteq BOOLEAN
  /\ run \subseteq Workers
  /\ shutdown \in {"none", "waits", "returned"}
  /\ budget \in [BudgetKeys -> Nat]

WorkerTypes == pc \in [Workers -> Labels] /\ task \in [Workers -> Tasks \cup {NoTask}]

(* The work queue: each task once, to do and not in work; all that is to do is there. *)
Queued(t) == \E i \in 1 .. Len(queue) : queue[i] = t

QueueOK ==
  /\ \A i, j \in 1 .. Len(queue) : i # j => queue[i] # queue[j]
  /\ \A i \in 1 .. Len(queue) : queue[i] \in dirty /\ queue[i] \notin processing
  /\ \A t \in dirty : t \in processing \/ Queued(t)

(* The workers: each task in work is one worker's. *)
HoldOK ==
  /\ \A w \in Workers : Busy(w) => task[w] \in processing
  /\ \A t \in processing : \E w \in Workers : Busy(w) /\ task[w] = t
  /\ \A v, w \in Workers : v # w /\ Busy(v) /\ Busy(w) => task[v] # task[w]

(* The shutdown: who is past it saw the flag, and a lone worker left nothing behind. *)
Empty == queue = << >> /\ dirty = {} /\ processing = {}

Past(w) == pc[w] \in {"quit", "close"}

ShutOK ==
  /\ \A w \in Workers : w \notin run => pc[w] = "off"
  /\ run = {} => ~workerDone /\ ~panicked
  /\ \A w \in Workers : Past(w) => shuttingDown
  /\ workerDone => shuttingDown
  /\ shutdown = "returned" => workerDone
  /\ Alone /\ (workerDone \/ \E w \in Workers : Past(w)) => Empty
  /\ Alone => ~panicked
  /\ Alone /\ workerDone => \A w \in Workers : pc[w] # "close"

Inv == QueueTypes /\ RestTypes /\ WorkerTypes /\ QueueOK /\ HoldOK /\ ShutOK

(* The invariant holds at the start. *)
LEMMA InvInit == Init => Inv
<1> SUFFICES ASSUME Init PROVE Inv
  OBVIOUS
<1>1. QueueTypes /\ QueueOK
  BY DEF Init, QueueTypes, QueueOK
<1>2. RestTypes /\ WorkerTypes
  BY QueueAssumption DEF Init, RestTypes, WorkerTypes, Labels
<1>3. HoldOK /\ ShutOK
  BY DEF Init, HoldOK, ShutOK, Busy, Past, Alone
<1> QED BY <1>1, <1>2, <1>3 DEF Inv

-----------------------------------------------------------------------------
(* Adding a task leaves the work queue in order. *)
LEMMA QueueAddEffect ==
  ASSUME QueueTypes, QueueOK, RestTypes, NEW t \in Tasks, QueueAdd(t), processing' = processing
  PROVE  /\ QueueTypes' /\ QueueOK' /\ owed' \subseteq Tasks
         /\ shuttingDown => UNCHANGED <<queue, dirty, processing>>
<1>1. CASE shuttingDown \/ t \in dirty \cup processing
  <2>1. queue' = queue /\ dirty \subseteq dirty' /\ dirty' \subseteq dirty \cup {t}
    BY <1>1 DEF QueueAdd
  <2>2. t \notin dirty \cup processing => dirty' = dirty
    BY <1>1 DEF QueueAdd
  <2> QED BY <1>1, <2>1, <2>2 DEF QueueAdd, QueueTypes, QueueOK, Queued, RestTypes
<1>2. CASE ~shuttingDown /\ t \notin dirty \cup processing
  <2>1. queue' = Append(queue, t) /\ dirty' = dirty \cup {t} /\ owed' = owed \cup {t}
    BY <1>2 DEF QueueAdd
  <2>2. /\ Len(queue) \in Nat /\ queue' \in Seq(Tasks) /\ Len(queue') = Len(queue) + 1
        /\ queue'[Len(queue) + 1] = t
        /\ \A i \in 1 .. Len(queue) : queue'[i] = queue[i]
    BY <2>1 DEF QueueTypes
  <2>3. \A i \in 1 .. Len(queue') : i \in 1 .. Len(queue) \/ i = Len(queue) + 1
    BY <2>2
  <2>4. \A s \in dirty' : s \in processing \/ Queued(s)'
    BY <2>1, <2>2 DEF QueueOK, Queued
  <2>5. \A i, j \in 1 .. Len(queue') : i # j => queue'[i] # queue'[j]
    BY <1>2, <2>2, <2>3 DEF QueueOK
  <2>6. \A i \in 1 .. Len(queue') : queue'[i] \in dirty' /\ queue'[i] \notin processing
    BY <1>2, <2>1, <2>2, <2>3 DEF QueueOK
  <2>7. QueueOK'
    BY <2>4, <2>5, <2>6 DEF QueueOK
  <2> QED BY <1>2, <2>1, <2>2, <2>7 DEF QueueTypes, RestTypes
<1> QED BY <1>1, <1>2

(* So does taking its first task into work. *)
LEMMA TakeEffect ==
  ASSUME QueueTypes, QueueOK, NEW w \in Workers, Take(w)
  PROVE  /\ QueueTypes' /\ QueueOK'
         /\ Head(queue) \in Tasks \ processing
<1>1. /\ Len(queue) \in Nat /\ Len(queue) >= 1 /\ Head(queue) = queue[1]
      /\ queue' = Tail(queue) /\ queue' \in Seq(Tasks) /\ Len(queue') = Len(queue) - 1
      /\ \A i \in 1 .. Len(queue) - 1 : queue'[i] = queue[i + 1]
      /\ dirty' = dirty \ {Head(queue)} /\ processing' = processing \cup {Head(queue)}
  BY DEF QueueTypes, Take
<1>2. queue[1] \in Tasks /\ queue[1] \in dirty /\ queue[1] \notin processing
  BY <1>1 DEF QueueTypes, QueueOK
<1>3. \A i \in 1 .. Len(queue') : i + 1 \in 1 .. Len(queue) /\ i + 1 # 1
  BY <1>1
<1>4. \A i, j \in 1 .. Len(queue') : i # j => queue'[i] # queue'[j]
  BY <1>1, <1>3 DEF QueueOK
<1>5. \A i \in 1 .. Len(queue') : queue'[i] \in dirty' /\ queue'[i] \notin processing'
  BY <1>1, <1>3 DEF QueueOK
<1>6. ASSUME NEW t \in dirty', t \notin processing'
      PROVE  Queued(t)'
  <2>1. PICK i \in 1 .. Len(queue) : queue[i] = t
    BY <1>1, <1>6 DEF QueueOK, Queued
  <2>2. i # 1 /\ i - 1 \in 1 .. Len(queue') /\ queue'[i - 1] = t
    BY <1>1, <1>6, <2>1
  <2> QED BY <2>2 DEF Queued
<1> QED BY <1>1, <1>2, <1>4, <1>5, <1>6 DEF QueueTypes, QueueOK

(* ... and the end of the work on a task. *)
LEMMA QueueDoneEffect ==
  ASSUME QueueTypes, QueueOK, NEW t \in processing, QueueDone(t), dirty' = dirty
  PROVE  QueueTypes' /\ QueueOK'
<1>1. processing' = processing \ {t} /\ t \in Tasks
  BY DEF QueueDone, QueueTypes
<1>2. CASE t \notin dirty
  BY <1>1, <1>2 DEF QueueDone, QueueTypes, QueueOK, Queued
<1>3. CASE t \in dirty
  <2>1. /\ Len(queue) \in Nat /\ queue' \in Seq(Tasks) /\ Len(queue') = Len(queue) + 1
        /\ queue'[Len(queue) + 1] = t
        /\ \A i \in 1 .. Len(queue) : queue'[i] = queue[i]
    BY <1>1, <1>3 DEF QueueDone, QueueTypes
  <2>2. \A i \in 1 .. Len(queue') : i \in 1 .. Len(queue) \/ i = Len(queue) + 1
    BY <2>1
  <2>3. \A i, j \in 1 .. Len(queue') : i # j => queue'[i] # queue'[j]
    BY <2>1, <2>2 DEF QueueOK
  <2>4. \A i \in 1 .. Len(queue') : queue'[i] \in dirty' /\ queue'[i] \notin processing'
    BY <1>1, <1>3, <2>1, <2>2 DEF QueueOK
  <2>5. \A s \in dirty' : s \in processing' \/ Queued(s)'
    BY <1>1, <2>1 DEF QueueOK, Queued
  <2>6. QueueOK'
    BY <2>3, <2>4, <2>5 DEF QueueOK
  <2> QED BY <1>1, <2>1, <2>6 DEF QueueTypes
<1> QED BY <1>2, <1>3

(* Bounds stay numbers. *)
LEMMA SpendTypes ==
  ASSUME RestTypes, NEW k \in BudgetKeys, Spend(k) \/ UNCHANGED budget
  PROVE  budget' \in [BudgetKeys -> Nat]
BY DEF RestTypes, Spend
-----------------------------------------------------------------------------
(* What leaves the work queue, or the workers too, alone keeps what is said of them. *)
LEMMA QueueStays ==
  ASSUME QueueTypes, QueueOK, UNCHANGED <<queue, dirty, processing>>
  PROVE  QueueTypes' /\ QueueOK'
BY DEF QueueTypes, QueueOK, Queued

(* ... *)
LEMMA WorkersStay ==
  ASSUME WorkerTypes, HoldOK, UNCHANGED <<processing, pc, task>>
  PROVE  WorkerTypes' /\ HoldOK'
BY DEF WorkerTypes, HoldOK, Busy

(* A worker that holds the same before and after a step. *)
LEMMA WorkerMoves ==
  ASSUME WorkerTypes, HoldOK, NEW w \in Workers, NEW l \in Labels, Goto(w, l),
         Busy(w) <=> l \in {"sync", "done"}, UNCHANGED <<processing, task>>
  PROVE  WorkerTypes' /\ HoldOK'
<1>1. WorkerTypes' /\ \A v \in Workers : Busy(v)' <=> Busy(v)
  BY DEF WorkerTypes, Goto, Busy
<1> QED BY <1>1 DEF HoldOK

(* A lone worker is the only one that has started. *)
LEMMA LoneWorker ==
  ASSUME ShutOK, Alone, NEW w \in Workers, pc[w] # "off"
  PROVE  run = {w} /\ \A v \in Workers : v # w => pc[v] = "off"
BY DEF ShutOK, Alone

(* Nothing of the shutdown changes while the queue runs or when nothing moves. *)
LEMMA ShutStays ==
  ASSUME ShutOK, UNCHANGED <<shuttingDown, run, pc, workerDone, shutdown, panicked>>,
         shuttingDown => UNCHANGED <<queue, dirty, processing>>
  PROVE  ShutOK'
<1>1. \A w \in Workers : Past(w)' <=> Past(w)
  BY DEF Past
<1>2. Alone' <=> Alone
  BY DEF Alone
<1> QED BY <1>1, <1>2 DEF ShutOK, Empty

(* enqueue checks the flag. *)
LEMMA EnqueueStep == ASSUME Inv, NEW t \in Tasks, Enqueue(t) PROVE Inv'
<1>1. QueueTypes' /\ QueueOK' /\ WorkerTypes' /\ HoldOK'
  BY QueueStays, WorkersStay DEF Inv, Enqueue, workQueue
<1>2. ShutOK'
  BY ShutStays DEF Inv, Enqueue, workQueue, channels
<1>3. RestTypes'
  BY SpendTypes DEF Inv, Enqueue, workQueue, channels, RestTypes, BudgetKeys
<1> QED BY <1>1, <1>2, <1>3 DEF Inv

(* enqueue adds the task. *)
LEMMA AddStep == ASSUME Inv, NEW t \in Tasks, Add(t) \/ RetryDue(t) PROVE Inv'
<1>0. /\ QueueAdd(t) /\ UNCHANGED <<processing, shuttingDown, run, pc, task, channels, budget>>
      /\ delayed' \subseteq delayed /\ adding' \subseteq adding
  BY DEF Add, RetryDue
<1>1. /\ QueueTypes' /\ QueueOK' /\ owed' \subseteq Tasks
      /\ shuttingDown => UNCHANGED <<queue, dirty, processing>>
  BY <1>0, QueueAddEffect DEF Inv
<1>2. WorkerTypes' /\ HoldOK'
  BY <1>0, WorkersStay DEF Inv
<1>3. ShutOK'
  BY <1>0, <1>1, ShutStays DEF Inv, channels
<1>4. RestTypes'
  BY <1>0, <1>1 DEF Inv, RestTypes, channels
<1> QED BY <1>1, <1>2, <1>3, <1>4 DEF Inv

(* Run starts the workers: none of them holds a task yet. *)
LEMMA RunStep == ASSUME Inv, NEW ws \in SUBSET Workers, Run(ws) PROVE Inv'
<1>1. QueueTypes' /\ QueueOK'
  BY QueueStays DEF Inv, Run, workQueue
<1>2. \A w \in Workers : pc[w] = "off" /\ pc'[w] \in {"until", "off"}
  BY DEF Inv, Run, ShutOK
<1>3. WorkerTypes'
  BY DEF Inv, Run, WorkerTypes, Labels
<1>4. HoldOK'
  BY <1>2 DEF Inv, Run, workQueue, HoldOK, Busy
<1>5. \A w \in Workers : w \notin run' => pc'[w] = "off"
  BY DEF Run
<1>6. ShutOK'
  BY <1>2, <1>5 DEF Inv, Run, channels, ShutOK, Past, workQueue
<1>7. RestTypes'
  BY DEF Inv, Run, RestTypes, workQueue, channels
<1> QED BY <1>1, <1>3, <1>4, <1>6, <1>7 DEF Inv

(* wait.Until calls worker or ends. *)
LEMMA UntilStep == ASSUME Inv, NEW w \in Workers, Until(w) PROVE Inv'
<1>1. QueueTypes' /\ QueueOK'
  BY QueueStays DEF Inv, Until, workQueue
<1>2. PICK l \in {"ended", "get"} : Goto(w, l)
  BY DEF Until
<1>3. WorkerTypes' /\ HoldOK'
  BY <1>2, WorkerMoves DEF Inv, Until, workQueue, Labels, Busy
<1>4. \A v \in Workers : /\ Past(v)' => Past(v)
                         /\ pc[v] = "off" <=> pc'[v] = "off"
                         /\ pc'[v] = "close" => pc[v] = "close"
  BY <1>2 DEF Inv, Until, WorkerTypes, Goto, Past
<1>5. UNCHANGED <<run, workerDone, shuttingDown, shutdown, panicked, queue, dirty, processing>>
  BY DEF Until, workQueue, channels
<1>6. ShutOK'
  BY <1>4, <1>5 DEF Inv, ShutOK, Alone, Empty
<1>7. RestTypes'
  BY DEF Inv, Until, RestTypes, workQueue, channels
<1> QED BY <1>1, <1>3, <1>6, <1>7 DEF Inv

(* A worker takes a task that no worker has, or leaves a queue that shuts down. *)
LEMMA GetStep == ASSUME Inv, NEW w \in Workers, Get(w) PROVE Inv'
<1>0. /\ UNCHANGED <<run, workerDone, shuttingDown, shutdown, panicked>>
      /\ pc[w] = "get" /\ ~Busy(w) /\ RestTypes'
  BY DEF Inv, Get, RestTypes, channels, Busy
<1>1. CASE Take(w)
  <2>1. QueueTypes' /\ QueueOK' /\ Head(queue) \in Tasks \ processing
    BY <1>1, TakeEffect DEF Inv
  <2>2. WorkerTypes'
    BY <1>1, <2>1 DEF Inv, WorkerTypes, Take, Goto, Labels
  <2>3. /\ Busy(w)' /\ task'[w] = Head(queue)
        /\ \A v \in Workers \ {w} : /\ Busy(v)' <=> Busy(v)
                                    /\ task'[v] = task[v]
    BY <1>1 DEF Inv, WorkerTypes, Take, Goto, Busy
  <2>4. HoldOK'
    BY <1>0, <1>1, <2>1, <2>3 DEF Inv, HoldOK, Take
  <2>5. \A v \in Workers : /\ Past(v)' => Past(v)
                           /\ pc[v] = "off" => pc'[v] = "off"
                           /\ pc'[v] # "close" \/ Past(v)
    BY <1>0, <1>1 DEF Inv, WorkerTypes, Take, Goto, Past
  <2>6. queue # << >>
    BY <1>1 DEF Take
  <2>7. ShutOK'
    BY <1>0, <2>5, <2>6 DEF Inv, ShutOK, Alone, Empty
  <2> QED BY <1>0, <2>1, <2>2, <2>4, <2>7 DEF Inv
<1>2. CASE /\ queue = << >> /\ shuttingDown /\ Goto(w, "quit")
           /\ UNCHANGED <<queue, dirty, processing, task>>
  <2>1. QueueTypes' /\ QueueOK'
    BY <1>2, QueueStays DEF Inv
  <2>2. WorkerTypes' /\ HoldOK'
    BY <1>0, <1>2, WorkerMoves DEF Inv, Labels
  <2>3. /\ pc'[w] = "quit"
        /\ \A v \in Workers \ {w} : pc'[v] = pc[v]
    BY <1>2 DEF Inv, WorkerTypes, Goto
  <2>4. ASSUME Alone PROVE Empty'
    <3>1. \A v \in Workers : ~Busy(v)
      BY <1>0, <2>4, LoneWorker DEF Inv, Busy
    <3>2. processing = {}
      BY <3>1 DEF Inv, HoldOK
    <3>3. dirty = {}
      BY <1>2, <3>2 DEF Inv, QueueOK, Queued
    <3> QED BY <1>2, <3>2, <3>3 DEF Empty
  <2>5. Alone' <=> Alone
    BY <1>0 DEF Alone
  <2>6. ShutOK'
    BY <1>0, <1>2, <2>3, <2>4, <2>5 DEF Inv, ShutOK, Past
  <2> QED BY <1>0, <2>1, <2>2, <2>6 DEF Inv
<1> QED BY <1>1, <1>2 DEF Get

(* The sync function returns. *)
LEMMA SyncStep == ASSUME Inv, NEW w \in Workers, Sync(w) PROVE Inv'
<1>0. /\ UNCHANGED <<queue, dirty, processing, task, run, shuttingDown>>
      /\ UNCHANGED <<workerDone, shutdown, panicked>>
      /\ pc[w] = "sync" /\ Goto(w, "done")
  BY DEF Sync, channels
<1>1. QueueTypes' /\ QueueOK'
  BY <1>0, QueueStays DEF Inv
<1>2. WorkerTypes' /\ HoldOK'
  BY <1>0, WorkerMoves DEF Inv, Labels, Busy
<1>3. \A v \in Workers : /\ Past(v)' <=> Past(v)
                         /\ pc[v] = "off" <=> pc'[v] = "off"
                         /\ pc'[v] = "close" <=> pc[v] = "close"
  BY <1>0 DEF Inv, WorkerTypes, Goto, Past
<1>4. ShutOK'
  BY <1>0, <1>3 DEF Inv, ShutOK, Alone, Empty
<1>5. budget' \in [BudgetKeys -> Nat]
  BY SpendTypes DEF Inv, Sync, BudgetKeys
<1>6. task[w] \in Tasks
  BY <1>0 DEF Inv, HoldOK, QueueTypes, Busy
<1>7. RestTypes'
  BY <1>0, <1>5, <1>6 DEF Inv, Sync, RestTypes, channels
<1> QED BY <1>1, <1>2, <1>4, <1>7 DEF Inv

(* A task is done: its worker lets it go. *)
LEMMA DoneStep == ASSUME Inv, NEW w \in Workers, Done(w) PROVE Inv'
<1>0. /\ UNCHANGED <<dirty, run, shuttingDown, workerDone, shutdown, panicked>>
      /\ pc[w] = "done" /\ Busy(w) /\ task[w] \in processing /\ QueueDone(task[w])
      /\ processing' = processing \ {task[w]}
  BY DEF Inv, Done, channels, HoldOK, Busy, QueueDone
<1>1. QueueTypes' /\ QueueOK'
  BY <1>0, QueueDoneEffect DEF Inv
<1>2. WorkerTypes'
  BY DEF Inv, Done, WorkerTypes, Goto, Labels
<1>3. /\ ~Busy(w)'
      /\ \A v \in Workers \ {w} : (Busy(v)' <=> Busy(v)) /\ task'[v] = task[v]
  BY DEF Inv, Done, WorkerTypes, Goto, Busy
<1>4. HoldOK'
  BY <1>0, <1>3 DEF Inv, HoldOK
<1>5. \A v \in Workers : /\ Past(v)' => Past(v)
                         /\ pc[v] = "off" => pc'[v] = "off"
                         /\ pc'[v] # "close" \/ Past(v)
  BY DEF Inv, Done, WorkerTypes, Goto, Past
<1>6. ShutOK'
  BY <1>0, <1>5 DEF Inv, ShutOK, Alone, Empty
<1>7. RestTypes'
  BY DEF Inv, Done, RestTypes, channels
<1> QED BY <1>1, <1>2, <1>4, <1>6, <1>7 DEF Inv

(* isClosed(workerDone). *)
LEMMA QuitStep == ASSUME Inv, NEW w \in Workers, Quit(w) PROVE Inv'
<1>0. /\ UNCHANGED <<queue, dirty, processing, task, run, shuttingDown>>
      /\ UNCHANGED <<workerDone, shutdown, panicked>>
      /\ pc[w] = "quit" /\ Past(w)
  BY DEF Quit, workQueue, channels, Past
<1>1. QueueTypes' /\ QueueOK'
  BY <1>0, QueueStays DEF Inv
<1>2. PICK l \in {"until", "close"} : Goto(w, l) /\ (l = "close" => ~workerDone)
  BY DEF Quit
<1>3. WorkerTypes' /\ HoldOK'
  BY <1>0, <1>2, WorkerMoves DEF Inv, Labels, Busy
<1>4. \A v \in Workers : /\ Past(v)' => Past(v)
                         /\ pc[v] = "off" => pc'[v] = "off"
                         /\ pc'[v] = "close" => pc[v] = "close" \/ ~workerDone
  BY <1>0, <1>2 DEF Inv, WorkerTypes, Goto, Past
<1>5. ShutOK'
  BY <1>0, <1>4 DEF Inv, ShutOK, Alone, Empty
<1>6. RestTypes'
  BY DEF Inv, Quit, RestTypes, workQueue, channels
<1> QED BY <1>1, <1>3, <1>5, <1>6 DEF Inv

(* close(workerDone). *)
LEMMA CloseStep == ASSUME Inv, NEW w \in Workers, Close(w) PROVE Inv'
<1>0. /\ UNCHANGED <<queue, dirty, processing, task, run, shuttingDown, shutdown>>
      /\ pc[w] = "close" /\ Past(w) /\ shuttingDown /\ run # {}
  BY DEF Inv, Close, workQueue, Past, ShutOK
<1>1. QueueTypes' /\ QueueOK'
  BY <1>0, QueueStays DEF Inv
<1>2. RestTypes'
  BY DEF Inv, Close, RestTypes, workQueue
<1>3. CASE workerDone
  <2>1. ~Alone /\ ~Alone'
    BY <1>0, <1>3 DEF Inv, ShutOK, Alone
  <2>2. UNCHANGED <<pc, workerDone>>
    BY <1>3 DEF Close
  <2>3. WorkerTypes' /\ HoldOK'
    BY <1>0, <2>2, WorkersStay DEF Inv
  <2>4. ShutOK'
    BY <1>0, <2>1, <2>2 DEF Inv, ShutOK, Past
  <2> QED BY <1>1, <1>2, <2>3, <2>4 DEF Inv
<1>4. CASE ~workerDone
  <2>1. Goto(w, "until") /\ workerDone' = TRUE /\ UNCHANGED panicked
    BY <1>4 DEF Close
  <2>2. WorkerTypes' /\ HoldOK'
    BY <1>0, <2>1, WorkerMoves DEF Inv, Labels, Busy
  <2>3. /\ pc'[w] = "until"
        /\ \A v \in Workers \ {w} : pc'[v] = pc[v]
    BY <2>1 DEF Inv, WorkerTypes, Goto
  <2>4. Alone' <=> Alone
    BY <1>0 DEF Alone
  <2>5. Alone => Empty' /\ \A v \in Workers : pc'[v] # "close"
    BY <1>0, <2>3, LoneWorker DEF Inv, ShutOK, Empty
  <2>6. ShutOK'
    BY <1>0, <2>1, <2>3, <2>4, <2>5 DEF Inv, ShutOK, Past
  <2> QED BY <1>1, <1>2, <2>2, <2>6 DEF Inv
<1> QED BY <1>3, <1>4

(* The owner of stopCh closes it; Shutdown starts and returns. *)
LEMMA ShutdownStep == ASSUME Inv, Stop \/ ShutDown \/ ShutdownReturns PROVE Inv'
<1>0. /\ UNCHANGED <<queue, dirty, processing, pc, task, run, workerDone, panicked>>
      /\ shuttingDown => shuttingDown'
      /\ shutdown' = "returned" => shutdown = "returned" \/ workerDone
  BY DEF Stop, ShutDown, ShutdownReturns, workQueue
<1>1. QueueTypes' /\ QueueOK'
  BY <1>0, QueueStays DEF Inv
<1>2. WorkerTypes' /\ HoldOK'
  BY <1>0, WorkersStay DEF Inv
<1>3. \A w \in Workers : Past(w)' <=> Past(w)
  BY <1>0 DEF Past
<1>4. ShutOK'
  BY <1>0, <1>3 DEF Inv, ShutOK, Alone, Empty
<1>5. RestTypes'
  BY DEF Inv, Stop, ShutDown, ShutdownReturns, RestTypes, workQueue
<1> QED BY <1>1, <1>2, <1>4, <1>5 DEF Inv

(* A stutter keeps the invariant. *)
LEMMA StutterStep == ASSUME Inv, UNCHANGED vars PROVE Inv'
<1>1. QueueTypes' /\ QueueOK' /\ WorkerTypes' /\ HoldOK'
  BY QueueStays, WorkersStay DEF Inv, vars
<1>2. ShutOK'
  BY ShutStays DEF Inv, vars
<1>3. RestTypes'
  BY DEF Inv, vars, RestTypes
<1> QED BY <1>1, <1>2, <1>3 DEF Inv

(* Every step keeps the invariant. *)
LEMMA InvStep == Inv /\ [Next]_vars => Inv'
<1> SUFFICES ASSUME Inv, [Next]_vars PROVE Inv'
  OBVIOUS
<1>1. ASSUME NEW t \in Tasks, Enqueue(t) \/ Add(t) \/ RetryDue(t) PROVE Inv'
  BY <1>1, EnqueueStep, AddStep
<1>2. ASSUME NEW ws \in SUBSET Workers, Run(ws) PROVE Inv'
  BY <1>2, RunStep
<1>3. ASSUME NEW w \in Workers, Worker(w) PROVE Inv'
  BY <1>3, UntilStep, GetStep, SyncStep, DoneStep, QuitStep, CloseStep DEF Worker
<1>4. CASE Stop \/ ShutDown \/ ShutdownReturns
  BY <1>4, ShutdownStep
<1>5. CASE UNCHANGED vars
  BY <1>5, StutterStep
<1> QED BY <1>1, <1>2, <1>3, <1>4, <1>5 DEF Next

(* The invariant always holds. *)
LEMMA InvAlways == Spec => []Inv
BY InvInit, InvStep, PTL DEF Spec, Safety

-----------------------------------------------------------------------------
(* A task that is owed is to do, or will be, or is being done. *)
OwedOK ==
  ~shuttingDown =>
    \A t \in owed : t \in dirty \cup delayed \/ \E w \in Workers : Syncing(w) /\ task[w] = t

(* What a worker does with its task keeps the others in their places. *)
LEMMA OthersSync ==
  ASSUME WorkerTypes, NEW w \in Workers, NEW l \in Labels, Goto(w, l), ~Syncing(w),
         \A v \in Workers \ {w} : task'[v] = task[v],
         UNCHANGED <<shuttingDown, delayed, owed>>, dirty \subseteq dirty', OwedOK
  PROVE  OwedOK'
<1>1. \A v \in Workers : Syncing(v) => Syncing(v)' /\ task'[v] = task[v]
  BY DEF WorkerTypes, Goto, Syncing
<1> QED BY <1>1 DEF OwedOK

(* Additions and retries owe what they put into the queue. *)
LEMMA AddOwes ==
  ASSUME Inv, OwedOK, NEW t \in Tasks, Add(t) \/ RetryDue(t)
  PROVE  OwedOK'
<1>0. /\ QueueAdd(t) /\ UNCHANGED <<pc, task, shuttingDown>>
      /\ delayed \subseteq delayed' \cup {t}
  BY DEF Add, RetryDue
<1>1. \A w \in Workers : Syncing(w) => Syncing(w)'
  BY <1>0 DEF Syncing
<1>2. CASE ~shuttingDown
  <2>1. dirty' = dirty \cup {t} /\ owed' = owed \cup {t}
    BY <1>0, <1>2 DEF QueueAdd
  <2> QED BY <1>0, <1>1, <2>1 DEF OwedOK
<1> QED BY <1>0, <1>2 DEF OwedOK

(* A worker pays what it owes, or takes, delays and lets go without losing any. *)
LEMMA WorkerOwes ==
  ASSUME Inv, OwedOK, NEW w \in Workers, Worker(w)
  PROVE  OwedOK'
<1>t. WorkerTypes
  BY DEF Inv
<1>1. CASE Until(w) \/ Quit(w)
  <2>1. \E l \in Labels : Goto(w, l)
    BY <1>1 DEF Until, Quit, Labels
  <2> QED BY <1>t, <1>1, <2>1, OthersSync DEF Until, Quit, workQueue, Syncing
<1>2. CASE Close(w)
  <2>1. CASE workerDone
    <3>1. UNCHANGED <<workQueue, pc, task>>
      BY <1>2, <2>1 DEF Close
    <3> QED BY <3>1 DEF OwedOK, Syncing, workQueue
  <2>2. CASE ~workerDone
    BY <1>t, <1>2, <2>2, OthersSync DEF Close, workQueue, Syncing, Labels
  <2> QED BY <2>1, <2>2
<1>3. CASE Get(w)
  <2>0. pc[w] = "get" /\ UNCHANGED <<delayed, shuttingDown, owed>>
    BY <1>3 DEF Get
  <2>1. CASE Take(w)
    <3>1. Syncing(w)' /\ task'[w] = Head(queue) /\ dirty' = dirty \ {Head(queue)}
      BY <2>1 DEF Take, Goto, Syncing, Inv, WorkerTypes
    <3>2. \A v \in Workers : Syncing(v) => Syncing(v)' /\ task'[v] = task[v]
      BY <2>0, <2>1 DEF Take, Goto, Syncing, Inv, WorkerTypes
    <3> QED BY <2>0, <3>1, <3>2 DEF OwedOK
  <2>2. CASE Goto(w, "quit") /\ UNCHANGED <<queue, dirty, processing, task>>
    BY <1>t, <2>0, <2>2, OthersSync DEF Syncing, Labels
  <2> QED BY <1>3, <2>1, <2>2 DEF Get
<1>4. CASE Sync(w)
  <2>0. UNCHANGED <<dirty, shuttingDown, task>> /\ Goto(w, "done")
    BY <1>4 DEF Sync
  <2>1. \A v \in Workers \ {w} : Syncing(v) => Syncing(v)'
    BY <2>0 DEF Goto, Syncing, Inv, WorkerTypes
  <2>2. \/ owed' = owed \ ({task[w]} \ dirty) /\ UNCHANGED delayed
        \/ UNCHANGED owed /\ delayed' = IF shuttingDown THEN delayed ELSE delayed \cup {task[w]}
    BY <1>4 DEF Sync
  <2> QED BY <2>0, <2>1, <2>2 DEF OwedOK
<1>5. CASE Done(w)
  BY <1>t, <1>5, OthersSync DEF Done, Syncing, Labels
<1> QED BY <1>1, <1>2, <1>3, <1>4, <1>5 DEF Worker

(* Every step keeps what is owed in view. *)
LEMMA OwedStep == Inv /\ OwedOK /\ [Next]_vars => OwedOK'
<1> SUFFICES ASSUME Inv, OwedOK, [Next]_vars PROVE OwedOK'
  OBVIOUS
<1>1. ASSUME NEW t \in Tasks, Enqueue(t) PROVE OwedOK'
  BY <1>1 DEF Enqueue, workQueue, OwedOK, Syncing
<1>2. ASSUME NEW ws \in SUBSET Workers, Run(ws) PROVE OwedOK'
  <2>1. \A w \in Workers : ~Syncing(w)
    BY <1>2 DEF Inv, ShutOK, Run, Syncing
  <2> QED BY <1>2, <2>1 DEF Run, workQueue, OwedOK
<1>3. ASSUME NEW w \in Workers, Worker(w) PROVE OwedOK'
  BY <1>3, WorkerOwes
<1>4. ASSUME NEW t \in Tasks, Add(t) \/ RetryDue(t) PROVE OwedOK'
  BY <1>4, AddOwes
<1>5. CASE ShutDown
  BY <1>5 DEF ShutDown, OwedOK
<1>6. CASE Stop \/ ShutdownReturns \/ UNCHANGED vars
  BY <1>6 DEF Stop, ShutdownReturns, vars, workQueue, OwedOK, Syncing
<1> QED BY <1>1, <1>2, <1>3, <1>4, <1>5, <1>6 DEF Next

(***************************************************************************)
(* Every variable keeps its type, and the tasks in work are those that the *)
(* workers hold.                                                           *)
(***************************************************************************)
THEOREM TypeCorrect == Spec => []TypeOK
<1>1. Inv => TypeOK
  <2> SUFFICES ASSUME Inv PROVE TypeOK
    OBVIOUS
  <2>1. processing = {task[w] : w \in {v \in Workers : Busy(v)}}
    BY DEF Inv, HoldOK
  <2> QED BY <2>1 DEF Inv, QueueTypes, RestTypes, WorkerTypes, Labels, TypeOK
<1> QED BY <1>1, InvAlways, PTL

(* However many workers run, no task is in the sync function twice at once. *)
THEOREM NoTaskTwice == Spec => []OneWorkerPerTask
<1>1. Inv => OneWorkerPerTask
  BY DEF Inv, HoldOK, Busy, OneWorkerPerTask, Syncing
<1> QED BY <1>1, InvAlways, PTL

(***************************************************************************)
(* No task gets lost between enqueue and sync, with any number of workers  *)
(* and however often it fails or is added again: see NoTaskLost.           *)
(***************************************************************************)
THEOREM OwedIsKept == Spec => []NoTaskLost
<1>1. Init => OwedOK
  BY DEF Init, OwedOK
<1>2. Inv /\ OwedOK => NoTaskLost
  <2> SUFFICES ASSUME Inv, OwedOK, ~shuttingDown, NEW t \in owed PROVE Kept(t)
    BY DEF NoTaskLost
  <2>1. CASE t \in delayed \/ \E w \in Workers : Syncing(w) /\ task[w] = t
    BY <2>1 DEF Kept
  <2>2. CASE t \in dirty
    <3>1. CASE Queued(t)
      BY <3>1 DEF Queued, Kept, Inv, QueueTypes
    <3>2. CASE t \in processing
      BY <2>2, <3>2 DEF Inv, HoldOK, Busy, Syncing, Kept
    <3> QED BY <2>2, <3>1, <3>2 DEF Inv, QueueOK
  <2> QED BY <2>1, <2>2 DEF OwedOK
<1> QED BY <1>1, <1>2, OwedStep, InvAlways, PTL DEF Spec, Safety

(* With one worker Shutdown returns only when every task that was added is done. *)
THEOREM DrainedByShutdown == Spec => []ShutdownDrains
<1>1. Inv => ShutdownDrains
  BY DEF Inv, ShutOK, Empty, ShutdownDrains
<1> QED BY <1>1, InvAlways, PTL

(* A lone worker closes workerDone once, however often wait.Until runs it. *)
THEOREM ClosedOnce == Spec => []OneWorkerNeverPanics
<1>1. Inv => OneWorkerNeverPanics
  BY DEF Inv, ShutOK, OneWorkerNeverPanics
<1> QED BY <1>1, InvAlways, PTL
=============================================================================
