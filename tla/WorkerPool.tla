----------------------------- MODULE WorkerPool -----------------------------
(***************************************************************************)
(* util/Worker.hpp and util/WorkerPool.hpp: the pool of threads behind     *)
(* world/Emerger. Worker threads take tasks from one queue guarded by a    *)
(* mutex and sleep on a condition variable; callers push under the mutex   *)
(* and notify after they released it; the destructor marks every worker    *)
(* and notifies WITHOUT the mutex, then joins.                             *)
(*                                                                         *)
(* A step is either one critical section of taskQueueMutex or one access   *)
(* outside it, which is where the threads interleave.                      *)
(***************************************************************************)
EXTENDS Naturals, Sequences, FiniteSets

CONSTANTS
  Workers,  \* the elements of WorkerPool::workers
  Callers,  \* the threads that call addTask
  Tasks,    \* the tasks they add; World::getChunk queues each new chunk once
  NoTask

ASSUME PoolAssumption ==
  /\ IsFiniteSet(Workers)
  /\ IsFiniteSet(Callers)
  /\ NoTask \notin Tasks

VARIABLES
  queue,   \* taskQueue
  wpc,     \* where each worker thread is in Worker::run
  run,     \* keepRunning of each worker (an uninitialised atomic reads FALSE or TRUE)
  task,    \* run()'s local `task`
  cpc,     \* where each caller is in addTask
  added,   \* history: every task ever pushed
  owner,   \* where the constructing and destroying thread is
  marked,  \* the workers ~WorkerPool has marked so far
  missed   \* history: workers the stop request cannot reach (see HangOnlyInWindow)

vars == <<queue, wpc, run, task, cpc, added, owner, marked, missed>>

----------------------------------------------------------------------------
\* A worker is counted as awake from the moment it will look at the queue
\* again without anybody's help.
AwakeStates == {"created", "check", "lock", "woken"}
WorkerStates == AwakeStates \cup {"absent", "waiting", "working", "exited"}
OwnerStates == {"building", "up", "marking", "joining", "gone"}

Waiting == {w \in Workers : wpc[w] = "waiting"}
Awake == {w \in Workers : wpc[w] \in AwakeStates}
Notifying == {c \in Callers : cpc[c] = "notify"}

\* Type invariant. A worker holds a task exactly while it is processing one.
TypeOK ==
  /\ queue \in Seq(Tasks)
  /\ wpc \in [Workers -> WorkerStates]
  /\ run \in [Workers -> BOOLEAN]
  /\ task \in [Workers -> Tasks \cup {NoTask}]
  /\ \A w \in Workers : task[w] = NoTask <=> wpc[w] # "working"
  /\ cpc \in [Callers -> {"idle", "notify"}]
  /\ added \subseteq Tasks
  /\ owner \in OwnerStates
  /\ marked \subseteq Workers
  /\ missed \subseteq Workers

Init ==
  /\ queue = <<>>
  /\ wpc = [w \in Workers |-> "absent"]
  /\ run \in [Workers -> BOOLEAN]
  /\ task = [w \in Workers |-> NoTask]
  /\ cpc = [c \in Callers |-> "idle"]
  /\ added = {}
  /\ owner = "building"
  /\ marked = {}
  /\ missed = {}

----------------------------------------------------------------------------
(* The pool's owner. *)

\* WorkerPool(): emplace a worker and start its thread, which runs from now on.
Spawn(w) ==
  /\ owner = "building"
  /\ wpc[w] = "absent"
  /\ wpc' = [wpc EXCEPT ![w] = "created"]
  /\ UNCHANGED <<queue, run, task, cpc, added, owner, marked, missed>>

Built ==
  /\ owner = "building"
  /\ \A w \in Workers : wpc[w] # "absent"
  /\ owner' = "up"
  /\ UNCHANGED <<queue, wpc, run, task, cpc, added, marked, missed>>

\* ~WorkerPool(), first loop: markWorkerStop. No caller is inside addTask: every
\* caller holds a reference to the World that owns the pool. A thread that has not
\* yet executed the first line of run() will overwrite the mark.
MarkStop(w) ==
  /\ owner \in {"up", "marking"}
  /\ Notifying = {}
  /\ w \notin marked
  /\ run' = [run EXCEPT ![w] = FALSE]
  /\ marked' = marked \cup {w}
  /\ owner' = "marking"
  /\ missed' = IF wpc[w] = "created" THEN missed \cup {w} ELSE missed
  /\ UNCHANGED <<queue, wpc, task, cpc, added>>

NotifyAll_BeforeMark ==
  /\ owner = "marking"
  /\ wpc' = [w \in Workers |->
              IF wpc[w] = "waiting" /\ w \notin marked THEN "woken" ELSE wpc[w]]
  /\ owner' = IF marked = Workers THEN "joining" ELSE "marking"
  /\ missed' = missed \cup {w \in Workers : wpc[w] = "lock"}
  /\ UNCHANGED <<queue, run, task, cpc, added, marked>>

NotifyAll ==
  /\ owner = "marking"
  /\ marked = Workers
  /\ wpc' = [w \in Workers |-> IF wpc[w] = "waiting" THEN "woken" ELSE wpc[w]]
  /\ owner' = "joining"
  /\ missed' = missed \cup {w \in Workers : wpc[w] = "lock"}
  /\ UNCHANGED <<queue, run, task, cpc, added, marked>>

\* ~WorkerPool(), second loop: stopWorkerThread joins every worker.
JoinAll ==
  /\ owner = "joining"
  /\ \A w \in Workers : wpc[w] = "exited"
  /\ owner' = "gone"
  /\ UNCHANGED <<queue, wpc, run, task, cpc, added, marked, missed>>

----------------------------------------------------------------------------
(* addTask, in two steps: the push is under the mutex, the notify is not. *)

AddTask_NoNotify(c, t) ==
  /\ owner = "up"
  /\ cpc[c] = "idle"
  /\ t \notin added
  /\ queue' = Append(queue, t)
  /\ added' = added \cup {t}
  /\ UNCHANGED <<wpc, run, task, cpc, owner, marked, missed>>

AddTask(c, t) ==
  /\ owner = "up"
  /\ cpc[c] = "idle"
  /\ t \notin added
  /\ queue' = Append(queue, t)
  /\ added' = added \cup {t}
  /\ cpc' = [cpc EXCEPT ![c] = "notify"]
  /\ UNCHANGED <<wpc, run, task, owner, marked, missed>>

\* notify_one: wakes one sleeping worker, and is lost when nobody sleeps.
NotifyOne(c) ==
  /\ cpc[c] = "notify"
  /\ cpc' = [cpc EXCEPT ![c] = "idle"]
  /\ IF Waiting = {}
       THEN UNCHANGED wpc
       ELSE \E w \in Waiting : wpc' = [wpc EXCEPT ![w] = "woken"]
  /\ UNCHANGED <<queue, run, task, added, owner, marked, missed>>

----------------------------------------------------------------------------
(* Worker::run. *)

\* The thread starts: keepRunning.store(true), whatever was stored before.
Start(w) ==
  /\ wpc[w] = "created"
  /\ run' = [run EXCEPT ![w] = TRUE]
  /\ wpc' = [wpc EXCEPT ![w] = "check"]
  /\ UNCHANGED <<queue, task, cpc, added, owner, marked, missed>>

\* The loop condition, read with no lock held.
CheckRun(w) ==
  /\ wpc[w] = "check"
  /\ wpc' = [wpc EXCEPT ![w] = IF run[w] THEN "lock" ELSE "exited"]
  /\ UNCHANGED <<queue, run, task, cpc, added, owner, marked, missed>>

TakeFront_NoPop(w) ==
  /\ queue # <<>>
  /\ task' = [task EXCEPT ![w] = Head(queue)]
  /\ UNCHANGED queue
  /\ wpc' = [wpc EXCEPT ![w] = "working"]

\* The front of the queue moves to the local variable, and the mutex is released.
TakeFront(w) ==
  /\ queue # <<>>
  /\ task' = [task EXCEPT ![w] = Head(queue)]
  /\ queue' = Tail(queue)
  /\ wpc' = [wpc EXCEPT ![w] = "working"]

\* Under the mutex: take a task, or give the mutex up and sleep in one step.
LockAndLook(w) ==
  /\ wpc[w] = "lock"
  /\ \/ TakeFront(w)
     \/ /\ queue = <<>>
        /\ wpc' = [wpc EXCEPT ![w] = "waiting"]
        /\ UNCHANGED <<queue, task>>
  /\ UNCHANGED <<run, cpc, added, owner, marked, missed>>

\* wait() may return with nobody having notified.
SpuriousWake(w) ==
  /\ wpc[w] = "waiting"
  /\ wpc' = [wpc EXCEPT ![w] = "woken"]
  /\ UNCHANGED <<queue, run, task, cpc, added, owner, marked, missed>>

Resume_NoStopCheck(w) ==
  /\ wpc[w] = "woken"
  /\ \/ TakeFront(w)
     \/ /\ queue = <<>>
        /\ wpc' = [wpc EXCEPT ![w] = "waiting"]
        /\ UNCHANGED <<queue, task>>
  /\ UNCHANGED <<run, cpc, added, owner, marked, missed>>

\* wait() returned and the mutex is held again.
Resume(w) ==
  /\ wpc[w] = "woken"
  /\ \/ /\ ~run[w]
        /\ wpc' = [wpc EXCEPT ![w] = "exited"]
        /\ UNCHANGED <<queue, task>>
     \/ /\ run[w]
        /\ TakeFront(w)
     \/ /\ run[w]
        /\ queue = <<>>
        /\ wpc' = [wpc EXCEPT ![w] = "check"]
        /\ UNCHANGED <<queue, task>>
  /\ UNCHANGED <<run, cpc, added, owner, marked, missed>>

Finish_KeepTask(w) ==
  /\ wpc[w] = "working"
  /\ wpc' = [wpc EXCEPT ![w] = "check"]
  /\ UNCHANGED <<queue, run, task, cpc, added, owner, marked, missed>>

\* processTask returns (what the emerger does in it is MapSync's business).
Finish(w) ==
  /\ wpc[w] = "working"
  /\ task' = [task EXCEPT ![w] = NoTask]
  /\ wpc' = [wpc EXCEPT ![w] = "check"]
  /\ UNCHANGED <<queue, run, cpc, added, owner, marked, missed>>

----------------------------------------------------------------------------
WorkerStep(w) ==
  Start(w) \/ CheckRun(w) \/ LockAndLook(w) \/ Resume(w) \/ Finish(w)

OwnerStep ==
  \/ \E w \in Workers : Spawn(w)
  \/ Built
  \/ \E w \in Workers : MarkStop(w)
  \/ NotifyAll
  \/ JoinAll

Next ==
  \/ OwnerStep
  \/ \E c \in Callers : NotifyOne(c) \/ \E t \in Tasks : AddTask(c, t)
  \/ \E w \in Workers : WorkerStep(w) \/ SpuriousWake(w)

\* The scheduler runs every thread; nothing forces a caller to add a task, the owner
\* to destroy the pool, or a wait to return spuriously. A destructor that has begun
\* is carried on.
Fairness ==
  /\ \A w \in Workers : WF_vars(WorkerStep(w))
  /\ \A c \in Callers : WF_vars(NotifyOne(c))
  /\ WF_vars(\E w \in Workers : Spawn(w))
  /\ WF_vars(Built)
  /\ WF_vars(owner = "marking" /\ \E w \in Workers : MarkStop(w))
  /\ WF_vars(NotifyAll)
  /\ WF_vars(JoinAll)

Safety == Init /\ [][Next]_vars

Spec == Safety /\ Fairness

----------------------------------------------------------------------------
(* Properties *)

\* While any worker sleeps, every task in the queue is matched by a notification
\* still to be sent or by a worker that is on its way to the queue: the pool never
\* sleeps on work, although addTask notifies outside the mutex, a notification with
\* no sleeper is lost and a woken worker may find the queue emptied by another.
WorkConserving ==
  (owner = "up" /\ Waiting # {})
    => Len(queue) <= Cardinality(Notifying) + Cardinality(Awake)

\* ~WorkerPool waits for ever on a worker only through the two windows that storing
\* keepRunning and notifying without the mutex leave open: the mark came before the
\* thread's own store(true), or the broadcast came between the loop's check of
\* keepRunning and the wait. Any other worker is out of the wait once it is notified.
HangOnlyInWindow ==
  owner = "joining" => Waiting \subseteq missed

\* Outside those windows destruction ends: every worker sees its mark, finishes the
\* task it is on, and is joined.
DestructorReturns ==
  (owner = "joining" /\ missed = {}) ~> (owner = "gone")

Abstract == INSTANCE TaskPool
  WITH backlog <- queue, running <- task, submitted <- added,
       closed <- owner \in {"marking", "joining", "gone"}

\* The threads, mutex and condition variable implement the abstract pool: FIFO, each
\* task taken once, and none that was not submitted.
ImplementsTaskPool == Abstract!Safety

\* And no task is left behind while the pool is open: some worker takes what is queued,
\* and returns from it, if the scheduler runs every thread; no spurious wake-up and no
\* later addTask is needed to notice a task.
ServesTasks == Abstract!Fairness
=============================================================================
