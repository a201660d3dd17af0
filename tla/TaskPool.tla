------------------------------ MODULE TaskPool ------------------------------
(***************************************************************************)
(* What diggler::util::WorkerPool promises its callers, with no threads,   *)
(* locks or condition variables: tasks are taken in the order in which     *)
(* they were submitted, each one once, by whichever worker is free; and    *)
(* while the pool is open no submitted task waits for ever.                *)
(***************************************************************************)
EXTENDS Naturals, Sequences

CONSTANTS
  Tasks,    \* what can be submitted (weak references to chunks to emerge)
  Workers,  \* the worker threads
  NoTask    \* what an idle worker holds

VARIABLES
  backlog,    \* submitted and not taken, oldest first
  running,    \* the task each worker is on
  submitted,  \* every task ever submitted
  closed      \* the pool is being destroyed

vars == <<backlog, running, submitted, closed>>

Init ==
  /\ backlog = <<>>
  /\ running = [w \in Workers |-> NoTask]
  /\ submitted = {}
  /\ closed = FALSE

Submit(t) ==
  /\ ~closed
  /\ t \notin submitted
  /\ backlog' = Append(backlog, t)
  /\ submitted' = submitted \cup {t}
  /\ UNCHANGED <<running, closed>>

Take(w) ==
  /\ running[w] = NoTask
  /\ backlog # <<>>
  /\ running' = [running EXCEPT ![w] = Head(backlog)]
  /\ backlog' = Tail(backlog)
  /\ UNCHANGED <<submitted, closed>>

Complete(w) ==
  /\ running[w] # NoTask
  /\ running' = [running EXCEPT ![w] = NoTask]
  /\ UNCHANGED <<backlog, submitted, closed>>

\* A closed pool drops whatever nobody has taken.
Close ==
  /\ ~closed
  /\ closed' = TRUE
  /\ UNCHANGED <<backlog, running, submitted>>

Next ==
  \/ \E t \in Tasks : Submit(t)
  \/ \E w \in Workers : Take(w) \/ Complete(w)
  \/ Close

OpenTake == ~closed /\ \E w \in Workers : Take(w)

Safety == Init /\ [][Next]_vars

Fairness == WF_vars(OpenTake) /\ \A w \in Workers : WF_vars(Complete(w))

Spec == Safety /\ Fairness
=============================================================================
