------------------------- MODULE WorkerPool_proofs --------------------------
(***************************************************************************)
(* Proofs about WorkerPool for any number of workers, callers and tasks.   *)
(***************************************************************************)
EXTENDS WorkerPool, FiniteSetTheorems, SequenceTheorems, TLAPS

(* What one step may do, named once for the case splits below. *)
LEMMA StepCases ==
  ASSUME [Next]_vars, NEW P,
         \A w \in Workers : Spawn(w) => P,
         Built => P,
         \A w \in Workers : MarkStop(w) => P,
         NotifyAll => P,
         JoinAll => P,
         \A c \in Callers, t \in Tasks : AddTask(c, t) => P,
         \A c \in Callers : NotifyOne(c) => P,
         \A w \in Workers : Start(w) => P,
         \A w \in Workers : CheckRun(w) => P,
         \A w \in Workers : LockAndLook(w) => P,
         \A w \in Workers : SpuriousWake(w) => P,
         \A w \in Workers : Resume(w) => P,
         \A w \in Workers : Finish(w) => P,
         UNCHANGED vars => P
  PROVE  P
  BY DEF Next, OwnerStep, WorkerStep

----------------------------------------------------------------------------
(* Type correctness. *)

(* TypeOK holds initially. *)
LEMMA TypeInit == Init => TypeOK
  BY PoolAssumption DEF Init, TypeOK, WorkerStates, AwakeStates, OwnerStates

(* Every step of every thread preserves TypeOK. *)
LEMMA TypeStep == TypeOK /\ [Next]_vars => TypeOK'
  <1> SUFFICES ASSUME TypeOK, [Next]_vars PROVE TypeOK'
    OBVIOUS
  <1> USE PoolAssumption DEF TypeOK, WorkerStates, AwakeStates, OwnerStates
  <1>1. \A w \in Workers : Spawn(w) => TypeOK'
    BY DEF Spawn
  <1>2. Built => TypeOK'
    BY DEF Built
  <1>3. \A w \in Workers : MarkStop(w) => TypeOK'
    BY DEF MarkStop
  <1>4. NotifyAll => TypeOK'
    BY DEF NotifyAll
  <1>5. JoinAll => TypeOK'
    BY DEF JoinAll
  <1>6. \A c \in Callers, t \in Tasks : AddTask(c, t) => TypeOK'
    BY DEF AddTask
  <1>7. \A c \in Callers : NotifyOne(c) => TypeOK'
    BY DEF NotifyOne, Waiting
  <1>8. \A w \in Workers : Start(w) => TypeOK'
    BY DEF Start
  <1>9. \A w \in Workers : CheckRun(w) => TypeOK'
    BY DEF CheckRun
  <1>10. \A w \in Workers : LockAndLook(w) => TypeOK'
    <2> SUFFICES ASSUME NEW w \in Workers, LockAndLook(w) PROVE TypeOK'
      OBVIOUS
    <2>1. CASE TakeFront(w)
      BY <2>1, HeadTailProperties DEF LockAndLook, TakeFront
    <2>2. CASE ~TakeFront(w)
      BY <2>2 DEF LockAndLook
    <2> QED
      BY <2>1, <2>2
  <1>11. \A w \in Workers : SpuriousWake(w) => TypeOK'
    BY DEF SpuriousWake
  <1>12. \A w \in Workers : Resume(w) => TypeOK'
    <2> SUFFICES ASSUME NEW w \in Workers, Resume(w) PROVE TypeOK'
      OBVIOUS
    <2>1. CASE TakeFront(w)
      BY <2>1, HeadTailProperties DEF Resume, TakeFront
    <2>2. CASE ~TakeFront(w)
      BY <2>2 DEF Resume
    <2> QED
      BY <2>1, <2>2
  <1>13. \A w \in Workers : Finish(w) => TypeOK'
    BY DEF Finish
  <1>14. UNCHANGED vars => TypeOK'
    BY DEF vars
  <1> QED
    BY <1>1, <1>2, <1>3, <1>4, <1>5, <1>6, <1>7, <1>8, <1>9, <1>10, <1>11, <1>12,
       <1>13, <1>14, StepCases

(* The type invariant holds in every reachable state: in particular a worker holds a *)
(* task exactly while it is inside processTask.                                       *)
THEOREM TypeCorrect == Safety => []TypeOK
  <1>1. Init => TypeOK
    BY TypeInit
  <1>2. TypeOK /\ [Next]_vars => TypeOK'
    BY TypeStep
  <1> QED
    BY <1>1, <1>2, PTL DEF Safety

----------------------------------------------------------------------------
(* Work conservation. *)

(* While the pool is being built nothing is queued, and until it is destroyed every     *)
(* worker that has started may run: nobody leaves the loop.                             *)
Open ==
  /\ owner = "building" => queue = <<>>
  /\ owner \in {"building", "up"} =>
       \A w \in Workers : wpc[w] \notin {"absent", "created"} => run[w]

(* The inductive invariant behind WorkConserving. *)
ConservingInv == TypeOK /\ Open /\ WorkConserving

(* The sets that WorkConserving counts are finite. *)
LEMMA CountsFinite ==
  /\ IsFiniteSet(Notifying) /\ Cardinality(Notifying) \in Nat
  /\ IsFiniteSet(Awake) /\ Cardinality(Awake) \in Nat
  <1>1. Notifying \subseteq Callers /\ Awake \subseteq Workers
    BY DEF Notifying, Awake
  <1>2. IsFiniteSet(Notifying) /\ IsFiniteSet(Awake)
    BY <1>1, FS_Subset, PoolAssumption
  <1> QED
    BY <1>2, FS_CardinalityType

(* Init establishes it: nothing is queued. *)
LEMMA ConservingInit == Init => ConservingInv
  <1> SUFFICES ASSUME Init PROVE ConservingInv
    OBVIOUS
  <1>1. TypeOK
    BY TypeInit
  <1>2. Open /\ WorkConserving
    BY DEF Init, Open, WorkConserving
  <1> QED
    BY <1>1, <1>2 DEF ConservingInv

(* Nobody leaves the loop of an open pool, and nothing is queued in an unfinished one. *)
LEMMA OpenStep == TypeOK /\ Open /\ [Next]_vars => Open'
  <1> SUFFICES ASSUME TypeOK, Open, [Next]_vars PROVE Open'
    OBVIOUS
  <1> USE DEF TypeOK, Open
  <1>1. \A w \in Workers : Spawn(w) => Open'
    BY DEF Spawn
  <1>2. Built => Open'
    BY DEF Built
  <1>3. \A w \in Workers : MarkStop(w) => Open'
    BY DEF MarkStop
  <1>4. NotifyAll => Open'
    BY DEF NotifyAll
  <1>5. JoinAll => Open'
    BY DEF JoinAll
  <1>6. \A c \in Callers, t \in Tasks : AddTask(c, t) => Open'
    BY DEF AddTask
  <1>7. \A c \in Callers : NotifyOne(c) => Open'
    BY DEF NotifyOne, Waiting
  <1>8. \A w \in Workers : Start(w) => Open'
    BY DEF Start
  <1>9. \A w \in Workers : CheckRun(w) => Open'
    BY DEF CheckRun
  <1>10. \A w \in Workers : LockAndLook(w) => Open'
    BY DEF LockAndLook, TakeFront
  <1>11. \A w \in Workers : SpuriousWake(w) => Open'
    BY DEF SpuriousWake
  <1>12. \A w \in Workers : Resume(w) => Open'
    BY DEF Resume, TakeFront
  <1>13. \A w \in Workers : Finish(w) => Open'
    BY DEF Finish
  <1>14. UNCHANGED vars => Open'
    BY DEF vars
  <1> QED
    BY <1>1, <1>2, <1>3, <1>4, <1>5, <1>6, <1>7, <1>8, <1>9, <1>10, <1>11, <1>12,
       <1>13, <1>14, StepCases

(* A worker that moves between a state that counts as awake and one that does not *)
(* changes the number of workers awake by one.                                     *)
LEMMA AwakeMoves ==
  ASSUME TypeOK, NEW w \in Workers, NEW x \in WorkerStates, wpc' = [wpc EXCEPT ![w] = x]
  PROVE  /\ x \in AwakeStates /\ wpc[w] \notin AwakeStates
              => Cardinality(Awake') = Cardinality(Awake) + 1
         /\ x \notin AwakeStates /\ wpc[w] \in AwakeStates
              => Cardinality(Awake') = Cardinality(Awake) - 1
         /\ (x \in AwakeStates <=> wpc[w] \in AwakeStates) => Awake' = Awake
  <1>1. Awake' = IF x \in AwakeStates THEN Awake \cup {w} ELSE Awake \ {w}
    BY DEF Awake, TypeOK
  <1>2. w \in Awake <=> wpc[w] \in AwakeStates
    BY DEF Awake
  <1>3. IsFiniteSet(Awake) /\ Cardinality(Awake) \in Nat
    BY CountsFinite
  <1>4. /\ Cardinality(Awake \cup {w}) =
             IF w \in Awake THEN Cardinality(Awake) ELSE Cardinality(Awake) + 1
        /\ Cardinality(Awake \ {w}) =
             IF w \in Awake THEN Cardinality(Awake) - 1 ELSE Cardinality(Awake)
    BY <1>3, FS_AddElement, FS_RemoveElement
  <1>5. w \in Awake => Awake \cup {w} = Awake
    OBVIOUS
  <1>6. w \notin Awake => Awake \ {w} = Awake
    OBVIOUS
  <1> QED
    BY <1>1, <1>2, <1>3, <1>4, <1>5, <1>6

(* The same for a caller that has a notification to send. *)
LEMMA NotifyingMoves ==
  ASSUME TypeOK, NEW c \in Callers
  PROVE  /\ cpc[c] = "idle" /\ cpc' = [cpc EXCEPT ![c] = "notify"]
              => Cardinality(Notifying') = Cardinality(Notifying) + 1
         /\ cpc[c] = "notify" /\ cpc' = [cpc EXCEPT ![c] = "idle"]
              => Cardinality(Notifying') = Cardinality(Notifying) - 1
  <1>1. IsFiniteSet(Notifying) /\ Cardinality(Notifying) \in Nat
    BY CountsFinite
  <1>2. CASE cpc[c] = "idle" /\ cpc' = [cpc EXCEPT ![c] = "notify"]
    <2>1. Notifying' = Notifying \cup {c} /\ c \notin Notifying
      BY <1>2 DEF Notifying, TypeOK
    <2> QED
      BY <1>1, <1>2, <2>1, FS_AddElement
  <1>3. CASE cpc[c] = "notify" /\ cpc' = [cpc EXCEPT ![c] = "idle"]
    <2>1. Notifying' = Notifying \ {c} /\ c \in Notifying
      BY <1>3 DEF Notifying, TypeOK
    <2> QED
      BY <1>1, <1>3, <2>1, FS_RemoveElement
  <1> QED
    BY <1>2, <1>3

(* Each push is paid by the notification it will send, each notification by the worker *)
(* it wakes, each worker woken by the task it takes; and a worker only goes to sleep on *)
(* an empty queue.                                                                       *)
LEMMA ConservingStep == ConservingInv /\ [Next]_vars => WorkConserving'
  <1> SUFFICES ASSUME ConservingInv, [Next]_vars PROVE WorkConserving'
    OBVIOUS
  <1>t. TypeOK /\ Open /\ WorkConserving
    BY DEF ConservingInv
  <1>s. TypeOK' /\ queue \in Seq(Tasks) /\ Len(queue) \in Nat
    BY <1>t, TypeStep, LenProperties DEF TypeOK
  <1>c. /\ Cardinality(Notifying) \in Nat /\ Cardinality(Awake) \in Nat
        /\ Cardinality(Notifying') \in Nat /\ Cardinality(Awake') \in Nat
    <2>1. /\ IsFiniteSet(Notifying') /\ IsFiniteSet(Awake')
      <3>1. Notifying' \subseteq Callers /\ Awake' \subseteq Workers
        BY DEF Notifying, Awake
      <3> QED
        BY <3>1, FS_Subset, PoolAssumption
    <2> QED
      BY <2>1, CountsFinite, FS_CardinalityType
  <1>1. \A w \in Workers : Spawn(w) => WorkConserving'
    BY <1>t DEF Spawn, WorkConserving
  <1>2. Built => WorkConserving'
    <2> SUFFICES ASSUME Built PROVE WorkConserving'
      OBVIOUS
    <2>1. queue' = <<>> /\ Len(queue') = 0
      BY <1>t DEF Built, Open
    <2> QED
      BY <1>c, <2>1 DEF WorkConserving
  <1>3. \A w \in Workers : MarkStop(w) => WorkConserving'
    BY DEF MarkStop, WorkConserving
  <1>4. NotifyAll => WorkConserving'
    BY DEF NotifyAll, WorkConserving
  <1>5. JoinAll => WorkConserving'
    BY DEF JoinAll, WorkConserving
  <1>6. \A c \in Callers, t \in Tasks : AddTask(c, t) => WorkConserving'
    <2> SUFFICES ASSUME NEW c \in Callers, NEW t \in Tasks, AddTask(c, t)
                 PROVE  WorkConserving'
      OBVIOUS
    <2>1. Len(queue') = Len(queue) + 1
      BY <1>s DEF AddTask
    <2>2. Cardinality(Notifying') = Cardinality(Notifying) + 1
      BY <1>t, NotifyingMoves DEF AddTask
    <2>3. Awake' = Awake /\ Waiting' = Waiting /\ owner' = owner
      BY DEF AddTask, Awake, Waiting
    <2> QED
      BY <1>t, <1>s, <1>c, <2>1, <2>2, <2>3 DEF WorkConserving
  <1>7. \A c \in Callers : NotifyOne(c) => WorkConserving'
    <2> SUFFICES ASSUME NEW c \in Callers, NotifyOne(c) PROVE WorkConserving'
      OBVIOUS
    <2>1. Cardinality(Notifying') = Cardinality(Notifying) - 1
      BY <1>t, NotifyingMoves DEF NotifyOne
    <2>2. CASE Waiting = {}
      BY <2>2 DEF NotifyOne, WorkConserving, Waiting
    <2>3. CASE Waiting # {}
      <3>1. PICK w \in Waiting : wpc' = [wpc EXCEPT ![w] = "woken"]
        BY <2>3 DEF NotifyOne
      <3>2. w \in Workers /\ wpc[w] = "waiting"
        BY DEF Waiting
      <3>3. Cardinality(Awake') = Cardinality(Awake) + 1
        BY <1>t, <3>1, <3>2, AwakeMoves DEF AwakeStates, WorkerStates
      <3>4. queue' = queue /\ owner' = owner
        BY DEF NotifyOne
      <3> QED
        BY <1>t, <1>s, <1>c, <2>1, <2>3, <3>3, <3>4 DEF WorkConserving
    <2> QED
      BY <2>2, <2>3
  <1>8. \A w \in Workers : Start(w) => WorkConserving'
    <2> SUFFICES ASSUME NEW w \in Workers, Start(w) PROVE WorkConserving'
      OBVIOUS
    <2>1. Awake' = Awake
      BY <1>t, AwakeMoves DEF Start, AwakeStates, WorkerStates
    <2>2. Notifying' = Notifying /\ Waiting' = Waiting /\ queue' = queue /\ owner' = owner
      BY <1>t DEF Start, Notifying, Waiting, TypeOK
    <2> QED
      BY <1>t, <2>1, <2>2 DEF WorkConserving
  <1>9. \A w \in Workers : CheckRun(w) => WorkConserving'
    <2> SUFFICES ASSUME NEW w \in Workers, CheckRun(w), owner = "up" PROVE WorkConserving'
      BY DEF CheckRun, WorkConserving
    <2>0. run[w]
      BY <1>t DEF Open, CheckRun
    <2>1. Awake' = Awake
      BY <1>t, <2>0, AwakeMoves DEF CheckRun, AwakeStates, WorkerStates
    <2>2. Notifying' = Notifying /\ Waiting' = Waiting /\ queue' = queue /\ owner' = owner
      BY <1>t, <2>0 DEF CheckRun, Notifying, Waiting, TypeOK
    <2> QED
      BY <1>t, <2>1, <2>2 DEF WorkConserving
  <1>10. \A w \in Workers : LockAndLook(w) => WorkConserving'
    <2> SUFFICES ASSUME NEW w \in Workers, LockAndLook(w) PROVE WorkConserving'
      OBVIOUS
    <2>1. CASE TakeFront(w)
      <3>1. Cardinality(Awake') = Cardinality(Awake) - 1
        BY <1>t, <2>1, AwakeMoves DEF LockAndLook, TakeFront, AwakeStates, WorkerStates
      <3>2. Len(queue') = Len(queue) - 1
        BY <1>s, <2>1, HeadTailProperties DEF TakeFront
      <3>3. Notifying' = Notifying /\ Waiting' = Waiting /\ owner' = owner
        BY <1>t, <2>1 DEF LockAndLook, TakeFront, Notifying, Waiting, TypeOK
      <3> QED
        BY <1>t, <1>s, <1>c, <3>1, <3>2, <3>3 DEF WorkConserving
    <2>2. CASE ~TakeFront(w)
      <3>1. Len(queue') = 0
        BY <2>2 DEF LockAndLook
      <3> QED
        BY <1>c, <3>1 DEF WorkConserving
    <2> QED
      BY <2>1, <2>2
  <1>11. \A w \in Workers : SpuriousWake(w) => WorkConserving'
    <2> SUFFICES ASSUME NEW w \in Workers, SpuriousWake(w) PROVE WorkConserving'
      OBVIOUS
    <2>1. Cardinality(Awake') = Cardinality(Awake) + 1
      BY <1>t, AwakeMoves DEF SpuriousWake, AwakeStates, WorkerStates
    <2>2. Notifying' = Notifying /\ Waiting' \subseteq Waiting /\ queue' = queue /\ owner' = owner
      BY <1>t DEF SpuriousWake, Notifying, Waiting, TypeOK
    <2> QED
      BY <1>t, <1>s, <1>c, <2>1, <2>2 DEF WorkConserving
  <1>12. \A w \in Workers : Resume(w) => WorkConserving'
    <2> SUFFICES ASSUME NEW w \in Workers, Resume(w), owner = "up" PROVE WorkConserving'
      BY DEF Resume, WorkConserving
    <2>1. CASE TakeFront(w)
      <3>1. Cardinality(Awake') = Cardinality(Awake) - 1
        <4>1. wpc[w] = "woken" /\ wpc' = [wpc EXCEPT ![w] = "working"]
          BY <2>1 DEF Resume, TakeFront
        <4>2. "woken" \in AwakeStates /\ "working" \notin AwakeStates /\ "working" \in WorkerStates
          BY DEF AwakeStates, WorkerStates
        <4> QED
          BY <1>t, <4>1, <4>2, AwakeMoves
      <3>2. Len(queue') = Len(queue) - 1
        BY <1>s, <2>1, HeadTailProperties DEF TakeFront
      <3>3. Notifying' = Notifying /\ Waiting' = Waiting /\ owner' = owner
        BY <1>t, <2>1 DEF Resume, TakeFront, Notifying, Waiting, TypeOK
      <3> QED
        BY <1>t, <1>s, <1>c, <3>1, <3>2, <3>3 DEF WorkConserving
    <2>2. CASE ~TakeFront(w)
      <3>1. run[w]
        BY <1>t DEF Open, Resume
      <3>2. Len(queue') = 0
        BY <2>2, <3>1 DEF Resume
      <3> QED
        BY <1>c, <3>2 DEF WorkConserving
    <2> QED
      BY <2>1, <2>2
  <1>13. \A w \in Workers : Finish(w) => WorkConserving'
    <2> SUFFICES ASSUME NEW w \in Workers, Finish(w) PROVE WorkConserving'
      OBVIOUS
    <2>1. Cardinality(Awake') = Cardinality(Awake) + 1
      BY <1>t, AwakeMoves DEF Finish, AwakeStates, WorkerStates
    <2>2. Notifying' = Notifying /\ Waiting' \subseteq Waiting /\ queue' = queue /\ owner' = owner
      BY <1>t DEF Finish, Notifying, Waiting, TypeOK
    <2> QED
      BY <1>t, <1>s, <1>c, <2>1, <2>2 DEF WorkConserving
  <1>14. UNCHANGED vars => WorkConserving'
    BY <1>t DEF vars, WorkConserving, Notifying, Awake, Waiting
  <1> QED
    BY <1>1, <1>2, <1>3, <1>4, <1>5, <1>6, <1>7, <1>8, <1>9, <1>10, <1>11, <1>12,
       <1>13, <1>14, StepCases

(* The pool never sleeps on work, for any number of workers, callers and tasks: while a *)
(* worker sleeps, each queued task is matched by a notification still to be sent or by a *)
(* worker on its way to the queue.                                                        *)
THEOREM PoolConservesWork == Safety => []WorkConserving
  <1>1. Init => ConservingInv
    BY ConservingInit
  <1>2. ConservingInv /\ [Next]_vars => ConservingInv'
    BY TypeStep, OpenStep, ConservingStep DEF ConservingInv
  <1>3. ConservingInv => WorkConserving
    BY DEF ConservingInv
  <1> QED
    BY <1>1, <1>2, <1>3, PTL DEF Safety

----------------------------------------------------------------------------
(* Destruction. *)

(* A mark that was not missed stands; marks come after the construction, and the *)
(* broadcast after every mark.                                                      *)
MarksStand ==
  /\ \A w \in marked \ missed : ~run[w] /\ wpc[w] # "created"
  /\ owner \in {"building", "up"} => marked = {}
  /\ owner \in {"joining", "gone"} => marked = Workers

(* After the broadcast, a worker it reached is past the wait and on its way out. *)
OnItsWayOut ==
  owner \in {"joining", "gone"}
    => \A w \in Workers \ missed : wpc[w] \notin {"lock", "waiting"}

(* The inductive invariant behind HangOnlyInWindow: the property alone does not say *)
(* why a worker that is not waiting now will not begin to.                          *)
StopInv == TypeOK /\ MarksStand /\ OnItsWayOut

(* Init establishes it: nobody is marked. *)
LEMMA StopInit == Init => StopInv
  BY TypeInit DEF Init, StopInv, MarksStand, OnItsWayOut

(* Only a thread's own first store overwrites its mark, and such a mark is missed. *)
LEMMA MarksStep == StopInv /\ [Next]_vars => MarksStand'
  <1> SUFFICES ASSUME StopInv, [Next]_vars PROVE MarksStand'
    OBVIOUS
  <1> USE DEF StopInv, TypeOK, MarksStand
  <1>1. \A w \in Workers : Spawn(w) => MarksStand'
    BY DEF Spawn
  <1>2. Built => MarksStand'
    BY DEF Built
  <1>3. \A w \in Workers : MarkStop(w) => MarksStand'
    BY DEF MarkStop
  <1>4. NotifyAll => MarksStand'
    BY DEF NotifyAll
  <1>5. JoinAll => MarksStand'
    BY DEF JoinAll
  <1>6. \A c \in Callers, t \in Tasks : AddTask(c, t) => MarksStand'
    BY DEF AddTask
  <1>7. \A c \in Callers : NotifyOne(c) => MarksStand'
    BY DEF NotifyOne, Waiting
  <1>8. \A w \in Workers : Start(w) => MarksStand'
    BY DEF Start
  <1>9. \A w \in Workers : CheckRun(w) => MarksStand'
    BY DEF CheckRun
  <1>10. \A w \in Workers : LockAndLook(w) => MarksStand'
    BY DEF LockAndLook, TakeFront
  <1>11. \A w \in Workers : SpuriousWake(w) => MarksStand'
    BY DEF SpuriousWake
  <1>12. \A w \in Workers : Resume(w) => MarksStand'
    BY DEF Resume, TakeFront
  <1>13. \A w \in Workers : Finish(w) => MarksStand'
    BY DEF Finish
  <1>14. UNCHANGED vars => MarksStand'
    BY DEF vars
  <1> QED
    BY <1>1, <1>2, <1>3, <1>4, <1>5, <1>6, <1>7, <1>8, <1>9, <1>10, <1>11, <1>12,
       <1>13, <1>14, StepCases

(* A worker whose mark stands leaves at its next look at keepRunning. *)
LEMMA OutStep == StopInv /\ [Next]_vars => OnItsWayOut'
  <1> SUFFICES ASSUME StopInv, [Next]_vars PROVE OnItsWayOut'
    OBVIOUS
  <1> USE DEF StopInv, TypeOK, MarksStand, OnItsWayOut
  <1>1. \A w \in Workers : Spawn(w) => OnItsWayOut'
    BY DEF Spawn
  <1>2. Built => OnItsWayOut'
    BY DEF Built
  <1>3. \A w \in Workers : MarkStop(w) => OnItsWayOut'
    BY DEF MarkStop
  <1>4. NotifyAll => OnItsWayOut'
    BY DEF NotifyAll
  <1>5. JoinAll => OnItsWayOut'
    BY DEF JoinAll
  <1>6. \A c \in Callers, t \in Tasks : AddTask(c, t) => OnItsWayOut'
    BY DEF AddTask
  <1>7. \A c \in Callers : NotifyOne(c) => OnItsWayOut'
    BY DEF NotifyOne, Waiting
  <1>8. \A w \in Workers : Start(w) => OnItsWayOut'
    BY DEF Start
  <1>9. \A w \in Workers : CheckRun(w) => OnItsWayOut'
    BY DEF CheckRun
  <1>10. \A w \in Workers : LockAndLook(w) => OnItsWayOut'
    BY DEF LockAndLook, TakeFront
  <1>11. \A w \in Workers : SpuriousWake(w) => OnItsWayOut'
    BY DEF SpuriousWake
  <1>12. \A w \in Workers : Resume(w) => OnItsWayOut'
    BY DEF Resume, TakeFront
  <1>13. \A w \in Workers : Finish(w) => OnItsWayOut'
    BY DEF Finish
  <1>14. UNCHANGED vars => OnItsWayOut'
    BY DEF vars
  <1> QED
    BY <1>1, <1>2, <1>3, <1>4, <1>5, <1>6, <1>7, <1>8, <1>9, <1>10, <1>11, <1>12,
       <1>13, <1>14, StepCases

(* The destructor of a pool of any size hangs only on a worker that its mark or its *)
(* broadcast could not reach: there is no window but those two.                     *)
THEOREM PoolHangsOnlyInWindow == Safety => []HangOnlyInWindow
  <1>1. Init => StopInv
    BY StopInit
  <1>2. StopInv /\ [Next]_vars => StopInv'
    BY TypeStep, MarksStep, OutStep DEF StopInv
  <1>3. StopInv => HangOnlyInWindow
    BY DEF StopInv, OnItsWayOut, HangOnlyInWindow, Waiting
  <1> QED
    BY <1>1, <1>2, <1>3, PTL DEF Safety

----------------------------------------------------------------------------
(* Refinement. *)

(* The pool as built is an abstract pool with nothing submitted. *)
LEMMA RefinementInit == Init => Abstract!Init
  BY DEF Init, Abstract!Init

(* Every step of a thread is a step of the abstract pool, or changes nothing there: the *)
(* push is the submission, moving the front of the queue to the local is the take, the  *)
(* return of processTask is the completion, and the first mark closes the pool.         *)
LEMMA RefinementStep == TypeOK /\ [Next]_vars => [Abstract!Next]_Abstract!vars
  <1> SUFFICES ASSUME TypeOK, [Next]_vars PROVE [Abstract!Next]_Abstract!vars
    OBVIOUS
  <1> USE DEF TypeOK, Abstract!vars
  <1>1. \A w \in Workers : Spawn(w) => [Abstract!Next]_Abstract!vars
    BY DEF Spawn, Abstract!Next, Abstract!Submit, Abstract!Take, Abstract!Complete, Abstract!Close
  <1>2. Built => [Abstract!Next]_Abstract!vars
    BY DEF Built, Abstract!Next, Abstract!Submit, Abstract!Take, Abstract!Complete, Abstract!Close
  <1>3. \A w \in Workers : MarkStop(w) => [Abstract!Next]_Abstract!vars
    BY DEF MarkStop, Abstract!Next, Abstract!Submit, Abstract!Take, Abstract!Complete, Abstract!Close
  <1>4. NotifyAll => [Abstract!Next]_Abstract!vars
    BY DEF NotifyAll, Abstract!Next, Abstract!Submit, Abstract!Take, Abstract!Complete, Abstract!Close
  <1>5. JoinAll => [Abstract!Next]_Abstract!vars
    BY DEF JoinAll, Abstract!Next, Abstract!Submit, Abstract!Take, Abstract!Complete, Abstract!Close
  <1>6. \A c \in Callers, t \in Tasks : AddTask(c, t) => [Abstract!Next]_Abstract!vars
    BY DEF AddTask, Abstract!Next, Abstract!Submit, Abstract!Take, Abstract!Complete, Abstract!Close
  <1>7. \A c \in Callers : NotifyOne(c) => [Abstract!Next]_Abstract!vars
    BY DEF NotifyOne, Waiting, Abstract!Next, Abstract!Submit, Abstract!Take, Abstract!Complete, Abstract!Close
  <1>8. \A w \in Workers : Start(w) => [Abstract!Next]_Abstract!vars
    BY DEF Start, Abstract!Next, Abstract!Submit, Abstract!Take, Abstract!Complete, Abstract!Close
  <1>9. \A w \in Workers : CheckRun(w) => [Abstract!Next]_Abstract!vars
    BY DEF CheckRun, Abstract!Next, Abstract!Submit, Abstract!Take, Abstract!Complete, Abstract!Close
  <1>10. \A w \in Workers : LockAndLook(w) => [Abstract!Next]_Abstract!vars
    BY DEF LockAndLook, TakeFront, Abstract!Next, Abstract!Submit, Abstract!Take, Abstract!Complete, Abstract!Close
  <1>11. \A w \in Workers : SpuriousWake(w) => [Abstract!Next]_Abstract!vars
    BY DEF SpuriousWake, Abstract!Next, Abstract!Submit, Abstract!Take, Abstract!Complete, Abstract!Close
  <1>12. \A w \in Workers : Resume(w) => [Abstract!Next]_Abstract!vars
    BY DEF Resume, TakeFront, Abstract!Next, Abstract!Submit, Abstract!Take, Abstract!Complete, Abstract!Close
  <1>13. \A w \in Workers : Finish(w) => [Abstract!Next]_Abstract!vars
    BY DEF Finish, Abstract!Next, Abstract!Submit, Abstract!Take, Abstract!Complete, Abstract!Close
  <1>14. UNCHANGED vars => [Abstract!Next]_Abstract!vars
    BY DEF vars, Abstract!Next, Abstract!Submit, Abstract!Take, Abstract!Complete, Abstract!Close
  <1> QED
    BY <1>1, <1>2, <1>3, <1>4, <1>5, <1>6, <1>7, <1>8, <1>9, <1>10, <1>11, <1>12,
       <1>13, <1>14, StepCases

(* Threads, mutex and condition variable implement the abstract pool: first in, first *)
(* out, each task taken once, none taken that was not submitted.                       *)
THEOREM PoolImplementsTaskPool == Safety => ImplementsTaskPool
  <1>1. Init => TypeOK /\ Abstract!Init
    BY TypeInit, RefinementInit
  <1>2. TypeOK /\ [Next]_vars => TypeOK' /\ [Abstract!Next]_Abstract!vars
    BY TypeStep, RefinementStep
  <1> QED
    BY <1>1, <1>2, PTL DEF Safety, ImplementsTaskPool, Abstract!Safety
=============================================================================
