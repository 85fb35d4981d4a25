--------------------------- MODULE ShutdownProofs ---------------------------
(* Theorems about Shutdown, for any number of connections and both modes. *)
EXTENDS Shutdown, TLAPS

\* Every state of the shutdown has its type.
THEOREM ShutdownTypes == Spec => []TypeOK
  <1>1. Init => TypeOK
    BY DEF Init, TypeOK
  <1>2. TypeOK /\ [Next]_vars => TypeOK'
    <2> SUFFICES ASSUME TypeOK, [Next]_vars PROVE TypeOK'
      OBVIOUS
    <2> USE DEF TypeOK
    <2>1. ASSUME NEW c \in Clients, ClientStep(c) PROVE TypeOK'
      BY <2>1 DEF ClientStep, Request, Answer, Subscribe, Push, Leave
    <2>2. CASE Signal \/ WakeUp
      BY <2>2 DEF Signal, WakeUp, StartDrain, Aborted, DrainDeadlines, Unpushed
    <2>3. Cut \in [Clients -> {"idle", "request", "stream", "dropped", "cut"}]
      BY DEF Cut
    <2>4. CASE ForceExit \/ DrainDeadline
      BY <2>3, <2>4 DEF ForceExit, DrainDeadline
    <2>5. CASE DeletionFails \/ DeletionCancelled \/ Drained \/ Return
      BY <2>5 DEF DeletionFails, DeletionCancelled, Drained, Return, DeletionResult
    <2>6. CASE Stopped \/ UNCHANGED vars
      BY <2>6 DEF Stopped, vars
    <2> QED
      BY <2>1, <2>2, <2>4, <2>5, <2>6 DEF Next
  <1> QED
    BY <1>1, <1>2, PTL DEF Spec

\* A step of a client keeps the order.
LEMMA ClientOrder ==
  ASSUME TypeOK, OrderInv, NEW c \in Clients, ClientStep(c)
  PROVE  OrderInv'
  <1> USE DEF TypeOK, Running, Open
  <1>0. /\ Running /\ UNCHANGED <<mode, hurried, task, deletion, timers, server, status>>
        /\ \A d \in Clients \ {c} : conn'[d] = conn[d] /\ event'[d] = event[d]
                                    /\ late'[d] = late[d]
    BY DEF ClientStep, Request, Answer, Subscribe, Push, Leave
  <1>1. ASSUME NEW d \in Clients, d # c PROVE StreamOrder(d)'
    BY <1>0, <1>1 DEF OrderInv, StreamOrder
  <1>2. StreamOrder(c)'
    BY <1>0 DEF OrderInv, StreamOrder, ClientStep, Request, Answer, Subscribe, Push, Leave
  <1>3. HttpReturnsDrained'
    BY <1>0 DEF OrderInv, HttpReturnsDrained, ClientStep, Request, Answer, Subscribe, Push,
                Leave
  <1> QED
    BY <1>0, <1>1, <1>2, <1>3 DEF OrderInv

\* A step of the process keeps the order.
LEMMA ProcessOrder ==
  ASSUME TypeOK, OrderInv,
         \/ Signal \/ WakeUp \/ ForceExit \/ DeletionFails \/ DeletionCancelled
         \/ Drained \/ DrainDeadline \/ Return
  PROVE  OrderInv'
  <1> USE DEF TypeOK, Running, Open, OrderInv, StreamOrder, HttpReturnsDrained
  <1>1. CASE Signal
    BY <1>1 DEF Signal
  <1>2. CASE WakeUp
    BY <1>2 DEF WakeUp, StartDrain, Aborted, DrainDeadlines, Unpushed
  <1>3. CASE ForceExit
    BY <1>3 DEF ForceExit, Cut
  <1>4. CASE DeletionFails \/ DeletionCancelled
    BY <1>4 DEF DeletionFails, DeletionCancelled
  <1>5. CASE Drained
    BY <1>5 DEF Drained
  <1>6. CASE DrainDeadline
    BY <1>6 DEF DrainDeadline, Cut
  <1>7. CASE Return
    BY <1>7 DEF Return, DeletionResult
  <1> QED
    BY <1>1, <1>2, <1>3, <1>4, <1>5, <1>6, <1>7

\* The parts of the shutdown happen in order.
THEOREM OrderCorrect == Spec => []OrderInv
  <1>1. Init => OrderInv
    BY DEF Init, OrderInv, StreamOrder, HttpReturnsDrained, Running
  <1>2. TypeOK /\ OrderInv /\ [Next]_vars => OrderInv'
    <2>1. UNCHANGED vars /\ OrderInv => OrderInv'
      BY DEF vars, OrderInv, StreamOrder, HttpReturnsDrained, Running
    <2> QED
      BY <2>1, ClientOrder, ProcessOrder DEF Next, Stopped
  <1> QED
    BY <1>1, <1>2, ShutdownTypes, PTL DEF Spec

\* Streams that were open at the signal are told before they are cut; plain
\* HTTP returns drained; run() never waits for a task that runs forever.
THEOREM ShutdownCorrect ==
  Spec => [](Announced /\ EarlyStreamsHear /\ HttpReturnsDrained /\ WaitsForStopped)
  <1>1. OrderInv => Announced /\ EarlyStreamsHear /\ HttpReturnsDrained /\ WaitsForStopped
    BY DEF OrderInv, StreamOrder, Announced, EarlyStreamsHear, WaitsForStopped, Running
  <1> QED
    BY <1>1, OrderCorrect, PTL

\* serve_http returns only when the last connection has closed by itself.
THEOREM DrainedCorrect == Spec => []HttpReturnsDrained
  BY ShutdownCorrect, PTL

\* run() waits only for a deletion task that has stopped.
THEOREM WaitsCorrect == Spec => []WaitsForStopped
  BY ShutdownCorrect, PTL
=============================================================================
