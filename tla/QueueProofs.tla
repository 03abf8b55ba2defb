----------------------------- MODULE QueueProofs -----------------------------
(***************************************************************************)
(* The production queue for any briefs, any number of handler threads and  *)
(* any sweeps: proofs about ProductionQueue.                               *)
(***************************************************************************)
EXTENDS ProductionQueue, TLAPS

(* Every variable keeps its shape, whatever is submitted. *)
THEOREM QueueTyped == Spec => []TypeOK
<1>1. Init => TypeOK
  <2>1. <<>> \in Seq(Briefs)
    OBVIOUS
  <2> QED
    BY <2>1 DEF Init, TypeOK
<1>2. TypeOK /\ [Next]_vars => TypeOK'
  <2> SUFFICES ASSUME TypeOK, [Next]_vars
               PROVE  TypeOK'
    OBVIOUS
  <2> USE DEF TypeOK, Notified
  <2>1. CASE Sleep
    BY <2>1 DEF Sleep
  <2>2. CASE Take
    BY <2>2 DEF Take
  <2>3. CASE Produced
    BY <2>3 DEF Produced
  <2>4. CASE Leave
    BY <2>4 DEF Leave
  <2>5. CASE CallWaitIdle \/ TestIdle \/ TimeOut
    BY <2>5 DEF CallWaitIdle, TestIdle, TimeOut
  <2>6. CASE Stop \/ StopAgain
    <3>1. DropQueued /\ stopper' \in {"stopping", "joining"}
      BY <2>6 DEF Stop, StopAgain
    <3> QED
      BY <3>1 DEF DropQueued
  <2>7. CASE Shutdown \/ Join
    BY <2>7 DEF Shutdown, Join
  <2>8. ASSUME NEW h \in Handlers, AcceptBrief(h)
        PROVE  TypeOK'
    BY <2>8 DEF AcceptBrief
  <2>9. ASSUME NEW h \in Handlers, AcceptSweep(h)
        PROVE  TypeOK'
    BY <2>9, ServiceAssumption DEF AcceptSweep
  <2>10. ASSUME NEW h \in Handlers, Submit(h)
         PROVE  TypeOK'
    <3>1. pending[h] \in Seq(Briefs) /\ Head(pending[h]) \in Briefs
          /\ Tail(pending[h]) \in Seq(Briefs)
      BY <2>10 DEF Submit
    <3>2. unseen' \subseteq Briefs
      BY <2>10, <3>1 DEF Submit
    <3>3. queue' \in Seq(Briefs)
      <4> DEFINE b == Head(pending[h])
      <4>1. queue' = queue \/ queue' = Append(queue, b)
        BY <2>10 DEF Submit
      <4>2. b \in Briefs
        BY <3>1
      <4> HIDE DEF b
      <4> QED
        BY <4>1, <4>2
    <3>4. pending' \in [Handlers -> Seq(Briefs)]
      BY <2>10, <3>1 DEF Submit
    <3> QED
      BY <2>10, <3>2, <3>3, <3>4 DEF Submit
  <2>11. CASE UNCHANGED vars
    BY <2>11 DEF vars
  <2> QED
    BY <2>1, <2>2, <2>3, <2>4, <2>5, <2>6, <2>7, <2>8, <2>9, <2>10, <2>11
    DEF Next, WorkerNext, IdlerNext, StopperNext, HandlerNext
<1> QED
  BY <1>1, <1>2, PTL DEF Spec

-----------------------------------------------------------------------------
(* What appending to a queue and taking from it does to what it holds. *)
Held(q) == {q[i] : i \in DOMAIN q}
IsOnce(q) == \A i, j \in DOMAIN q : q[i] = q[j] => i = j

\* The membership test of the queue is that of the set it holds.
LEMMA HeldIsQueued == \A b : IsQueued(b) <=> b \in Held(queue)
BY DEF IsQueued, Held

\* A put adds the brief, once if it was not there.
LEMMA AppendHolds ==
  ASSUME NEW q \in Seq(Briefs), NEW b \in Briefs
  PROVE  /\ Append(q, b) # <<>>
         /\ Held(Append(q, b)) = Held(q) \cup {b}
         /\ IsOnce(q) /\ b \notin Held(q) => IsOnce(Append(q, b))
<1>1. /\ DOMAIN Append(q, b) = 1..(Len(q) + 1) /\ DOMAIN q = 1..Len(q)
      /\ Len(q) \in Nat
      /\ \A i \in 1..Len(q) : Append(q, b)[i] = q[i]
      /\ Append(q, b)[Len(q) + 1] = b
  OBVIOUS
<1>2. Append(q, b) # <<>>
  BY <1>1
<1>3. Held(Append(q, b)) = Held(q) \cup {b}
  BY <1>1 DEF Held
<1>4. IsOnce(q) /\ b \notin Held(q) => IsOnce(Append(q, b))
  BY <1>1 DEF IsOnce, Held
<1> QED
  BY <1>2, <1>3, <1>4

\* A get takes the head and nothing else.
LEMMA TailHolds ==
  ASSUME NEW q \in Seq(Briefs), q # <<>>
  PROVE  /\ Head(q) \in Held(q)
         /\ Held(q) \ {Head(q)} \subseteq Held(Tail(q))
         /\ IsOnce(q) => IsOnce(Tail(q)) /\ Held(Tail(q)) = Held(q) \ {Head(q)}
<1>1. /\ DOMAIN q = 1..Len(q) /\ DOMAIN Tail(q) = 1..(Len(q) - 1)
      /\ Len(q) \in Nat \ {0}
      /\ \A i \in 1..(Len(q) - 1) : Tail(q)[i] = q[i + 1]
      /\ Head(q) = q[1]
  OBVIOUS
<1>2. \A j \in 2..Len(q) : j - 1 \in DOMAIN Tail(q) /\ Tail(q)[j - 1] = q[j]
  BY <1>1
<1>3. Head(q) \in Held(q)
  BY <1>1 DEF Held
<1>4. Held(q) \ {Head(q)} \subseteq Held(Tail(q))
  <2> SUFFICES ASSUME NEW j \in DOMAIN q, q[j] # Head(q)
               PROVE  q[j] \in Held(Tail(q))
    BY DEF Held
  <2>1. j \in 2..Len(q)
    BY <1>1
  <2> QED
    BY <1>2, <2>1 DEF Held
<1>5. ASSUME IsOnce(q)
      PROVE  IsOnce(Tail(q)) /\ Held(Tail(q)) = Held(q) \ {Head(q)}
  <2>1. IsOnce(Tail(q))
    BY <1>1, <1>5 DEF IsOnce
  <2>2. Held(Tail(q)) \subseteq Held(q) \ {Head(q)}
    BY <1>1, <1>5 DEF Held, IsOnce
  <2> QED
    BY <1>4, <2>1, <2>2
<1> QED
  BY <1>3, <1>4, <1>5

(* The four invariants of the queue, made inductive by the queue being     *)
(* empty once it is stopped.                                               *)
QueueInv ==
  /\ IsOnce(queue)
  /\ (worker = "producing") <=> (busy # NoBrief)
  /\ NoLostWakeup
  /\ NoLostEdit
  /\ stopped => queue = <<>>

\* The initial states satisfy the invariant.
LEMMA QueueInvInit == Init => QueueInv
BY DEF Init, QueueInv, IsOnce, NoLostWakeup, IsIdle, NoLostEdit

\* Every step keeps the invariant.
LEMMA QueueInvStep ==
  ASSUME TypeOK, QueueInv, [Next]_vars
  PROVE  QueueInv'
<1> USE DEF QueueInv, NoLostWakeup, NoLostEdit, IsIdle, Notified
<1>1. CASE Sleep
  BY <1>1 DEF Sleep, IsQueued
<1>2. CASE Take
  <2>1. queue \in Seq(Briefs) /\ queue # <<>> /\ Head(queue) \in Briefs
    BY <1>2 DEF Take, TypeOK
  <2>2. IsOnce(queue')
    BY <1>2, <2>1, TailHolds DEF Take
  <2>3. busy' # NoBrief
    BY <1>2, <2>1, ServiceAssumption DEF Take
  <2>4. \A b \in unseen' : b \in Held(queue')
    BY <1>2, <2>1, TailHolds, HeldIsQueued DEF Take
  <2>5. NoLostEdit'
    BY <2>4 DEF IsQueued, Held
  <2> QED
    BY <1>2, <2>2, <2>3, <2>5 DEF Take
<1>3. CASE Produced
  BY <1>3 DEF Produced, IsQueued
<1>4. CASE Leave
  BY <1>4 DEF Leave, IsQueued
<1>5. CASE CallWaitIdle \/ TestIdle \/ TimeOut
  BY <1>5 DEF CallWaitIdle, TestIdle, TimeOut, IsQueued
<1>6. CASE Stop \/ StopAgain
  BY <1>6 DEF Stop, StopAgain, DropQueued, IsOnce
<1>7. CASE Shutdown \/ Join
  BY <1>7 DEF Shutdown, Join, IsQueued
<1>8. ASSUME NEW h \in Handlers, AcceptBrief(h) \/ AcceptSweep(h)
      PROVE  QueueInv'
  BY <1>8 DEF AcceptBrief, AcceptSweep, IsQueued
<1>9. ASSUME NEW h \in Handlers, Submit(h)
      PROVE  QueueInv'
  <2> DEFINE b == Head(pending[h])
  <2>1. b \in Briefs /\ queue \in Seq(Briefs)
    BY <1>9 DEF Submit, TypeOK
  <2>2. CASE IsRefused(b)
    BY <1>9, <2>2 DEF Submit, IsRefused, IsQueued
  <2>3. CASE ~IsRefused(b)
    <3>1. /\ queue' = Append(queue, b) /\ unseen' = unseen \cup {b}
          /\ worker' = Notified(worker) /\ idler' = Notified(idler)
          /\ UNCHANGED <<busy, stopped>> /\ ~stopped
      BY <1>9, <2>3 DEF Submit, IsRefused
    <3>2. b \notin Held(queue)
      BY <2>3, HeldIsQueued DEF IsRefused
    <3> HIDE DEF b
    <3>3. queue' # <<>> /\ IsOnce(queue') /\ Held(queue') = Held(queue) \cup {b}
      BY <2>1, <3>1, <3>2, AppendHolds
    <3>4. \A c \in unseen' : c \in Held(queue')
      BY <3>1, <3>3, HeldIsQueued
    <3>5. NoLostEdit'
      BY <3>4 DEF IsQueued, Held
    <3> QED
      BY <3>1, <3>3, <3>5
  <2> QED
    BY <2>2, <2>3
<1>10. CASE UNCHANGED vars
  BY <1>10 DEF vars, IsQueued
<1> QED
  BY <1>1, <1>2, <1>3, <1>4, <1>5, <1>6, <1>7, <1>8, <1>9, <1>10
  DEF Next, WorkerNext, IdlerNext, StopperNext, HandlerNext

\* The invariant the theorems below rest on.
LEMMA QueueInvHolds == Spec => [](TypeOK /\ QueueInv)
<1>1. Init => QueueInv
  BY QueueInvInit
<1>2. TypeOK /\ QueueInv /\ [Next]_vars => QueueInv'
  BY QueueInvStep
<1> QED
  BY <1>1, <1>2, QueueTyped, PTL DEF Spec

(* No wake-up is lost, for any number of threads submitting, waiting and   *)
(* stopping.                                                               *)
THEOREM WakeupsKept == Spec => []NoLostWakeup
<1>1. QueueInv => NoLostWakeup
  BY DEF QueueInv
<1> QED
  BY <1>1, QueueInvHolds, PTL

(* A brief submitted since its last production began waits in the queue.   *)
THEOREM EditsKept == Spec => []NoLostEdit
<1>1. QueueInv => NoLostEdit
  BY DEF QueueInv
<1> QED
  BY <1>1, QueueInvHolds, PTL

(* A brief is queued once, and the worker's place agrees with the flag.    *)
THEOREM QueuedOnceHeld == Spec => []QueuedOnce
<1>1. QueueInv => QueuedOnce
  BY DEF QueueInv, IsOnce, QueuedOnce
<1> QED
  BY <1>1, QueueInvHolds, PTL

(* After stop nothing is accepted or started. *)
THEOREM StopHeld == Spec => StopIsFinal
<1>1. TypeOK /\ QueueInv /\ [Next]_vars
        => [stopped => stopped' /\ queue' = <<>> /\ busy' \in {busy, NoBrief}]_vars
  BY DEF QueueInv, Next, WorkerNext, IdlerNext, StopperNext, HandlerNext, Sleep, Take, Produced,
         Leave, CallWaitIdle, TestIdle, TimeOut, Stop, StopAgain, DropQueued, Shutdown, Join,
         AcceptBrief, AcceptSweep, Submit, IsRefused, vars
<1> QED
  BY <1>1, QueueInvHolds, PTL DEF Spec, StopIsFinal

(* The queue with its threads keeps the safety part of the service's       *)
(* promises: every step of a thread is a step of BriefRequests or none.    *)
THEOREM PromisesKept == Spec => Requests!SafeSpec
<1>1. Init => Requests!Init
  BY DEF Init, Requests!Init
<1>2. TypeOK /\ QueueInv /\ [Next]_vars => [Requests!Next]_Requests!vars
  <2> SUFFICES ASSUME TypeOK, QueueInv, [Next]_vars
               PROVE  [Requests!Next]_Requests!vars
    OBVIOUS
  <2>1. CASE Take
    <3>1. queue \in Seq(Briefs) /\ queue # <<>> /\ Head(queue) \in Briefs
      BY <2>1 DEF Take, TypeOK
    <3>2. Held(queue') = Held(queue) \ {Head(queue)} /\ Head(queue) \in Held(queue)
      BY <2>1, <3>1, TailHolds DEF Take, QueueInv
    <3>3. PICK b \in Briefs : b = Head(queue)
      BY <3>1
    <3>4. Requests!Begin(b)
      BY <2>1, <3>2, <3>3 DEF Take, QueueInv, Held, Requests!Begin
    <3> QED
      BY <3>4 DEF Requests!Next
  <2>2. CASE Produced
    BY <2>2 DEF Produced, QueueInv, Requests!Next, Requests!End
  <2>3. CASE Stop \/ StopAgain
    BY <2>3 DEF Stop, StopAgain, DropQueued, Requests!Next, Requests!Close
  <2>4. ASSUME NEW h \in Handlers, Submit(h)
        PROVE  [Requests!Next]_Requests!vars
    <3>1. PICK b \in Briefs : b = Head(pending[h])
      BY <2>4 DEF Submit, TypeOK
    <3>2. CASE IsRefused(b)
      BY <2>4, <3>1, <3>2 DEF Submit, Requests!vars
    <3>3. CASE ~IsRefused(b)
      <4>1. queue' = Append(queue, b) /\ UNCHANGED <<busy, stopped>> /\ ~stopped
        BY <2>4, <3>1, <3>3 DEF Submit, IsRefused
      <4>2. Held(queue') = Held(queue) \cup {b}
        BY <4>1, AppendHolds DEF TypeOK
      <4>3. Requests!Request(b)
        BY <4>1, <4>2 DEF Held, Requests!Request
      <4> QED
        BY <4>3 DEF Requests!Next
    <3> QED
      BY <3>2, <3>3
  <2>5. CASE UNCHANGED <<queue, busy, stopped>>
    BY <2>5 DEF Requests!vars
  <2> QED
    BY <2>1, <2>2, <2>3, <2>4, <2>5
    DEF Next, WorkerNext, IdlerNext, StopperNext, HandlerNext, Sleep, Leave, CallWaitIdle,
        TestIdle, TimeOut, Shutdown, Join, AcceptBrief, AcceptSweep, vars
<1> QED
  BY <1>1, <1>2, QueueInvHolds, PTL DEF Spec, Requests!SafeSpec
=============================================================================
