--------------------------- MODULE ProductionQueue ---------------------------
(***************************************************************************)
(* The production service (infrastructure/production_service.py): handler  *)
(* threads submit briefs to a queue, one worker produces them, a caller of *)
(* wait_idle waits, and stop ends it all.  Each `with self._condition'     *)
(* block is one step; between two blocks of a thread the others run.  A    *)
(* thread inside Condition.wait is asleep until a notify_all, and tests    *)
(* its predicate again after it.  What a production does is not modelled,  *)
(* only that it returns or raises.                                         *)
(***************************************************************************)
EXTENDS Naturals, Sequences

CONSTANTS
  Briefs,      \* the references a request may name
  Handlers,    \* the HTTP handler threads
  Listings,    \* what `waiting' may list for a sweep: sequences of briefs
  NoBrief      \* the worker is not producing

ASSUME ServiceAssumption == NoBrief \notin Briefs /\ Listings \subseteq Seq(Briefs)

VARIABLES
  queue,       \* _queue
  busy,        \* the brief being produced, or NoBrief; _busy is busy # NoBrief
  stopped,     \* _stopped
  worker,      \* where the worker thread is
  pending,     \* pending[h]: the briefs handler h has yet to submit
  idler,       \* where the caller of wait_idle is
  stopper,     \* where the caller of stop is
  unseen       \* history: briefs submitted since their last production began

vars == <<queue, busy, stopped, worker, pending, idler, stopper, unseen>>

Init ==
  /\ queue = <<>> /\ busy = NoBrief /\ stopped = FALSE
  /\ worker = "testing"
  /\ pending = [h \in Handlers |-> <<>>]
  /\ idler = "away" /\ stopper = "away" /\ unseen = {}

IsQueued(b) == \E i \in DOMAIN queue : queue[i] = b

\* Where a thread is after self._condition.notify_all().
Notified(thread) == IF thread = "asleep" THEN "testing" ELSE thread

-----------------------------------------------------------------------------
(* Requests. *)

\* The server still takes requests: it shuts down after the queue is stopped.
IsServing == stopper \in {"away", "stopping"}

AcceptBrief(h) ==
  /\ IsServing /\ pending[h] = <<>>
  /\ \E b \in Briefs : pending' = [pending EXCEPT ![h] = <<b>>]
  /\ UNCHANGED <<queue, busy, stopped, worker, idler, stopper, unseen>>

\* The waiting briefs are listed first and submitted one by one afterwards.
AcceptSweep(h) ==
  /\ IsServing /\ pending[h] = <<>>
  /\ \E listing \in Listings : pending' = [pending EXCEPT ![h] = listing]
  /\ UNCHANGED <<queue, busy, stopped, worker, idler, stopper, unseen>>

\* Mutant: what is being produced counts as queued.
IsRefusedOrBusy(b) == stopped \/ IsQueued(b) \/ busy = b

\* Mutant: duplicates are accepted.
IsRefusedWhenStopped(b) == stopped

IsRefused(b) == stopped \/ IsQueued(b)

\* Mutant: nobody is told.
SubmitSilently(h) ==
  /\ pending[h] # <<>>
  /\ LET b == Head(pending[h])
     IN  /\ queue' = IF IsRefused(b) THEN queue ELSE Append(queue, b)
         /\ unseen' = IF stopped THEN unseen ELSE unseen \cup {b}
  /\ pending' = [pending EXCEPT ![h] = Tail(@)]
  /\ UNCHANGED <<busy, stopped, worker, idler, stopper>>

Submit(h) ==
  /\ pending[h] # <<>>
  /\ LET b == Head(pending[h])
     IN  /\ IF IsRefused(b)
              THEN UNCHANGED <<queue, worker, idler>>
              ELSE /\ queue' = Append(queue, b)
                   /\ worker' = Notified(worker) /\ idler' = Notified(idler)
         /\ unseen' = IF stopped THEN unseen ELSE unseen \cup {b}
  /\ pending' = [pending EXCEPT ![h] = Tail(@)]
  /\ UNCHANGED <<busy, stopped, stopper>>

-----------------------------------------------------------------------------
(* The worker. *)

Sleep ==
  /\ worker = "testing" /\ ~stopped /\ queue = <<>>
  /\ worker' = "asleep"
  /\ UNCHANGED <<queue, busy, stopped, pending, idler, stopper, unseen>>

Take ==
  /\ worker = "testing" /\ ~stopped /\ queue # <<>>
  /\ busy' = Head(queue) /\ queue' = Tail(queue)
  /\ worker' = "producing" /\ unseen' = unseen \ {Head(queue)}
  /\ UNCHANGED <<stopped, pending, idler, stopper>>

\* _produce returned or raised an Exception: the finally block.
Produced ==
  /\ worker = "producing"
  /\ busy' = NoBrief
  /\ worker' = "testing" /\ idler' = Notified(idler)
  /\ UNCHANGED <<queue, stopped, pending, stopper, unseen>>

Leave ==
  /\ worker = "testing" /\ stopped
  /\ worker' = "ended"
  /\ UNCHANGED <<queue, busy, stopped, pending, idler, stopper, unseen>>

-----------------------------------------------------------------------------
(* wait_idle and stop. *)

IsIdle == queue = <<>> /\ busy = NoBrief

CallWaitIdle ==
  /\ idler = "away"
  /\ idler' = "testing"
  /\ UNCHANGED <<queue, busy, stopped, worker, pending, stopper, unseen>>

TestIdle ==
  /\ idler = "testing"
  /\ idler' = IF IsIdle THEN "away" ELSE "asleep"
  /\ UNCHANGED <<queue, busy, stopped, worker, pending, stopper, unseen>>

\* The timeout of wait_idle passed; the wait of _work has none.
TimeOut ==
  /\ idler = "asleep"
  /\ idler' = "away"
  /\ UNCHANGED <<queue, busy, stopped, worker, pending, stopper, unseen>>

\* Mutant: the sleepers are not told.
DropQueuedSilently ==
  /\ stopped' = TRUE /\ queue' = <<>>
  /\ UNCHANGED <<busy, worker, pending, idler, unseen>>

\* The block of queue.stop.
DropQueued ==
  /\ stopped' = TRUE /\ queue' = <<>>
  /\ worker' = Notified(worker) /\ idler' = Notified(idler)
  /\ UNCHANGED <<busy, pending, unseen>>

\* ProductionService.stop: the queue, without a wait for the worker; then the
\* server; then the queue again, to wait for the worker.
Stop == stopper = "away" /\ stopper' = "stopping" /\ DropQueued

Shutdown ==
  /\ stopper = "stopping"
  /\ stopper' = "closing"
  /\ UNCHANGED <<queue, busy, stopped, worker, pending, idler, unseen>>

StopAgain == stopper = "closing" /\ stopper' = "joining" /\ DropQueued

Join ==
  /\ stopper = "joining" /\ worker = "ended"
  /\ stopper' = "done"
  /\ UNCHANGED <<queue, busy, stopped, worker, pending, idler, unseen>>

-----------------------------------------------------------------------------
WorkerNext == Sleep \/ Take \/ Produced \/ Leave
HandlerNext(h) == AcceptBrief(h) \/ AcceptSweep(h) \/ Submit(h)
IdlerNext == CallWaitIdle \/ TestIdle \/ TimeOut
StopperNext == Stop \/ Shutdown \/ StopAgain \/ Join

Next == WorkerNext \/ IdlerNext \/ StopperNext \/ \E h \in Handlers : HandlerNext(h)

Spec == Init /\ [][Next]_vars

(* The threads are scheduled and a production comes to an end.  Nobody has *)
(* to send a request, to wait, to time out or to stop the service.         *)
Fairness ==
  /\ WF_vars(WorkerNext)
  /\ WF_vars(TestIdle)
  /\ WF_vars(Shutdown) /\ WF_vars(StopAgain) /\ WF_vars(Join)
  /\ \A h \in Handlers : WF_vars(Submit(h))

FairSpec == Spec /\ Fairness

-----------------------------------------------------------------------------
(* Every variable keeps its shape.                                         *)
TypeOK ==
  /\ queue \in Seq(Briefs)
  /\ busy \in Briefs \cup {NoBrief} /\ stopped \in BOOLEAN
  /\ worker \in {"testing", "asleep", "producing", "ended"}
  /\ pending \in [Handlers -> Seq(Briefs)]
  /\ idler \in {"away", "testing", "asleep"}
  /\ stopper \in {"away", "stopping", "closing", "joining", "done"}
  /\ unseen \subseteq Briefs

(* No wake-up is lost: while the worker sleeps nothing is queued and the   *)
(* service is not stopped, and while a caller of wait_idle sleeps there is *)
(* something to wait for - though one condition serves both predicates.    *)
NoLostWakeup ==
  /\ worker = "asleep" => queue = <<>> /\ ~stopped
  /\ idler = "asleep" => ~IsIdle

(* "An edit during a production is not lost": whatever was submitted, also *)
(* if refused as a duplicate, has a production begin after its submission, *)
(* or waits in the queue for one - until the service is stopped.           *)
NoLostEdit == ~stopped => \A b \in unseen : IsQueued(b)

(* A brief waits in the queue once, however often it is submitted, so the  *)
(* queue is never longer than there are briefs; and the worker's position  *)
(* agrees with the flag wait_idle reads.                                   *)
QueuedOnce ==
  /\ \A i, j \in DOMAIN queue : queue[i] = queue[j] => i = j
  /\ (worker = "producing") <=> (busy # NoBrief)

(* After stop nothing is accepted or started any more; what runs may end.  *)
(* (The closed property's docstring.)                                      *)
StopIsFinal ==
  [][stopped => stopped' /\ queue' = <<>> /\ busy' \in {busy, NoBrief}]_vars

Requests == INSTANCE BriefRequests WITH
  wanted <- {queue[i] : i \in DOMAIN queue}, producing <- busy, closed <- stopped

(* The queue with its threads keeps the promises of BriefRequests, the     *)
(* eventual start of everything wanted included.                           *)
KeepsPromises == Requests!Spec

(* stop comes to an end, with the worker gone and nobody left asleep.      *)
StopEnds == stopped ~> (stopper = "done" /\ idler # "asleep")
=============================================================================
