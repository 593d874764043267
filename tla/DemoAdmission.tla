---------------------------- MODULE DemoAdmission ----------------------------
(***************************************************************************)
(* Admission to the public demonstration                                   *)
(* (src/src/closeloop/public_demo_api.py, install_public_demo_api).  A     *)
(* request that is admitted takes a slot of a bounded semaphore and has a  *)
(* thread run a demonstration.  Its handler waits for the thread's result, *)
(* for a timeout, or for the client to go away; a thread cannot be         *)
(* stopped, so that a handler which leaves early leaves its slot to a      *)
(* callback on the task.                                                   *)
(*                                                                         *)
(* Requests that are turned away before they are admitted (origin, shape,  *)
(* no slot) change nothing and are no steps.                               *)
(***************************************************************************)
EXTENDS Integers, FiniteSets

CONSTANTS
  Requests,         \* requests that may be in progress at the same time
  MaxConcurrency    \* PUBLIC_DEMO_MAX_CONCURRENCY, the slots

ASSUME RequestsAssumption == IsFiniteSet(Requests)
ASSUME MaxConcurrencyAssumption == MaxConcurrency \in Nat \ {0}

VARIABLES
  slots,      \* value of the semaphore
  waiting,    \* requests whose handler waits for its task
  callbacks,  \* requests whose task will give the slot back when it is done
  task        \* the task of a request: none, running, or what it ended with

vars == <<slots, waiting, callbacks, task>>

\* A result that satisfies the response model or does not, an exception, and
\* an exception that looks like the handler's own timeout.
Endings == {"valid", "invalid", "error", "timeout"}

Done(r) == task[r] \in Endings

Init ==
  /\ slots = MaxConcurrency
  /\ waiting = {} /\ callbacks = {}
  /\ task = [r \in Requests |-> "none"]

\* The slot goes back, and with it everything that is left of the request.
Release(r) ==
  /\ slots' = slots + 1
  /\ task' = [task EXCEPT ![r] = "none"]

Admit(r) ==
  /\ task[r] = "none"
  /\ slots > 0
  /\ slots' = slots - 1
  /\ task' = [task EXCEPT ![r] = "running"]
  /\ waiting' = waiting \cup {r}
  /\ UNCHANGED callbacks

\* The thread ends, and its task with it.
End(r) ==
  /\ task[r] = "running"
  /\ \E ending \in Endings : task' = [task EXCEPT ![r] = ending]
  /\ UNCHANGED <<slots, waiting, callbacks>>

\* The handler gets the task's result or its exception.
Return(r) ==
  /\ r \in waiting
  /\ Done(r) /\ task[r] # "timeout"
  /\ waiting' = waiting \ {r}
  /\ Release(r)
  /\ UNCHANGED callbacks

\* Slip: the timeout gives the slot back while the thread goes on.
TimeOutReleasing(r) ==
  /\ r \in waiting
  /\ waiting' = waiting \ {r}
  /\ slots' = slots + 1
  /\ UNCHANGED <<callbacks, task>>

\* The handler's time is up, also in the moment in which the task is done, or
\* the task's own exception is a timeout.
TimeOut(r) ==
  /\ r \in waiting
  /\ waiting' = waiting \ {r}
  /\ callbacks' = callbacks \cup {r}
  /\ UNCHANGED <<slots, task>>

\* Slip: only a task that is done is seen to.
DisconnectForgetting(r) ==
  /\ r \in waiting
  /\ waiting' = waiting \ {r}
  /\ IF Done(r) THEN Release(r) ELSE UNCHANGED <<slots, task>>
  /\ UNCHANGED callbacks

\* The client goes away and the handler is cancelled.
Disconnect(r) ==
  /\ r \in waiting
  /\ waiting' = waiting \ {r}
  /\ IF Done(r)
     THEN Release(r) /\ UNCHANGED callbacks
     ELSE callbacks' = callbacks \cup {r} /\ UNCHANGED <<slots, task>>

\* _release_after_completion, called by the event loop.
CallBack(r) ==
  /\ r \in callbacks /\ Done(r)
  /\ callbacks' = callbacks \ {r}
  /\ Release(r)
  /\ UNCHANGED waiting

Next ==
  \E r \in Requests :
    Admit(r) \/ End(r) \/ Return(r) \/ TimeOut(r) \/ Disconnect(r) \/ CallBack(r)

Spec == Init /\ [][Next]_vars

(***************************************************************************)
(* Properties                                                              *)
(***************************************************************************)
Admitted == {r \in Requests : task[r] # "none"}
Running  == {r \in Requests : task[r] = "running"}

\* Every admitted request has exactly one keeper of its slot: the handler that
\* waits for it or the callback on its task.
OneKeeper ==
  /\ waiting \cup callbacks = Admitted
  /\ waiting \cap callbacks = {}

\* No slot is lost and none is given back twice, in whatever order a thread
\* ends, time runs out and the client goes away (a BoundedSemaphore raises
\* when it is given back too often).
SlotsAccounted == slots \in Nat /\ slots + Cardinality(Admitted) = MaxConcurrency

\* There are never more demonstrations running than slots, those counted whose
\* request was answered long ago (run_public_demo shields the task).
ThreadsAreBounded == Cardinality(Running) <= MaxConcurrency

\* Every slot that was taken is given back (_release_after_completion).
SlotsComeBack == \A r \in Requests : r \in Admitted ~> r \notin Admitted
=============================================================================
