----------------------------- MODULE PublicDemo -----------------------------
(***************************************************************************)
(* The public demonstration as a whole: admission with one request whose   *)
(* thread runs a demonstration step by step, while the threads of the      *)
(* others end as they like.  What admission assumes of its threads, that   *)
(* they end, is shown here of the demonstrations there are.                *)
(***************************************************************************)
EXTENDS DemoAdmission, Demonstration

CONSTANT Shown       \* the request whose demonstration is followed

ASSUME ShownAssumption == Shown \in Requests

demonstration == <<scenario, asked, script, row, job, now, cancels, reads, followUpCalls>>
all == <<vars, demonstration>>

Others == Requests \ {Shown}

PublicInit == Init /\ Idle

AdmitShown == Admit(Shown) /\ Enter

\* The thread takes a step, whether or not anybody waits for it.
Run ==
  /\ task[Shown] = "running"
  /\ UNCHANGED vars
  /\ Step

EndShown ==
  /\ task[Shown] = "running"
  /\ Over
  /\ Leave
  /\ task' = [task EXCEPT ![Shown] = Ending]
  /\ UNCHANGED <<slots, waiting, callbacks>>

\* The rest of admission goes on beside the demonstration.
Beside(r) ==
  /\ \/ r \in Others /\ (Admit(r) \/ End(r))
     \/ Return(r) \/ TimeOut(r) \/ Disconnect(r) \/ CallBack(r)
  /\ UNCHANGED demonstration

PublicNext == AdmitShown \/ Run \/ EndShown \/ \E r \in Requests : Beside(r)

\* A thread runs on until it ends; the handler waits a bounded time, and the
\* event loop runs.
PublicSpec ==
  /\ PublicInit /\ [][PublicNext]_all
  /\ WF_all(Run \/ EndShown)
  /\ \A r \in Others : WF_all(End(r) /\ UNCHANGED demonstration)
  /\ \A r \in Requests :
       /\ WF_all((Return(r) \/ TimeOut(r)) /\ UNCHANGED demonstration)
       /\ WF_all(CallBack(r) /\ UNCHANGED demonstration)

\* What the tests say a demonstration comes to.
Announced(s) ==
  CASE s \in {"healthy", "persistent_resolution", "recovery_loop"} -> "VERIFIED"
    [] s \in {"terminal_failure", "outcome_violation"}             -> "NOT_COMPLETED"
    [] OTHER                                                       -> "AWAITING_PROOF"

\* Whenever in the week it begins, a demonstration never raises and comes to
\* the outcome it is there to show, although its deadline is reckoned from the
\* day of the week, its notice from the deadline, and its later times from
\* what the service said of the next check (PublicDemoRunner.run).
ShowsWhatItSays ==
  task[Shown] = "running" =>
    /\ ~Raises
    /\ Finished => row.state = Announced(scenario) /\ Ending = "valid"
=============================================================================
