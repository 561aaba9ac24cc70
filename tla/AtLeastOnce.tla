----------------------------- MODULE AtLeastOnce -----------------------------
(***************************************************************************)
(* What backend/app/infrastructure/tasks/celery_app.py promises whoever    *)
(* dispatches a task ("acknowledged AFTER execution"), without queues,     *)
(* workers or timeouts: a task that was accepted is forgotten only after   *)
(* it has been executed to its end.  It may be executed again, also after  *)
(* that.                                                                   *)
(***************************************************************************)
CONSTANTS Tasks

VARIABLES
  accepted,  \* tasks the broker has taken over
  executed,  \* tasks an execution of which has come to its end
  settled    \* tasks the broker has forgotten

vars == <<accepted, executed, settled>>

Init ==
  /\ accepted = {}
  /\ executed = {}
  /\ settled = {}

Accept(t) ==
  /\ t \notin accepted
  /\ accepted' = accepted \cup {t}
  /\ UNCHANGED <<executed, settled>>

Execute(t) ==
  /\ t \in accepted
  /\ executed' = executed \cup {t}
  /\ UNCHANGED <<accepted, settled>>

Settle(t) ==
  /\ t \in executed
  /\ settled' = settled \cup {t}
  /\ UNCHANGED <<accepted, executed>>

Next == \E t \in Tasks : Accept(t) \/ Execute(t) \/ Settle(t)

Spec == Init /\ [][Next]_vars
=============================================================================
