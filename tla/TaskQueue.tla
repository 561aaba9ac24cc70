------------------------------- MODULE TaskQueue -------------------------------
(***************************************************************************)
(* The task queue that backend/app/infrastructure/tasks/celery_app.py      *)
(* configures and the worker containers of docker/docker-compose.yml       *)
(* consume: three queues on one Redis broker, late acknowledgement,        *)
(* requeueing when a worker process is lost, one task per process.         *)
(*                                                                         *)
(* Celery and the Redis transport are modelled as far as the settings      *)
(* govern them.  A message is in the list of its queue, or delivered and   *)
(* "unacked", or gone.  It keeps its delivery tag when it is restored, so  *)
(* that any holder's acknowledgement removes it.                           *)
(***************************************************************************)
EXTENDS Naturals, FiniteSets

CONSTANTS
  Tasks,        \* dispatched task messages
  ModuleOf,     \* ModuleOf[t]: the module that defines the task of t
  Workers,      \* worker containers
  ServiceOf,    \* ServiceOf[w]: the compose service of w
  Processes,    \* pool processes of all workers
  HomeOf,       \* HomeOf[p]: the container of p
  NoTask,       \* what an idle process runs
  Hanging,      \* tasks that run for ever once started
  MaxKills,     \* bound on the processes that are killed
  MaxDeaths,    \* bound on the containers that die
  MaxOverruns   \* bound on the visibility timeouts of messages being run

TaskModules == {"indexing_tasks", "analysis_tasks", "agent_tasks",
                "github_tasks", "maintenance_tasks"}

Services == {"celery-indexing", "celery-analysis", "celery-agent"}

ASSUME QueueAssumption ==
  /\ ModuleOf \in [Tasks -> TaskModules]
  /\ ServiceOf \in [Workers -> Services]
  /\ HomeOf \in [Processes -> Workers]
  /\ NoTask \notin Tasks
  /\ \A t \in Hanging : ModuleOf[t] \in {"indexing_tasks", "github_tasks"}
  /\ IsFiniteSet(Tasks) /\ IsFiniteSet(Processes)
  /\ MaxKills \in Nat /\ MaxDeaths \in Nat /\ MaxOverruns \in Nat

VARIABLES
  place,      \* place[t]: "new", "queued", "unacked" or "acked"
  reserved,   \* reserved[w]: tasks delivered to w and not yet started
  proc,       \* proc[p]: the task process p runs
  returned,   \* processes whose task has ended, with its result stored
  alive,      \* containers that have not died
  result,     \* result[t]: what the result backend answers
  deliveries, \* deliveries[t]: how often t was delivered
  losses,     \* losses[t]: how often a holder of t was lost
  overruns,   \* overruns[t]: how often t was restored while it was run
  ended,      \* tasks a run of which has returned or raised
  kills,      \* processes killed so far
  timeouts    \* overruns of all tasks so far

brokerVars  == <<place, deliveries>>
workerVars  == <<reserved, proc, returned, alive>>
historyVars == <<losses, overruns, ended, kills, timeouts>>
vars == <<brokerVars, workerVars, result, historyVars>>

-----------------------------------------------------------------------------
(* The configuration. *)

(* A mutant of Route: maintenance shares the queue of indexing. *)
RouteMaintenanceToIndexing(m) ==
  CASE m = "analysis_tasks" -> "analysis_queue"
    [] m = "agent_tasks"    -> "agent_queue"
    [] OTHER                -> "indexing_queue"

(* task_routes. *)
Route(m) ==
  CASE m \in {"indexing_tasks", "github_tasks"}      -> "indexing_queue"
    [] m \in {"analysis_tasks", "maintenance_tasks"} -> "analysis_queue"
    [] m = "agent_tasks"                             -> "agent_queue"

QueueOf(t) == Route(ModuleOf[t])

(* The modules handed to autodiscover_tasks(). *)
Discovered == TaskModules

(* The -Q option of each worker service. *)
Consumes(w) ==
  CASE ServiceOf[w] = "celery-indexing" -> "indexing_queue"
    [] ServiceOf[w] = "celery-analysis" -> "analysis_queue"
    [] ServiceOf[w] = "celery-agent"    -> "agent_queue"

ProcessesOf(w) == {p \in Processes : HomeOf[p] = w}

Idle(w) == {p \in ProcessesOf(w) : proc[p] = NoTask}

(* A mutant of Prefetch: Celery's default multiplier. *)
PrefetchDefault(w) == 4 * Cardinality(ProcessesOf(w))

(* worker_prefetch_multiplier = 1. *)
Prefetch(w) == 1 * Cardinality(ProcessesOf(w))

(* Deliveries w has not acknowledged; acks_late counts the running ones. *)
Unsettled(w) == Cardinality(reserved[w]) + Cardinality(ProcessesOf(w) \ Idle(w))

Running(t) == {p \in Processes : proc[p] = t}

Init ==
  /\ place = [t \in Tasks |-> "new"]
  /\ reserved = [w \in Workers |-> {}]
  /\ proc = [p \in Processes |-> NoTask]
  /\ returned = {}
  /\ alive = Workers
  /\ result = [t \in Tasks |-> "none"]
  /\ deliveries = [t \in Tasks |-> 0]
  /\ losses = [t \in Tasks |-> 0]
  /\ overruns = [t \in Tasks |-> 0]
  /\ ended = {}
  /\ kills = 0
  /\ timeouts = 0

-----------------------------------------------------------------------------
(* Dispatch and delivery. *)

(* delay() or apply_async(). *)
Publish(t) ==
  /\ place[t] = "new"
  /\ place' = [place EXCEPT ![t] = "queued"]
  /\ UNCHANGED <<deliveries, workerVars, result, historyVars>>

(* A worker takes a message of its queue, as long as its prefetch allows.   *)
(* A task it does not know is rejected and gone.                            *)
Deliver(w, t) ==
  /\ w \in alive
  /\ place[t] = "queued"
  /\ QueueOf(t) = Consumes(w)
  /\ Unsettled(w) < Prefetch(w)
  /\ deliveries' = [deliveries EXCEPT ![t] = @ + 1]
  /\ IF ModuleOf[t] \in Discovered
       THEN /\ place' = [place EXCEPT ![t] = "unacked"]
            /\ reserved' = [reserved EXCEPT ![w] = @ \cup {t}]
            /\ UNCHANGED result
       ELSE /\ place' = [place EXCEPT ![t] = "acked"]
            /\ result' = [result EXCEPT ![t] = "failure"]
            /\ UNCHANGED reserved
  /\ UNCHANGED <<proc, returned, alive, historyVars>>

(* task_track_started; the result backend never replaces a success. *)
Start(p, t) ==
  /\ proc[p] = NoTask
  /\ t \in reserved[HomeOf[p]]
  /\ reserved' = [reserved EXCEPT ![HomeOf[p]] = @ \ {t}]
  /\ proc' = [proc EXCEPT ![p] = t]
  /\ result' = [result EXCEPT ![t] = IF @ = "success" THEN @ ELSE "started"]
  /\ UNCHANGED <<brokerVars, returned, alive, historyVars>>

-----------------------------------------------------------------------------
(* The end of a run. *)

(* A mutant of Return: only successes are stored. *)
ReturnUnlessFailed(p, outcome) ==
  /\ proc[p] \notin Hanging \cup {NoTask}
  /\ p \notin returned
  /\ returned' = returned \cup {p}
  /\ ended' = ended \cup {proc[p]}
  /\ result' = [result EXCEPT ![proc[p]] = IF outcome = "success" THEN outcome ELSE @]
  /\ UNCHANGED <<brokerVars, reserved, proc, alive, losses, overruns, kills, timeouts>>

(* The task returns or raises, and the process stores the result. *)
Return(p, outcome) ==
  /\ proc[p] \notin Hanging \cup {NoTask}
  /\ p \notin returned
  /\ returned' = returned \cup {p}
  /\ ended' = ended \cup {proc[p]}
  /\ result' = [result EXCEPT ![proc[p]] = IF @ = "success" THEN @ ELSE outcome]
  /\ UNCHANGED <<brokerVars, reserved, proc, alive, losses, overruns, kills, timeouts>>

(* A mutant of Ack: the acknowledgement does not reach the broker. *)
AckUnsent(p) ==
  /\ p \in returned
  /\ proc' = [proc EXCEPT ![p] = NoTask]
  /\ returned' = returned \ {p}
  /\ UNCHANGED <<brokerVars, reserved, alive, result, historyVars>>

(* The parent process hears of it and acknowledges, after a failure as      *)
(* after a success: task_acks_late.  Where the message was restored in the  *)
(* meantime there is nothing to remove.                                     *)
Ack(p) ==
  /\ p \in returned
  /\ place' = [place EXCEPT ![proc[p]] = IF @ = "unacked" THEN "acked" ELSE @]
  /\ proc' = [proc EXCEPT ![p] = NoTask]
  /\ returned' = returned \ {p}
  /\ UNCHANGED <<deliveries, reserved, alive, result, historyVars>>

-----------------------------------------------------------------------------
(* What goes wrong. *)

(* A mutant of ChildKilled: without task_reject_on_worker_lost the message  *)
(* is acknowledged, and the task marked as failed.                          *)
ChildKilledAcked(p) ==
  /\ proc[p] # NoTask
  /\ kills < MaxKills
  /\ kills' = kills + 1
  /\ losses' = [losses EXCEPT ![proc[p]] = @ + 1]
  /\ place' = [place EXCEPT ![proc[p]] = IF @ = "unacked" THEN "acked" ELSE @]
  /\ result' = [result EXCEPT ![proc[p]] = IF @ = "success" THEN @ ELSE "failure"]
  /\ proc' = [proc EXCEPT ![p] = NoTask]
  /\ returned' = returned \ {p}
  /\ UNCHANGED <<deliveries, reserved, alive, overruns, ended, timeouts>>

(* The process is killed before the parent has heard of a result, and       *)
(* replaced; the parent rejects the message with requeue.                   *)
ChildKilled(p) ==
  /\ proc[p] # NoTask
  /\ kills < MaxKills
  /\ kills' = kills + 1
  /\ losses' = [losses EXCEPT ![proc[p]] = @ + 1]
  /\ place' = [place EXCEPT ![proc[p]] = IF @ = "unacked" THEN "queued" ELSE @]
  /\ proc' = [proc EXCEPT ![p] = NoTask]
  /\ returned' = returned \ {p}
  /\ UNCHANGED <<deliveries, reserved, alive, result, overruns, ended, timeouts>>

Holds(w, t) == t \in reserved[w] \/ \E p \in ProcessesOf(w) : proc[p] = t

(* The whole container is gone, with its parent process; no service of the  *)
(* compose file that runs workers has a restart policy.                     *)
ContainerDies(w) ==
  /\ w \in alive
  /\ Cardinality(Workers \ alive) < MaxDeaths
  /\ alive' = alive \ {w}
  /\ losses' = [t \in Tasks |-> IF Holds(w, t) THEN losses[t] + 1 ELSE losses[t]]
  /\ reserved' = [reserved EXCEPT ![w] = {}]
  /\ proc' = [p \in Processes |-> IF HomeOf[p] = w THEN NoTask ELSE proc[p]]
  /\ returned' = returned \ ProcessesOf(w)
  /\ UNCHANGED <<brokerVars, result, overruns, ended, kills, timeouts>>

(* A mutant of RestoreLost: what a worker has reserved is restored as well. *)
RestoreReserved(t) ==
  /\ place[t] = "unacked"
  /\ alive # {}
  /\ Running(t) = {}
  /\ place' = [place EXCEPT ![t] = "queued"]
  /\ UNCHANGED <<deliveries, workerVars, result, historyVars>>

(* The visibility timeout, which the settings leave at its default: some    *)
(* consumer puts a message that was long unacknowledged back into its list. *)
RestoreLost(t) ==
  /\ place[t] = "unacked"
  /\ alive # {}
  /\ \A w \in Workers : ~Holds(w, t)
  /\ place' = [place EXCEPT ![t] = "queued"]
  /\ UNCHANGED <<deliveries, workerVars, result, historyVars>>

(* ... although the task is still being run, which takes its time. *)
RestoreOverrun(t) ==
  /\ place[t] = "unacked"
  /\ Running(t) # {}
  /\ \A w \in Workers : t \notin reserved[w]
  /\ timeouts < MaxOverruns
  /\ timeouts' = timeouts + 1
  /\ overruns' = [overruns EXCEPT ![t] = @ + 1]
  /\ place' = [place EXCEPT ![t] = "queued"]
  /\ UNCHANGED <<deliveries, workerVars, result, losses, ended, kills>>

-----------------------------------------------------------------------------

Outcomes == {"success", "failure"}

End(p) == \/ \E outcome \in Outcomes : Return(p, outcome)
          \/ Ack(p)

Next ==
  \/ \E t \in Tasks : \/ Publish(t) \/ RestoreLost(t) \/ RestoreOverrun(t)
                      \/ \E w \in Workers : Deliver(w, t)
                      \/ \E p \in Processes : Start(p, t)
  \/ \E p \in Processes : End(p) \/ ChildKilled(p)
  \/ \E w \in Workers : ContainerDies(w)

(* Workers take what they may and run it, tasks end unless they hang, and   *)
(* what a dead container held becomes visible again.                        *)
Fairness ==
  /\ \A t \in Tasks : /\ WF_vars(\E w \in Workers : Deliver(w, t))
                      /\ WF_vars(\E p \in Processes : Start(p, t))
                      /\ WF_vars(RestoreLost(t))
  /\ \A p \in Processes : WF_vars(End(p))

Spec == Init /\ [][Next]_vars /\ Fairness

-----------------------------------------------------------------------------
(* Properties. *)

TypeOK ==
  /\ place \in [Tasks -> {"new", "queued", "unacked", "acked"}]
  /\ reserved \in [Workers -> SUBSET Tasks]
  /\ proc \in [Processes -> Tasks \cup {NoTask}]
  /\ returned \subseteq Processes
  /\ alive \subseteq Workers
  /\ result \in [Tasks -> {"none", "started", "success", "failure"}]
  /\ deliveries \in [Tasks -> Nat]
  /\ losses \in [Tasks -> Nat]
  /\ overruns \in [Tasks -> Nat]
  /\ ended \subseteq Tasks
  /\ kills \in 0..MaxKills
  /\ timeouts \in 0..MaxOverruns

(* A task is delivered again, and so executed again, only after a holder of *)
(* it was lost or its run outlived the visibility timeout, once for each.   *)
DuplicatesExplained ==
  \A t \in Tasks : deliveries[t] <= 1 + losses[t] + overruns[t]

(* Two processes execute one task at the same time only when a run of it    *)
(* has outlived the visibility timeout: whatever is lost or killed, the     *)
(* message is not handed out while somebody still works on it.              *)
OverlapsExplained ==
  \A p, q \in Processes :
    proc[p] # NoTask /\ proc[p] = proc[q] => p = q \/ overruns[proc[p]] > 0

(* "workers pull one task at a time": what a worker has taken it can start  *)
(* at once, and no task waits in a worker behind a slow one while another   *)
(* worker of the pool is idle.                                              *)
OneTaskPerProcess ==
  \A w \in alive : Cardinality(reserved[w]) <= Cardinality(Idle(w))

(* Once the broker has forgotten a task, whoever polls its result sees how  *)
(* it ended, unless a run of it outlived the visibility timeout: then a     *)
(* second run may overwrite a failure with "started" and be lost.           *)
SettledHasResult ==
  \A t \in Tasks :
    place[t] = "acked" /\ overruns[t] = 0 =>
      result[t] \in {"success", "failure"}

(* The queue implements AtLeastOnce. *)
Promise == INSTANCE AtLeastOnce WITH
             accepted <- {t \in Tasks : place[t] # "new"},
             executed <- ended,
             settled  <- {t \in Tasks : place[t] = "acked"}

ImplementsAtLeastOnce == Promise!Spec

PoolGone(t) == \A w \in alive : Consumes(w) # QueueOf(t)

(* "Prevents a long-running indexing task from blocking analysis tasks":    *)
(* the work of the other pools is executed to its end whatever is killed or *)
(* lost and however many indexing tasks hang, unless its pool has died out. *)
IndexingDelaysNobody ==
  \A t \in Tasks :
    ModuleOf[t] \in {"analysis_tasks", "agent_tasks", "maintenance_tasks"} =>
      (place[t] = "queued" ~> place[t] = "acked" \/ PoolGone(t))
=============================================================================
