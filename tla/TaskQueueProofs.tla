---------------------------- MODULE TaskQueueProofs ----------------------------
(***************************************************************************)
(* Proofs of the safety properties of TaskQueue, and that it implements    *)
(* AtLeastOnce, for any tasks, workers and processes and any number of     *)
(* killed processes, lost containers and visibility timeouts.              *)
(*                                                                         *)
(* Everything rests on who holds a message (HolderInv): as long as no run  *)
(* of a task has outlived the visibility timeout its message has at most   *)
(* one holder, and none unless it is unacknowledged.  DeliveryInv counts   *)
(* deliveries against their causes; ResultInv says that whoever is about   *)
(* to acknowledge has stored a result.                                     *)
(***************************************************************************)
EXTENDS TaskQueue, FiniteSetTheorems, TLAPS

-----------------------------------------------------------------------------
(* The inductive invariant. *)

Unheld(t) == /\ \A w \in Workers : t \notin reserved[w]
             /\ \A p \in Processes : proc[p] # t

OneHolder(t) ==
  /\ \A v, w \in Workers : t \in reserved[v] /\ t \in reserved[w] => v = w
  /\ \A w \in Workers, p \in Processes : t \in reserved[w] => proc[p] # t
  /\ \A p, q \in Processes : proc[p] = t /\ proc[q] = t => p = q

(* Who holds a message, and when nobody does. *)
HolderInv ==
  \A t \in Tasks :
    /\ place[t] = "new" => Unheld(t)
    /\ overruns[t] = 0 => /\ OneHolder(t)
                          /\ place[t] # "unacked" => Unheld(t)

(* Every delivery but the first has a cause, and a message that is yet to   *)
(* be delivered has its cause already.                                      *)
ToCome(t) == \/ place[t] \in {"new", "queued"}
             \/ place[t] = "unacked" /\ Unheld(t)

DeliveryInv ==
  \A t \in Tasks :
    /\ deliveries[t] <= 1 + losses[t] + overruns[t]
    /\ ToCome(t) => deliveries[t] <= losses[t] + overruns[t]

(* What is acknowledged has ended and stored its result. *)
ResultInv ==
  /\ SettledHasResult
  /\ \A p \in returned :
       /\ proc[p] \in ended
       /\ overruns[proc[p]] = 0 => result[proc[p]] \in {"success", "failure"}

Inv == TypeOK /\ HolderInv /\ DeliveryInv /\ ResultInv

-----------------------------------------------------------------------------
(* The configuration, and the steps. *)

(* Every module that has tasks is among those discovered. *)
LEMMA AllDiscovered == \A t \in Tasks : ModuleOf[t] \in Discovered
BY QueueAssumption DEF Discovered

(* To hold a task is to have reserved it or to run it. *)
LEMMA HoldsNothing ==
  \A t \in Tasks : (\A w \in Workers : ~Holds(w, t)) <=> Unheld(t)
BY QueueAssumption DEF Holds, Unheld, ProcessesOf

(* What delivering a message does: its task is always known. *)
LEMMA DeliverReserves ==
  ASSUME NEW w \in Workers, NEW t \in Tasks, Deliver(w, t)
  PROVE  /\ place[t] = "queued"
         /\ deliveries' = [deliveries EXCEPT ![t] = @ + 1]
         /\ place' = [place EXCEPT ![t] = "unacked"]
         /\ reserved' = [reserved EXCEPT ![w] = @ \cup {t}]
         /\ UNCHANGED <<proc, returned, alive, result, historyVars>>
BY AllDiscovered DEF Deliver

-----------------------------------------------------------------------------
(* Type correctness. *)

LEMMA TypeInit == Init => TypeOK
BY QueueAssumption DEF Init, TypeOK

LEMMA TypeStep == TypeOK /\ [Next]_vars => TypeOK'
<1>. SUFFICES ASSUME TypeOK, [Next]_vars  PROVE TypeOK'
  OBVIOUS
<1>. USE QueueAssumption DEF TypeOK
<1>1. ASSUME NEW t \in Tasks, Publish(t)  PROVE TypeOK'
  BY <1>1 DEF Publish, workerVars, historyVars
<1>2. ASSUME NEW w \in Workers, NEW t \in Tasks, Deliver(w, t)  PROVE TypeOK'
  <2>1. /\ place' \in [Tasks -> {"new", "queued", "unacked", "acked"}]
        /\ deliveries' \in [Tasks -> Nat]
        /\ UNCHANGED <<proc, returned, alive, result, losses, overruns, ended,
                       kills, timeouts>>
    BY <1>2, DeliverReserves DEF historyVars
  <2>2. reserved' \in [Workers -> SUBSET Tasks]
    BY <1>2, DeliverReserves
  <2>. QED  BY <2>1, <2>2
<1>3. ASSUME NEW p \in Processes, NEW t \in Tasks, Start(p, t)  PROVE TypeOK'
  BY <1>3 DEF Start, brokerVars, historyVars
<1>4. ASSUME NEW p \in Processes, NEW outcome \in Outcomes, Return(p, outcome)
      PROVE  TypeOK'
  BY <1>4 DEF Return, brokerVars, Outcomes
<1>5. ASSUME NEW p \in Processes, Ack(p)  PROVE TypeOK'
  BY <1>5 DEF Ack, historyVars
<1>6. ASSUME NEW p \in Processes, ChildKilled(p)  PROVE TypeOK'
  BY <1>6 DEF ChildKilled
<1>7. ASSUME NEW w \in Workers, ContainerDies(w)  PROVE TypeOK'
  BY <1>7 DEF ContainerDies, brokerVars
<1>8. ASSUME NEW t \in Tasks, RestoreLost(t)  PROVE TypeOK'
  BY <1>8 DEF RestoreLost, workerVars, historyVars
<1>9. ASSUME NEW t \in Tasks, RestoreOverrun(t)  PROVE TypeOK'
  BY <1>9 DEF RestoreOverrun, workerVars
<1>10. CASE UNCHANGED vars
  BY <1>10 DEF vars, brokerVars, workerVars, historyVars
<1>. QED
  BY <1>1, <1>2, <1>3, <1>4, <1>5, <1>6, <1>7, <1>8, <1>9, <1>10 DEF Next, End

-----------------------------------------------------------------------------
(* Who holds a message. *)

(* A step after which nobody holds a task who did not before, and which     *)
(* keeps a task that is held where it is, preserves HolderInv.              *)
LEMMA HoldersShrink ==
  ASSUME TypeOK, HolderInv, NEW t \in Tasks,
         \A w \in Workers : t \in reserved'[w] => t \in reserved[w],
         \A p \in Processes : proc'[p] = t => proc[p] = t,
         overruns'[t] = 0 => overruns[t] = 0,
         \/ place'[t] = place[t]
         \/ place'[t] # "new" /\ overruns'[t] # 0
         \/ place'[t] # "new" /\ Unheld(t)'
         \/ place'[t] = "unacked"
         \/ place[t] = "new"
  PROVE  /\ place'[t] = "new" => Unheld(t)'
         /\ overruns'[t] = 0 => /\ OneHolder(t)'
                                /\ place'[t] # "unacked" => Unheld(t)'
BY DEF HolderInv, Unheld, OneHolder

(* If nobody else holds it, a task a process gives back is held by nobody.  *)
LEMMA GivenBack ==
  ASSUME TypeOK, HolderInv, NEW p \in Processes, NEW t \in Tasks, proc[p] = t,
         proc' = [proc EXCEPT ![p] = NoTask], UNCHANGED reserved,
         overruns[t] = 0
  PROVE  Unheld(t)'
<1>1. OneHolder(t)
  BY DEF HolderInv
<1>2. \A w \in Workers : t \notin reserved'[w]
  BY <1>1 DEF OneHolder
<1>3. \A q \in Processes : proc'[q] # t
  BY <1>1, QueueAssumption DEF OneHolder, TypeOK
<1>. QED  BY <1>2, <1>3 DEF Unheld

LEMMA HolderInit == Init => HolderInv
BY QueueAssumption DEF Init, HolderInv, Unheld, OneHolder

LEMMA HolderStep == TypeOK /\ HolderInv /\ [Next]_vars => HolderInv'
<1>. SUFFICES ASSUME TypeOK, HolderInv, [Next]_vars, NEW u \in Tasks
              PROVE  /\ place'[u] = "new" => Unheld(u)'
                     /\ overruns'[u] = 0 => /\ OneHolder(u)'
                                            /\ place'[u] # "unacked" => Unheld(u)'
  BY DEF HolderInv
<1>. DEFINE Goal == /\ place'[u] = "new" => Unheld(u)'
                    /\ overruns'[u] = 0 => /\ OneHolder(u)'
                                           /\ place'[u] # "unacked" => Unheld(u)'
<1>1. ASSUME NEW t \in Tasks, Publish(t)  PROVE Goal
  <2>1. /\ UNCHANGED <<reserved, proc, overruns>>
        /\ place'[u] = place[u] \/ place[u] = "new"
    BY <1>1 DEF Publish, workerVars, historyVars, TypeOK
  <2>. QED  BY <2>1, HoldersShrink
<1>2. ASSUME NEW w \in Workers, NEW t \in Tasks, Deliver(w, t)  PROVE Goal
  <2>1. /\ place[t] = "queued"
        /\ place' = [place EXCEPT ![t] = "unacked"]
        /\ reserved' = [reserved EXCEPT ![w] = @ \cup {t}]
        /\ UNCHANGED <<proc, overruns>>
    BY <1>2, DeliverReserves DEF historyVars
  <2>2. CASE u = t
    <3>1. place'[u] = "unacked"
      BY <2>1, <2>2 DEF TypeOK
    <3>2. ASSUME overruns'[u] = 0  PROVE OneHolder(u)'
      <4>1. Unheld(u)
        BY <2>1, <2>2, <3>2 DEF HolderInv
      <4>2. \A v \in Workers : u \in reserved'[v] => v = w
        BY <2>1, <2>2, <4>1 DEF Unheld, TypeOK
      <4>3. \A p \in Processes : proc'[p] # u
        BY <2>1, <4>1 DEF Unheld
      <4>. QED  BY <4>2, <4>3 DEF OneHolder
    <3>. QED  BY <3>1, <3>2
  <2>3. CASE u # t
    <3>1. /\ place'[u] = place[u]
          /\ \A v \in Workers : u \in reserved'[v] => u \in reserved[v]
      BY <2>1, <2>3 DEF TypeOK
    <3>. QED  BY <2>1, <3>1, HoldersShrink
  <2>. QED  BY <2>2, <2>3
<1>3. ASSUME NEW p \in Processes, NEW t \in Tasks, Start(p, t)  PROVE Goal
  <2>1. /\ proc[p] = NoTask
        /\ t \in reserved[HomeOf[p]]
        /\ reserved' = [reserved EXCEPT ![HomeOf[p]] = @ \ {t}]
        /\ proc' = [proc EXCEPT ![p] = t]
        /\ UNCHANGED <<place, overruns>>
        /\ HomeOf[p] \in Workers
    BY <1>3, QueueAssumption DEF Start, brokerVars, historyVars
  <2>2. CASE u = t
    <3>1. ~Unheld(u)
      BY <2>1, <2>2 DEF Unheld
    <3>2. place'[u] # "new" /\ (overruns'[u] = 0 => place'[u] = "unacked")
      BY <2>1, <3>1 DEF HolderInv
    <3>3. ASSUME overruns'[u] = 0  PROVE OneHolder(u)'
      <4>1. OneHolder(u)
        BY <2>1, <3>3 DEF HolderInv
      <4>2. \A v \in Workers : u \notin reserved'[v]
        BY <2>1, <2>2, <4>1 DEF OneHolder, TypeOK
      <4>3. \A q \in Processes : proc'[q] = u => q = p
        BY <2>1, <2>2, <4>1 DEF OneHolder, TypeOK
      <4>. QED  BY <4>2, <4>3 DEF OneHolder
    <3>. QED  BY <3>2, <3>3
  <2>3. CASE u # t
    <3>1. /\ place'[u] = place[u]
          /\ \A v \in Workers : u \in reserved'[v] => u \in reserved[v]
          /\ \A q \in Processes : proc'[q] = u => proc[q] = u
      BY <2>1, <2>3 DEF TypeOK
    <3>. QED  BY <2>1, <3>1, HoldersShrink
  <2>. QED  BY <2>2, <2>3
<1>4. ASSUME NEW p \in Processes, NEW outcome \in Outcomes, Return(p, outcome)
      PROVE  Goal
  BY <1>4, HoldersShrink DEF Return, brokerVars
<1>5. ASSUME NEW p \in Processes, Ack(p) \/ ChildKilled(p)  PROVE Goal
  <2>1. /\ proc' = [proc EXCEPT ![p] = NoTask]
        /\ UNCHANGED <<reserved, overruns>>
        /\ place'[u] # place[u] => /\ u = proc[p]
                                   /\ place'[u] \in {"acked", "queued"}
    BY <1>5 DEF Ack, ChildKilled, historyVars, TypeOK
  <2>2. NoTask # u
    BY QueueAssumption
  <2>3. \A q \in Processes : proc'[q] = u => proc[q] = u
    BY <2>1, <2>2 DEF TypeOK
  <2>4. CASE place'[u] = place[u]
    BY <2>1, <2>3, <2>4, HoldersShrink
  <2>5. CASE place'[u] # place[u] /\ overruns[u] # 0
    BY <2>1, <2>3, <2>5, HoldersShrink
  <2>6. CASE place'[u] # place[u] /\ overruns[u] = 0
    <3>1. Unheld(u)'
      BY <2>1, <2>6, GivenBack
    <3>. QED  BY <2>1, <2>3, <2>6, <3>1, HoldersShrink
  <2>. QED  BY <2>4, <2>5, <2>6
<1>6. ASSUME NEW w \in Workers, ContainerDies(w)  PROVE Goal
  <2>1. /\ UNCHANGED <<place, overruns>>
        /\ \A v \in Workers : u \in reserved'[v] => u \in reserved[v]
        /\ \A q \in Processes : proc'[q] = u => proc[q] = u
    BY <1>6, QueueAssumption DEF ContainerDies, brokerVars, TypeOK
  <2>. QED  BY <2>1, HoldersShrink
<1>7. ASSUME NEW t \in Tasks, RestoreLost(t)  PROVE Goal
  <2>1. /\ UNCHANGED <<reserved, proc, overruns>>
        /\ place'[u] = place[u] \/ (place'[u] # "new" /\ Unheld(u))
    BY <1>7, HoldsNothing DEF RestoreLost, workerVars, historyVars, TypeOK
  <2>2. Unheld(u)' <=> Unheld(u)
    BY <2>1 DEF Unheld
  <2>. QED  BY <2>1, <2>2, HoldersShrink
<1>8. ASSUME NEW t \in Tasks, RestoreOverrun(t)  PROVE Goal
  <2>1. /\ UNCHANGED <<reserved, proc>>
        /\ overruns'[u] = 0 => overruns[u] = 0
        /\ place'[u] = place[u] \/ (place'[u] # "new" /\ overruns'[u] # 0)
    BY <1>8 DEF RestoreOverrun, workerVars, TypeOK
  <2>. QED  BY <2>1, HoldersShrink
<1>9. CASE UNCHANGED vars
  BY <1>9, HoldersShrink DEF vars, brokerVars, workerVars, historyVars
<1>. QED
  BY <1>1, <1>2, <1>3, <1>4, <1>5, <1>6, <1>7, <1>8, <1>9 DEF Next, End

-----------------------------------------------------------------------------
(* How often a task is delivered. *)

(* A step that delivers nothing preserves DeliveryInv if a message that is  *)
(* to be delivered after it was so before, or has got a cause.              *)
LEMMA CausesCover ==
  ASSUME TypeOK, TypeOK', DeliveryInv, NEW t \in Tasks,
         deliveries'[t] = deliveries[t],
         losses'[t] >= losses[t], overruns'[t] >= overruns[t],
         ToCome(t)' => \/ ToCome(t)
                       \/ losses'[t] + overruns'[t] > losses[t] + overruns[t]
  PROVE  /\ deliveries'[t] <= 1 + losses'[t] + overruns'[t]
         /\ ToCome(t)' => deliveries'[t] <= losses'[t] + overruns'[t]
<1>1. /\ deliveries[t] \in Nat /\ losses[t] \in Nat /\ overruns[t] \in Nat
      /\ losses'[t] \in Nat /\ overruns'[t] \in Nat
  BY DEF TypeOK
<1>2. /\ deliveries[t] <= 1 + losses[t] + overruns[t]
      /\ ToCome(t) => deliveries[t] <= losses[t] + overruns[t]
  BY DEF DeliveryInv
<1>. HIDE DEF ToCome
<1>. QED  BY <1>1, <1>2

LEMMA DeliveryInit == Init => DeliveryInv
BY DEF Init, DeliveryInv, ToCome

LEMMA DeliveryStep ==
  TypeOK /\ HolderInv /\ DeliveryInv /\ [Next]_vars => DeliveryInv'
<1>. SUFFICES ASSUME TypeOK, HolderInv, DeliveryInv, [Next]_vars, NEW u \in Tasks
              PROVE  /\ deliveries'[u] <= 1 + losses'[u] + overruns'[u]
                     /\ ToCome(u)' => deliveries'[u] <= losses'[u] + overruns'[u]
  BY DEF DeliveryInv
<1>. DEFINE Goal == /\ deliveries'[u] <= 1 + losses'[u] + overruns'[u]
                    /\ ToCome(u)' => deliveries'[u] <= losses'[u] + overruns'[u]
<1>. TypeOK'
  BY TypeStep
<1>1. deliveries[u] \in Nat /\ losses[u] \in Nat /\ overruns[u] \in Nat
  BY DEF TypeOK
<1>2. ASSUME NEW t \in Tasks, Publish(t)  PROVE Goal
  <2>1. /\ UNCHANGED <<deliveries, losses, overruns, reserved, proc>>
        /\ place'[u] = place[u] \/ place[u] = "new"
    BY <1>2 DEF Publish, workerVars, historyVars, TypeOK
  <2>2. ToCome(u)' => ToCome(u)
    BY <2>1 DEF ToCome, Unheld
  <2>. QED  BY <1>1, <2>1, <2>2, CausesCover
<1>3. ASSUME NEW w \in Workers, NEW t \in Tasks, Deliver(w, t)  PROVE Goal
  <2>1. /\ place[t] = "queued"
        /\ deliveries' = [deliveries EXCEPT ![t] = @ + 1]
        /\ place' = [place EXCEPT ![t] = "unacked"]
        /\ reserved' = [reserved EXCEPT ![w] = @ \cup {t}]
        /\ UNCHANGED <<proc, losses, overruns>>
    BY <1>3, DeliverReserves DEF historyVars
  <2>2. CASE u = t
    <3>1. deliveries[u] <= losses[u] + overruns[u]
      BY <2>1, <2>2 DEF DeliveryInv, ToCome
    <3>2. deliveries'[u] = deliveries[u] + 1
      BY <2>1, <2>2 DEF TypeOK
    <3>3. place'[u] = "unacked" /\ u \in reserved'[w]
      BY <2>1, <2>2 DEF TypeOK
    <3>4. ~ToCome(u)'
      BY <3>3 DEF ToCome, Unheld
    <3>. QED  BY <1>1, <2>1, <3>1, <3>2, <3>4
  <2>3. CASE u # t
    <3>1. deliveries'[u] = deliveries[u] /\ place'[u] = place[u]
      BY <2>1, <2>3 DEF TypeOK
    <3>2. \A v \in Workers : u \in reserved'[v] <=> u \in reserved[v]
      BY <2>1, <2>3 DEF TypeOK
    <3>3. ToCome(u)' => ToCome(u)
      BY <2>1, <3>1, <3>2 DEF ToCome, Unheld
    <3>. QED  BY <1>1, <2>1, <3>1, <3>3, CausesCover
  <2>. QED  BY <2>2, <2>3
<1>4. ASSUME NEW p \in Processes, NEW t \in Tasks, Start(p, t)  PROVE Goal
  <2>1. /\ proc[p] = NoTask
        /\ reserved' = [reserved EXCEPT ![HomeOf[p]] = @ \ {t}]
        /\ proc' = [proc EXCEPT ![p] = t]
        /\ UNCHANGED <<place, deliveries, losses, overruns>>
        /\ HomeOf[p] \in Workers
    BY <1>4, QueueAssumption DEF Start, brokerVars, historyVars
  <2>2. Unheld(u)' => Unheld(u)
    <3>1. proc'[p] = t
      BY <2>1 DEF TypeOK
    <3>2. ASSUME Unheld(u)'  PROVE  u # t
      BY <3>1, <3>2 DEF Unheld
    <3>3. ASSUME u # t, NEW v \in Workers  PROVE  u \in reserved[v] => u \in reserved'[v]
      BY <2>1, <3>3 DEF TypeOK
    <3>4. ASSUME NEW q \in Processes  PROVE  proc[q] = u => proc'[q] = u
      BY <2>1, QueueAssumption DEF TypeOK
    <3>. QED  BY <3>2, <3>3, <3>4 DEF Unheld
  <2>3. ToCome(u)' => ToCome(u)
    BY <2>1, <2>2 DEF ToCome
  <2>. QED  BY <1>1, <2>1, <2>3, CausesCover
<1>5. ASSUME NEW p \in Processes, NEW outcome \in Outcomes, Return(p, outcome)
      PROVE  Goal
  <2>1. UNCHANGED <<place, deliveries, losses, overruns, reserved, proc>>
    BY <1>5 DEF Return, brokerVars
  <2>2. ToCome(u)' => ToCome(u)
    BY <2>1 DEF ToCome, Unheld
  <2>. QED  BY <1>1, <2>1, <2>2, CausesCover
<1>6. ASSUME NEW p \in Processes, Ack(p)  PROVE Goal
  <2>1. /\ UNCHANGED <<deliveries, losses, overruns, reserved>>
        /\ proc' = [proc EXCEPT ![p] = NoTask]
        /\ place'[proc[p]] # "unacked"
        /\ place'[u] = place[u] \/ place'[u] = "acked"
    BY <1>6, QueueAssumption DEF Ack, historyVars, TypeOK
  <2>2. CASE u = proc[p]
    BY <1>1, <2>1, <2>2, CausesCover DEF ToCome
  <2>3. CASE u # proc[p]
    <3>1. \A q \in Processes : proc[q] = u => proc'[q] = u
      BY <2>1, <2>3 DEF TypeOK
    <3>2. ToCome(u)' => ToCome(u)
      BY <2>1, <3>1 DEF ToCome, Unheld
    <3>. QED  BY <1>1, <2>1, <3>2, CausesCover
  <2>. QED  BY <2>2, <2>3
<1>7. ASSUME NEW p \in Processes, ChildKilled(p)  PROVE Goal
  <2>1. /\ UNCHANGED <<deliveries, overruns, reserved>>
        /\ proc' = [proc EXCEPT ![p] = NoTask]
        /\ losses' = [losses EXCEPT ![proc[p]] = @ + 1]
        /\ u # proc[p] => place'[u] = place[u]
    BY <1>7 DEF ChildKilled, TypeOK
  <2>2. CASE u = proc[p]
    <3>1. losses'[u] = losses[u] + 1
      BY <2>1, <2>2 DEF TypeOK
    <3>. QED  BY <1>1, <2>1, <3>1, CausesCover
  <2>3. CASE u # proc[p]
    <3>1. \A q \in Processes : proc[q] = u => proc'[q] = u
      BY <2>1, <2>3 DEF TypeOK
    <3>2. losses'[u] = losses[u]
      BY <2>1, <2>3 DEF TypeOK
    <3>3. ToCome(u)' => ToCome(u)
      BY <2>1, <2>3, <3>1 DEF ToCome, Unheld
    <3>. QED  BY <1>1, <2>1, <3>2, <3>3, CausesCover
  <2>. QED  BY <2>2, <2>3
<1>8. ASSUME NEW w \in Workers, ContainerDies(w)  PROVE Goal
  <2>1. /\ UNCHANGED <<place, deliveries, overruns>>
        /\ losses'[u] = IF Holds(w, u) THEN losses[u] + 1 ELSE losses[u]
    BY <1>8 DEF ContainerDies, brokerVars
  <2>2. CASE Holds(w, u)
    BY <1>1, <2>1, <2>2, CausesCover
  <2>3. CASE ~Holds(w, u)
    <3>1. \A v \in Workers : u \in reserved[v] => u \in reserved'[v]
      BY <1>8, <2>3 DEF ContainerDies, Holds, TypeOK
    <3>2. \A q \in Processes : proc[q] = u => proc'[q] = u
      BY <1>8, <2>3 DEF ContainerDies, Holds, ProcessesOf
    <3>3. ToCome(u)' => ToCome(u)
      BY <2>1, <3>1, <3>2 DEF ToCome, Unheld
    <3>. QED  BY <1>1, <2>1, <2>3, <3>3, CausesCover
  <2>. QED  BY <2>2, <2>3
<1>9. ASSUME NEW t \in Tasks, RestoreLost(t)  PROVE Goal
  <2>1. /\ UNCHANGED <<deliveries, losses, overruns, reserved, proc>>
        /\ place'[u] = place[u] \/ (place[u] = "unacked" /\ Unheld(u))
    BY <1>9, HoldsNothing DEF RestoreLost, workerVars, historyVars, TypeOK
  <2>2. ToCome(u)' => ToCome(u)
    BY <2>1 DEF ToCome, Unheld
  <2>. QED  BY <1>1, <2>1, <2>2, CausesCover
<1>10. ASSUME NEW t \in Tasks, RestoreOverrun(t)  PROVE Goal
  <2>1. /\ UNCHANGED <<deliveries, losses, reserved, proc>>
        /\ overruns' = [overruns EXCEPT ![t] = @ + 1]
        /\ u # t => place'[u] = place[u]
    BY <1>10 DEF RestoreOverrun, workerVars, TypeOK
  <2>2. CASE u = t
    <3>1. overruns'[u] = overruns[u] + 1
      BY <2>1, <2>2 DEF TypeOK
    <3>. QED  BY <1>1, <2>1, <3>1, CausesCover
  <2>3. CASE u # t
    <3>1. overruns'[u] = overruns[u]
      BY <2>1, <2>3 DEF TypeOK
    <3>2. ToCome(u)' => ToCome(u)
      BY <2>1, <2>3 DEF ToCome, Unheld
    <3>. QED  BY <1>1, <2>1, <3>1, <3>2, CausesCover
  <2>. QED  BY <2>2, <2>3
<1>11. CASE UNCHANGED vars
  <2>1. UNCHANGED <<place, deliveries, losses, overruns, reserved, proc>>
    BY <1>11 DEF vars, brokerVars, workerVars, historyVars
  <2>2. ToCome(u)' => ToCome(u)
    BY <2>1 DEF ToCome, Unheld
  <2>. QED  BY <1>1, <2>1, <2>2, CausesCover
<1>. QED
  BY <1>2, <1>3, <1>4, <1>5, <1>6, <1>7, <1>8, <1>9, <1>10, <1>11 DEF Next, End

-----------------------------------------------------------------------------
(* What is known of the result. *)

Ends(r) == r \in {"success", "failure"}

(* The two halves of ResultInv, for one task and one process. *)
SettledResult(t) ==
  t \in Tasks /\ place[t] = "acked" /\ overruns[t] = 0 => Ends(result[t])

ReturnedResult(p) ==
  p \in returned => /\ proc[p] \in ended
                    /\ overruns[proc[p]] = 0 => Ends(result[proc[p]])

LEMMA ResultParts ==
  ResultInv <=> /\ \A t \in Tasks : SettledResult(t)
                /\ \A p \in returned : ReturnedResult(p)
BY DEF ResultInv, SettledHasResult, SettledResult, ReturnedResult, Ends

LEMMA ResultInit == Init => ResultInv
BY DEF Init, ResultInv, SettledHasResult

LEMMA ResultStep ==
  TypeOK /\ HolderInv /\ ResultInv /\ [Next]_vars => ResultInv'
<1>. SUFFICES ASSUME TypeOK, HolderInv, ResultInv, [Next]_vars  PROVE ResultInv'
  OBVIOUS
<1>1. returned' \subseteq Processes
  BY TypeStep DEF TypeOK
<1>. SUFFICES ASSUME NEW u, NEW q
              PROVE  SettledResult(u)' /\ ReturnedResult(q)'
  BY <1>1 DEF ResultInv, SettledHasResult, SettledResult, ReturnedResult, Ends
<1>2. /\ SettledResult(u)
      /\ ReturnedResult(q)
      /\ q \in returned => q \in Processes /\ proc[q] \in Tasks
      /\ NoTask \notin Tasks
  <2>1. SettledResult(u)
    BY ResultParts DEF SettledResult
  <2>2. ReturnedResult(q)
    BY ResultParts DEF ReturnedResult
  <2>. QED  BY <2>1, <2>2, QueueAssumption DEF TypeOK, ReturnedResult
<1>. DEFINE Goal == SettledResult(u)' /\ ReturnedResult(q)'
<1>3. ASSUME UNCHANGED <<result, overruns>>,
             u \in Tasks /\ place'[u] = "acked" => place[u] = "acked",
             q \in returned' => /\ q \in returned /\ proc'[q] = proc[q]
                                /\ ended \subseteq ended'
      PROVE  Goal
  BY <1>2, <1>3 DEF SettledResult, ReturnedResult
<1>4. ASSUME NEW t \in Tasks, Publish(t) \/ RestoreLost(t)  PROVE Goal
  BY <1>3, <1>4 DEF Publish, RestoreLost, workerVars, historyVars, TypeOK
<1>5. ASSUME NEW w \in Workers, NEW t \in Tasks, Deliver(w, t)  PROVE Goal
  <2>1. /\ UNCHANGED <<proc, returned, result, overruns, ended>>
        /\ u \in Tasks /\ place'[u] = "acked" => place[u] = "acked"
    BY <1>5, DeliverReserves DEF historyVars, TypeOK
  <2>. QED  BY <1>3, <2>1
<1>6. ASSUME NEW p \in Processes, NEW t \in Tasks, Start(p, t)  PROVE Goal
  <2>1. /\ proc[p] = NoTask
        /\ t \in reserved[HomeOf[p]]
        /\ HomeOf[p] \in Workers
        /\ proc' = [proc EXCEPT ![p] = t]
        /\ \A v \in Tasks \ {t} : result'[v] = result[v]
        /\ UNCHANGED <<place, returned, overruns, ended>>
    BY <1>6, QueueAssumption DEF Start, brokerVars, historyVars, TypeOK
  <2>2. overruns[t] = 0 => /\ place[t] = "unacked"
                           /\ q \in returned => proc[q] # t
    BY <1>2, <2>1 DEF HolderInv, OneHolder, Unheld
  <2>3. SettledResult(u)'
    BY <1>2, <2>1, <2>2 DEF SettledResult
  <2>4. q \in returned => q # p
    BY <1>2, <2>1
  <2>5. q \in returned => proc'[q] = proc[q]
    BY <2>1, <2>4 DEF TypeOK
  <2>6. ReturnedResult(q)'
    BY <1>2, <2>1, <2>2, <2>5 DEF ReturnedResult
  <2>. QED  BY <2>3, <2>6
<1>7. ASSUME NEW p \in Processes, NEW outcome \in Outcomes, Return(p, outcome)
      PROVE  Goal
  <2>1. /\ proc[p] \in Tasks
        /\ returned' = returned \cup {p}
        /\ ended' = ended \cup {proc[p]}
        /\ Ends(result'[proc[p]])
        /\ \A v \in Tasks : v # proc[p] => result'[v] = result[v]
        /\ UNCHANGED <<place, proc, overruns>>
    BY <1>7 DEF Return, brokerVars, Outcomes, Ends, TypeOK
  <2>2. SettledResult(u)'
    BY <1>2, <2>1 DEF SettledResult
  <2>3. ReturnedResult(q)'
    BY <1>2, <2>1 DEF ReturnedResult
  <2>. QED  BY <2>2, <2>3
<1>8. ASSUME NEW p \in Processes, Ack(p)  PROVE Goal
  <2>1. /\ p \in returned
        /\ proc' = [proc EXCEPT ![p] = NoTask]
        /\ returned' = returned \ {p}
        /\ UNCHANGED <<result, overruns, ended>>
        /\ u \in Tasks /\ place'[u] = "acked" => place[u] = "acked" \/ proc[p] = u
    BY <1>8 DEF Ack, historyVars, TypeOK
  <2>2. ReturnedResult(p)
    BY <2>1, ResultParts
  <2>3. SettledResult(u)'
    BY <1>2, <2>1, <2>2 DEF SettledResult, ReturnedResult
  <2>4. q \in returned' => q \in returned /\ proc'[q] = proc[q]
    BY <2>1 DEF TypeOK
  <2>5. ReturnedResult(q)'
    BY <1>2, <2>1, <2>4 DEF ReturnedResult
  <2>. QED  BY <2>3, <2>5
<1>9. ASSUME NEW p \in Processes, ChildKilled(p)  PROVE Goal
  <2>1. /\ UNCHANGED <<result, overruns, ended>>
        /\ u \in Tasks /\ place'[u] = "acked" => place[u] = "acked"
        /\ q \in returned' => q \in returned /\ proc'[q] = proc[q]
    BY <1>9 DEF ChildKilled, TypeOK
  <2>. QED  BY <1>3, <2>1
<1>10. ASSUME NEW w \in Workers, ContainerDies(w)  PROVE Goal
  <2>1. /\ UNCHANGED <<place, result, overruns, ended>>
        /\ q \in returned' => q \in returned /\ proc'[q] = proc[q]
    BY <1>2, <1>10 DEF ContainerDies, brokerVars, ProcessesOf
  <2>. QED  BY <1>3, <2>1
<1>11. ASSUME NEW t \in Tasks, RestoreOverrun(t)  PROVE Goal
  <2>1. /\ UNCHANGED <<proc, returned, result, ended>>
        /\ \A v \in Tasks : overruns'[v] = 0 => overruns[v] = 0
        /\ u \in Tasks /\ place'[u] = "acked" => place[u] = "acked"
    BY <1>11 DEF RestoreOverrun, workerVars, TypeOK
  <2>. QED  BY <1>2, <2>1 DEF SettledResult, ReturnedResult
<1>12. CASE UNCHANGED vars
  BY <1>3, <1>12 DEF vars, brokerVars, workerVars, historyVars
<1>. QED
  BY <1>4, <1>5, <1>6, <1>7, <1>8, <1>9, <1>10, <1>11, <1>12 DEF Next, End

-----------------------------------------------------------------------------
(* What a worker may take. *)

(* Deliver asks for room: with what it adds, no more tasks are reserved     *)
(* than processes are idle.                                                 *)
LEMMA RoomForOne ==
  ASSUME TypeOK, NEW w \in Workers, NEW t \in Tasks, Unsettled(w) < Prefetch(w)
  PROVE  Cardinality(reserved[w] \cup {t}) <= Cardinality(Idle(w))
<1>. DEFINE P == ProcessesOf(w)
            I == Idle(w)
            R == reserved[w]
<1>1. IsFiniteSet(P) /\ I \subseteq P
  BY QueueAssumption, FS_Subset DEF ProcessesOf, Idle
<1>2. IsFiniteSet(R)
  BY QueueAssumption, FS_Subset DEF TypeOK
<1>3. /\ IsFiniteSet(I)
      /\ Cardinality(P \ I) = Cardinality(P) - Cardinality(I)
  <2>1. P \cap I = I
    BY <1>1
  <2>2. IsFiniteSet(I)
    BY <1>1, FS_Subset
  <2>3. Cardinality(P \ I) = Cardinality(P) - Cardinality(P \cap I)
    BY <1>1, FS_Difference
  <2>. QED  BY <2>1, <2>2, <2>3
<1>4. Cardinality(R) + Cardinality(P \ I) < Cardinality(P)
  <2>1. Unsettled(w) < 1 * Cardinality(P)
    BY DEF Prefetch
  <2>2. Cardinality(P) \in Nat
    BY <1>1, FS_CardinalityType
  <2>. QED  BY <2>1, <2>2 DEF Unsettled
<1>5. Cardinality(R \cup {t}) \in {Cardinality(R), Cardinality(R) + 1}
  BY <1>2, FS_AddElement
<1>6. Cardinality(P) \in Nat /\ Cardinality(I) \in Nat /\ Cardinality(R) \in Nat
  BY <1>1, <1>2, <1>3, FS_CardinalityType
<1>. HIDE DEF P, I, R
<1>7. Cardinality(R \cup {t}) <= Cardinality(I)
  BY <1>3, <1>4, <1>5, <1>6
<1>. QED  BY <1>7 DEF I, R

(* The processes of a worker, and what it has reserved, are finitely many. *)
LEMMA WorkersFinite ==
  ASSUME TypeOK, NEW w \in Workers
  PROVE  /\ IsFiniteSet(reserved[w]) /\ IsFiniteSet(Idle(w))
         /\ Cardinality(reserved[w]) \in Nat /\ Cardinality(Idle(w)) \in Nat
<1>1. reserved[w] \subseteq Tasks /\ Idle(w) \subseteq Processes
  BY DEF TypeOK, Idle, ProcessesOf
<1>. QED  BY <1>1, QueueAssumption, FS_Subset, FS_CardinalityType

(* A worker that reserves no more, and has no fewer idle processes. *)
LEMMA RoomKept ==
  ASSUME TypeOK, TypeOK', NEW w \in Workers,
         reserved'[w] \subseteq reserved[w], Idle(w) \subseteq Idle(w)',
         Cardinality(reserved[w]) <= Cardinality(Idle(w))
  PROVE  Cardinality(reserved'[w]) <= Cardinality(Idle(w)')
<1>1. /\ IsFiniteSet(reserved[w]) /\ IsFiniteSet(Idle(w)')
      /\ Cardinality(reserved[w]) \in Nat /\ Cardinality(Idle(w)) \in Nat
      /\ Cardinality(reserved'[w]) \in Nat /\ Cardinality(Idle(w)') \in Nat
  <2>1. IsFiniteSet(Idle(w)') /\ IsFiniteSet(reserved'[w])
    <3>1. reserved'[w] \subseteq Tasks /\ Idle(w)' \subseteq Processes
      BY DEF TypeOK, Idle, ProcessesOf
    <3>. QED  BY <3>1, QueueAssumption, FS_Subset
  <2>. QED  BY <2>1, WorkersFinite, FS_CardinalityType
<1>2. Cardinality(reserved'[w]) <= Cardinality(reserved[w])
  BY <1>1, FS_Subset
<1>3. Cardinality(Idle(w)) <= Cardinality(Idle(w)')
  BY <1>1, FS_Subset
<1>. HIDE DEF Idle
<1>. QED  BY <1>1, <1>2, <1>3

LEMMA RoomInit == Init => OneTaskPerProcess
<1>. SUFFICES ASSUME Init, NEW w \in alive
              PROVE  Cardinality(reserved[w]) <= Cardinality(Idle(w))
  BY DEF OneTaskPerProcess
<1>1. TypeOK /\ w \in Workers
  BY TypeInit DEF Init
<1>2. Cardinality(reserved[w]) = 0
  BY <1>1, FS_EmptySet DEF Init
<1>3. Cardinality(Idle(w)) \in Nat
  BY <1>1, WorkersFinite
<1>. QED  BY <1>2, <1>3

LEMMA RoomStep ==
  TypeOK /\ OneTaskPerProcess /\ [Next]_vars => OneTaskPerProcess'
<1>. SUFFICES ASSUME TypeOK, OneTaskPerProcess, [Next]_vars, NEW v \in alive'
              PROVE  Cardinality(reserved'[v]) <= Cardinality(Idle(v)')
  BY DEF OneTaskPerProcess
<1>. DEFINE Goal == Cardinality(reserved'[v]) <= Cardinality(Idle(v)')
<1>. TypeOK'
  BY TypeStep
<1>1. ASSUME v \in alive, UNCHANGED reserved,
             \A q \in Processes : proc[q] = NoTask => proc'[q] = NoTask
      PROVE  Goal
  <2>1. v \in Workers /\ Cardinality(reserved[v]) <= Cardinality(Idle(v))
    BY <1>1 DEF OneTaskPerProcess, TypeOK
  <2>2. Idle(v) \subseteq Idle(v)'
    BY <1>1 DEF Idle, ProcessesOf
  <2>. QED  BY <1>1, <2>1, <2>2, RoomKept
<1>2. ASSUME NEW t \in Tasks,
             Publish(t) \/ RestoreLost(t) \/ RestoreOverrun(t)
      PROVE  Goal
  BY <1>1, <1>2 DEF Publish, RestoreLost, RestoreOverrun, workerVars
<1>3. ASSUME NEW w \in Workers, NEW t \in Tasks, Deliver(w, t)  PROVE Goal
  <2>1. /\ reserved' = [reserved EXCEPT ![w] = @ \cup {t}]
        /\ UNCHANGED <<proc, alive>>
        /\ Unsettled(w) < Prefetch(w)
        /\ v \in Workers
    BY <1>3, DeliverReserves DEF Deliver, TypeOK
  <2>2. Idle(v)' = Idle(v)
    BY <2>1 DEF Idle
  <2>3. CASE v = w
    BY <2>1, <2>2, <2>3, RoomForOne DEF TypeOK
  <2>4. CASE v # w
    BY <2>1, <2>2, <2>4 DEF OneTaskPerProcess, TypeOK
  <2>. QED  BY <2>3, <2>4
<1>4. ASSUME NEW p \in Processes, NEW t \in Tasks, Start(p, t)  PROVE Goal
  <2>1. /\ proc[p] = NoTask
        /\ t \in reserved[HomeOf[p]]
        /\ reserved' = [reserved EXCEPT ![HomeOf[p]] = @ \ {t}]
        /\ proc' = [proc EXCEPT ![p] = t]
        /\ UNCHANGED alive
        /\ HomeOf[p] \in Workers /\ v \in Workers
    BY <1>4, QueueAssumption DEF Start, TypeOK
  <2>2. Cardinality(reserved[v]) <= Cardinality(Idle(v))
    BY <2>1 DEF OneTaskPerProcess
  <2>3. CASE v = HomeOf[p]
    <3>1. reserved'[v] = reserved[v] \ {t} /\ t \in reserved[v]
      BY <2>1, <2>3 DEF TypeOK
    <3>2. Idle(v)' = Idle(v) \ {p} /\ p \in Idle(v)
      BY <2>1, <2>3, QueueAssumption DEF Idle, ProcessesOf, TypeOK
    <3>3. Cardinality(reserved'[v]) = Cardinality(reserved[v]) - 1
      BY <2>1, <3>1, WorkersFinite, FS_RemoveElement
    <3>4. Cardinality(Idle(v)') = Cardinality(Idle(v)) - 1
      BY <2>1, <3>2, WorkersFinite, FS_RemoveElement
    <3>5. Cardinality(reserved[v]) \in Nat /\ Cardinality(Idle(v)) \in Nat
      BY <2>1, WorkersFinite
    <3>. HIDE DEF Idle
    <3>. QED  BY <2>2, <3>3, <3>4, <3>5
  <2>4. CASE v # HomeOf[p]
    <3>1. reserved'[v] = reserved[v]
      BY <2>1, <2>4 DEF TypeOK
    <3>2. Idle(v)' = Idle(v)
      BY <2>1, <2>4 DEF Idle, ProcessesOf, TypeOK
    <3>. QED  BY <2>2, <3>1, <3>2
  <2>. QED  BY <2>3, <2>4
<1>5. ASSUME NEW p \in Processes,
             Ack(p) \/ ChildKilled(p) \/ \E outcome \in Outcomes : Return(p, outcome)
      PROVE  Goal
  BY <1>1, <1>5 DEF Ack, ChildKilled, Return, TypeOK
<1>6. ASSUME NEW w \in Workers, ContainerDies(w)  PROVE Goal
  <2>1. v \in alive /\ v # w
    BY <1>6 DEF ContainerDies
  <2>2. v \in Workers /\ Cardinality(reserved[v]) <= Cardinality(Idle(v))
    BY <2>1 DEF OneTaskPerProcess, TypeOK
  <2>3. reserved'[v] = reserved[v]
    BY <1>6, <2>1, <2>2 DEF ContainerDies, TypeOK
  <2>4. Idle(v)' = Idle(v)
    BY <1>6, <2>1 DEF ContainerDies, Idle, ProcessesOf
  <2>. QED  BY <2>2, <2>3, <2>4
<1>7. CASE UNCHANGED vars
  BY <1>1, <1>7 DEF vars, workerVars
<1>. QED
  BY <1>2, <1>3, <1>4, <1>5, <1>6, <1>7 DEF Next, End

-----------------------------------------------------------------------------
(* Refinement. *)

LEMMA PromiseInit == Init => Promise!Init
BY DEF Init, Promise!Init

(* A step that ends no run and neither publishes nor forgets a task. *)
LEMMA PromiseStutters ==
  ASSUME UNCHANGED ended,
         \A t \in Tasks : /\ place'[t] = "new" <=> place[t] = "new"
                          /\ place'[t] = "acked" <=> place[t] = "acked"
  PROVE  UNCHANGED Promise!vars
BY DEF Promise!vars

LEMMA PromiseStep == Inv /\ [Next]_vars => [Promise!Next]_(Promise!vars)
<1>. SUFFICES ASSUME Inv, [Next]_vars
              PROVE  Promise!Next \/ UNCHANGED Promise!vars
  OBVIOUS
<1>. TypeOK
  BY DEF Inv
<1>1. ASSUME NEW t \in Tasks, Publish(t)  PROVE Promise!Next
  <2>1. Promise!Accept(t)
    BY <1>1 DEF Publish, historyVars, TypeOK, Promise!Accept
  <2>. QED  BY <2>1 DEF Promise!Next
<1>2. ASSUME NEW w \in Workers, NEW t \in Tasks, Deliver(w, t)
      PROVE  UNCHANGED Promise!vars
  BY <1>2, DeliverReserves, PromiseStutters DEF historyVars, TypeOK
<1>3. ASSUME NEW p \in Processes, NEW t \in Tasks, Start(p, t)
      PROVE  UNCHANGED Promise!vars
  BY <1>3, PromiseStutters DEF Start, brokerVars, historyVars
<1>4. ASSUME NEW p \in Processes, NEW outcome \in Outcomes, Return(p, outcome)
      PROVE  Promise!Next
  <2>1. PICK t \in Tasks : t = proc[p]
    BY <1>4 DEF Return, TypeOK
  <2>2. place[t] # "new"
    BY <2>1 DEF Inv, HolderInv, Unheld
  <2>3. UNCHANGED place /\ ended' = ended \cup {t}
    BY <1>4, <2>1 DEF Return, brokerVars
  <2>4. Promise!Execute(t)
    BY <2>2, <2>3 DEF Promise!Execute
  <2>. QED  BY <2>4 DEF Promise!Next
<1>5. ASSUME NEW p \in Processes, Ack(p)
      PROVE  Promise!Next \/ UNCHANGED Promise!vars
  <2>1. p \in returned /\ proc[p] \in ended /\ ended \subseteq Tasks
    BY <1>5 DEF Ack, Inv, ResultInv, TypeOK
  <2>2. PICK t \in Tasks : t = proc[p]
    BY <2>1
  <2>3. /\ t \in ended
        /\ place' = [place EXCEPT ![t] = IF @ = "unacked" THEN "acked" ELSE @]
        /\ UNCHANGED ended
    BY <1>5, <2>1, <2>2 DEF Ack, historyVars
  <2>4. CASE place[t] = "unacked"
    <3>1. Promise!Settle(t)
      BY <2>3, <2>4 DEF TypeOK, Promise!Settle
    <3>. QED  BY <3>1 DEF Promise!Next
  <2>5. CASE place[t] # "unacked"
    BY <2>3, <2>5, PromiseStutters DEF TypeOK
  <2>. QED  BY <2>4, <2>5
<1>6. ASSUME NEW p \in Processes, ChildKilled(p)  PROVE UNCHANGED Promise!vars
  BY <1>6, PromiseStutters DEF ChildKilled, TypeOK
<1>7. ASSUME NEW w \in Workers, ContainerDies(w)  PROVE UNCHANGED Promise!vars
  BY <1>7, PromiseStutters DEF ContainerDies, brokerVars
<1>8. ASSUME NEW t \in Tasks, RestoreLost(t) \/ RestoreOverrun(t)
      PROVE  UNCHANGED Promise!vars
  BY <1>8, PromiseStutters
  DEF RestoreLost, RestoreOverrun, workerVars, historyVars, TypeOK
<1>9. CASE UNCHANGED vars
  BY <1>9, PromiseStutters DEF vars, brokerVars, historyVars
<1>. QED
  BY <1>1, <1>2, <1>3, <1>4, <1>5, <1>6, <1>7, <1>8, <1>9 DEF Next, End

-----------------------------------------------------------------------------
(* The results. *)

LEMMA Invariant == Spec => []Inv
<1>1. Init => Inv
  BY TypeInit, HolderInit, DeliveryInit, ResultInit DEF Inv
<1>2. Inv /\ [Next]_vars => Inv'
  BY TypeStep, HolderStep, DeliveryStep, ResultStep DEF Inv
<1>. QED  BY <1>1, <1>2, PTL DEF Spec

(* The values of the variables are of their types in every reachable state. *)
THEOREM TypeCorrect == Spec => []TypeOK
BY Invariant, PTL DEF Inv

(* A task is executed again only for a holder that was lost or a run that   *)
(* outlived the visibility timeout, once for each.                          *)
THEOREM RepetitionsHaveCauses == Spec => []DuplicatesExplained
<1>1. Inv => DuplicatesExplained
  BY DEF Inv, DeliveryInv, DuplicatesExplained
<1>. QED  BY Invariant, <1>1, PTL

(* Without such a run no two processes ever execute one task together.      *)
THEOREM OverlapsHaveCauses == Spec => []OverlapsExplained
<1>1. Inv => OverlapsExplained
  <2>. SUFFICES ASSUME Inv, NEW p \in Processes, NEW q \in Processes,
                       proc[p] # NoTask, proc[p] = proc[q]
                PROVE  p = q \/ overruns[proc[p]] > 0
    BY DEF OverlapsExplained
  <2>1. PICK t \in Tasks : t = proc[p]
    BY DEF Inv, TypeOK
  <2>2. overruns[t] \in Nat
    BY DEF Inv, TypeOK
  <2>3. overruns[t] = 0 => p = q
    BY <2>1 DEF Inv, HolderInv, OneHolder
  <2>. QED  BY <2>1, <2>2, <2>3
<1>. QED  BY Invariant, <1>1, PTL

(* No worker ever keeps a task waiting that an idle process of another one  *)
(* could run: it has a process for whatever it has taken.                   *)
THEOREM WorkersTakeWhatTheyRun == Spec => []OneTaskPerProcess
<1>1. TypeOK /\ OneTaskPerProcess /\ [Next]_vars => OneTaskPerProcess'
  BY RoomStep
<1>. QED  BY TypeCorrect, RoomInit, <1>1, PTL DEF Spec

(* What the broker has forgotten has a final result.                        *)
THEOREM SettledTasksHaveResults == Spec => []SettledHasResult
BY Invariant, PTL DEF Inv, ResultInv

(* Every behaviour of the queue is one of AtLeastOnce.                      *)
THEOREM QueueKeepsPromise == Spec => ImplementsAtLeastOnce
BY Invariant, PromiseInit, PromiseStep, PTL
DEF Spec, ImplementsAtLeastOnce, Promise!Spec
=============================================================================
