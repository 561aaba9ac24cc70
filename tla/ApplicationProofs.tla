--------------------------- MODULE ApplicationProofs ---------------------------
(***************************************************************************)
(* Proofs about the application process: its health endpoint and the       *)
(* lifespan that owns its clients.                                         *)
(*                                                                         *)
(* Module HealthCheck, for any requests, any pool and any timeout: a report*)
(* is true of its time, and it comes in bounded time.  The invariant speaks*)
(* of one probe of one request (ProbeInv): a probe that runs is as old as  *)
(* its request; one that has had to wait for a tick has waited for a       *)
(* service that could not be used.                                         *)
(*                                                                         *)
(* Module Lifespan, for any handlers of requests and any number of         *)
(* lifespan cycles.  What a request may rely on is decided by what         *)
(* lifespan() has reached, so the invariant says, phase by phase, which    *)
(* slots hold an open client of the current cycle: the first pos - 1 of    *)
(* StartOrder while starting, all six while serving or draining, the last  *)
(* ones of StopOrder (and storage) while stopping.                         *)
(***************************************************************************)
EXTENDS HealthCheck, Lifespan, FiniteSetTheorems, TLAPS

-----------------------------------------------------------------------------
(* The invariant. *)

UnderWay == {"checkout", "call", "cleanup"}

(* A probe before its end, at most as old as its timer allows. *)
Timely(r, s) ==
  /\ probe[r][s] = "new" => age[r][s] = 0 /\ latency[r] = 0
  /\ probe[r][s] \in UnderWay =>
       /\ handler[r] = "probing" /\ s \in ready
       /\ age[r][s] = latency[r]
  /\ probe[r][s] \in {"checkout", "call"} => age[r][s] <= Timeout
  /\ probe[r][s] = "cleanup" => age[r][s] >= Timeout
  /\ probe[r][s] \in {"checkout", "cleanup"} => s = "database"

(* A probe and what was the case while it ran. *)
Witnessed(r, s) ==
  /\ probe[r][s] = "ok" => s \in ready /\ s \in seenUp[r]
  /\ probe[r][s] \in UnderWay /\ age[r][s] > 0 => s \in trouble[r]
  /\ probe[r][s] = "error" => s \in trouble[r]

ProbeInv == \A r \in Requests, s \in Services : Timely(r, s) /\ Witnessed(r, s)

IdleInv ==
  \A r \in Requests : handler[r] = "idle" => \A s \in Services : probe[r][s] = "new"

HealthInv ==
  /\ TypeOK /\ ProbeInv /\ IdleInv
  /\ LatencyBound /\ HealthyEarned /\ ErrorsExplained

(* The constants that arithmetic needs. *)
LEMMA Numbers ==
  /\ Timeout \in Nat /\ Timeout > 0 /\ Cleanup \in Nat
  /\ Capacity \in Nat /\ MaxFlips \in Nat
  /\ Timeout <= Timeout + Cleanup
BY HealthAssumption

LEMMA InUseCounts ==
  ASSUME TypeOK
  PROVE  InUse \in Nat /\ busy <= InUse
<1>1. IsFiniteSet(Holding)
  BY HealthAssumption, FS_Subset DEF Holding
<1>2. Cardinality(Holding) \in Nat
  BY <1>1, FS_CardinalityType
<1>3. busy \in Nat
  BY Numbers DEF TypeOK
<1>. QED  BY <1>2, <1>3 DEF InUse

(* What Observe records is added to what was recorded. *)
LEMMA Observed ==
  ASSUME TypeOK, Observe, handler' \in [Requests -> {"idle", "probing", "answered"}]
  PROVE  /\ seenUp' \in [Requests -> SUBSET Services]
         /\ trouble' \in [Requests -> SUBSET Services]
         /\ \A r \in Requests : seenUp[r] \subseteq seenUp'[r] /\ trouble[r] \subseteq trouble'[r]
         /\ \A r \in Requests : handler'[r] = "probing" =>
              \A s \in Services :
                /\ net'[s] \in Answering => s \in seenUp'[r]
                /\ s \notin ready' => s \in trouble'[r]
                /\ net'[s] # "up" => s \in trouble'[r]
                /\ s = "database" /\ ~(InUseByOthers(r)' < Capacity) => s \in trouble'[r]
<1>1. /\ seenUp' \in [Requests -> SUBSET Services]
      /\ \A r \in Requests : seenUp[r] \subseteq seenUp'[r]
      /\ \A r \in Requests : handler'[r] = "probing" =>
           \A s \in Services : net'[s] \in Answering => s \in seenUp'[r]
  BY DEF Observe, TypeOK
<1>. DEFINE bad(r) == {s \in Services : ~Usable(r, s)'}
<1>2. trouble' = [r \in Requests |-> IF handler'[r] = "probing"
                                       THEN trouble[r] \cup bad(r) ELSE trouble[r]]
  BY DEF Observe
<1>3. \A r \in Requests : bad(r) \subseteq Services
  OBVIOUS
<1>4. \A r \in Requests, s \in Services :
        (\/ s \notin ready' \/ net'[s] # "up"
         \/ s = "database" /\ ~(InUseByOthers(r)' < Capacity))
          => s \in bad(r)
  BY DEF Usable
<1>. HIDE DEF bad
<1>5. /\ trouble' \in [Requests -> SUBSET Services]
      /\ \A r \in Requests : trouble[r] \subseteq trouble'[r]
      /\ \A r \in Requests : handler'[r] = "probing" => bad(r) \subseteq trouble'[r]
  BY <1>2, <1>3 DEF TypeOK
<1>. QED  BY <1>1, <1>4, <1>5

-----------------------------------------------------------------------------
(* Steps of one probe. *)

Places == {"new", "checkout", "call", "cleanup", "ok", "error"}

(* The probe of s for r goes from one place to another. *)
Goes(r, s, from, to) ==
  /\ handler[r] = "probing" /\ probe[r][s] \in from
  /\ probe' = [probe EXCEPT ![r][s] = to]
  /\ UNCHANGED <<worldVars, handler, age, latency, body>>

LEMMA OneProbe ==
  ASSUME TypeOK, ProbeInv, IdleInv, Observe,
         NEW r \in Requests, NEW s \in Services, NEW to \in Places,
         Goes(r, s, Places, to), Timely(r, s)', Witnessed(r, s)'
  PROVE  TypeOK' /\ ProbeInv' /\ IdleInv'
<1>1. /\ probe' = [probe EXCEPT ![r][s] = to]
      /\ probe \in [Requests -> [Services -> Places]]
      /\ UNCHANGED <<ready, net, flips, busy, handler, age, latency, body>>
  BY DEF Goes, worldVars, TypeOK, Places
<1>2. /\ seenUp' \in [Requests -> SUBSET Services]
      /\ trouble' \in [Requests -> SUBSET Services]
      /\ \A q \in Requests : seenUp[q] \subseteq seenUp'[q] /\ trouble[q] \subseteq trouble'[q]
  BY <1>1, Observed DEF TypeOK
<1>3. TypeOK'
  <2>1. probe' \in [Requests -> [Services -> Places]]
    BY <1>1
  <2>. QED  BY <1>1, <1>2, <2>1 DEF TypeOK, Places
<1>4. \A q \in Requests, v \in Services :
        ~(q = r /\ v = s) => probe'[q][v] = probe[q][v]
  BY <1>1
<1>5. ASSUME NEW q \in Requests, NEW v \in Services, ~(q = r /\ v = s)
      PROVE  Timely(q, v)' /\ Witnessed(q, v)'
  <2>1. Timely(q, v) /\ Witnessed(q, v) /\ probe'[q][v] = probe[q][v]
    BY <1>4, <1>5 DEF ProbeInv
  <2>. QED  BY <1>1, <1>2, <2>1 DEF Timely, Witnessed
<1>6. ProbeInv'
  <2>. SUFFICES ASSUME NEW q \in Requests, NEW v \in Services
                PROVE  Timely(q, v)' /\ Witnessed(q, v)'
    BY DEF ProbeInv
  <2>1. CASE q = r /\ v = s
    BY <2>1
  <2>2. CASE ~(q = r /\ v = s)
    BY <1>5, <2>2
  <2>. QED  BY <2>1, <2>2
<1>7. IdleInv'
  BY <1>1, <1>4 DEF IdleInv, Goes
<1>. QED  BY <1>3, <1>6, <1>7

(* Every step of a probe is one the invariant allows. *)
LEMMA ProbeStep ==
  ASSUME TypeOK, ProbeInv, IdleInv, Observe, NEW r \in Requests, NEW s \in Services,
         \/ StartProbe(r, s) \/ Responds(r, s) \/ Refuses(r, s) \/ Expire(r, s)
         \/ s = "database" /\ (Checkout(r) \/ CleanedUp(r))
  PROVE  /\ TypeOK' /\ ProbeInv' /\ IdleInv'
         /\ UNCHANGED <<handler, latency, body>>
<1>1. Timely(r, s) /\ Witnessed(r, s)
  BY DEF ProbeInv
<1>2. /\ probe \in [Requests -> [Services -> Places]]
      /\ age[r][s] \in Nat /\ latency[r] \in Nat
      /\ handler \in [Requests -> {"idle", "probing", "answered"}]
  <2>1. age[r][s] \in 0..(Timeout + Cleanup) /\ latency[r] \in Nat
    BY DEF TypeOK
  <2>. QED  BY <2>1, Numbers DEF TypeOK, Places
<1>3. ASSUME NEW to \in Places, Goes(r, s, Places, to)
      PROVE  /\ probe'[r][s] = to
             /\ UNCHANGED <<ready, net, handler, age, latency, body>>
             /\ seenUp[r] \subseteq seenUp'[r] /\ trouble[r] \subseteq trouble'[r]
             /\ net[s] \in Answering => s \in seenUp'[r]
             /\ s \notin ready => s \in trouble'[r]
             /\ net[s] # "up" => s \in trouble'[r]
  <2>1. UNCHANGED <<ready, net, handler, age, latency, body>> /\ handler[r] = "probing"
    BY <1>3 DEF Goes, worldVars
  <2>2. probe'[r][s] = to
    BY <1>2, <1>3 DEF Goes
  <2>. QED  BY <1>2, <2>1, <2>2, Observed
<1>4. CASE StartProbe(r, s)
  <2>. DEFINE to == IF s \notin ready \/ net[s] = "full" THEN "error"
                    ELSE IF s = "database" THEN "checkout" ELSE "call"
  <2>1. Goes(r, s, Places, to) /\ to \in Places /\ probe[r][s] = "new" /\ handler[r] = "probing"
    BY <1>2, <1>4 DEF StartProbe, Probing, SetProbe, Goes, Places
  <2>2. age[r][s] = 0 /\ latency[r] = 0
    BY <1>1, <2>1 DEF Timely
  <2>3. Timely(r, s)' /\ Witnessed(r, s)'
    BY <1>3, <2>1, <2>2, Numbers DEF Timely, Witnessed, UnderWay
  <2>4. UNCHANGED <<handler, latency, body>>
    BY <1>4 DEF StartProbe
  <2>. HIDE DEF to
  <2>. QED  BY <2>1, <2>3, <2>4, OneProbe
<1>5. CASE Responds(r, s)
  <2>1. Goes(r, s, Places, "ok") /\ "ok" \in Places /\ probe[r][s] = "call"
    BY <1>5 DEF Responds, Probing, SetProbe, Goes, Places
  <2>2. s \in ready /\ net[s] \in Answering
    BY <1>1, <1>5, <2>1 DEF Responds, Timely, UnderWay
  <2>3. Timely(r, s)' /\ Witnessed(r, s)'
    BY <1>3, <2>1, <2>2 DEF Timely, Witnessed, UnderWay
  <2>4. UNCHANGED <<handler, latency, body>>
    BY <1>5 DEF Responds
  <2>. QED  BY <2>1, <2>3, <2>4, OneProbe
<1>6. CASE Refuses(r, s)
  <2>1. Goes(r, s, Places, "error") /\ "error" \in Places /\ net[s] # "up"
    BY <1>6 DEF Refuses, Probing, SetProbe, Goes, Places
  <2>2. Timely(r, s)' /\ Witnessed(r, s)'
    BY <1>3, <2>1 DEF Timely, Witnessed, UnderWay
  <2>3. UNCHANGED <<handler, latency, body>>
    BY <1>6 DEF Refuses
  <2>. QED  BY <2>1, <2>2, <2>3, OneProbe
<1>7. CASE Expire(r, s)
  <2>. DEFINE to == IF s = "database" /\ probe[r][s] = "call" THEN "cleanup" ELSE "error"
  <2>1. /\ probe[r][s] \in {"checkout", "call"} /\ age[r][s] = Timeout
        /\ handler[r] = "probing" /\ s \in ready /\ age[r][s] = latency[r]
    BY <1>1, <1>7 DEF Expire, Timely, UnderWay
  <2>2. Goes(r, s, Places, to) /\ to \in Places
    BY <1>2, <1>7, <2>1 DEF Expire, SetProbe, Goes, Places
  <2>3. s \in trouble[r]
    BY <1>1, <2>1, Numbers DEF Witnessed, UnderWay
  <2>4. to = "error" \/ (to = "cleanup" /\ s = "database")
    OBVIOUS
  <2>5. UNCHANGED <<handler, latency, body>>
    BY <1>7 DEF Expire
  <2>. HIDE DEF to
  <2>6. Timely(r, s)' /\ Witnessed(r, s)'
    BY <1>3, <2>1, <2>2, <2>3, <2>4, Numbers DEF Timely, Witnessed, UnderWay
  <2>. QED  BY <2>2, <2>5, <2>6, OneProbe
<1>8. CASE s = "database" /\ Checkout(r)
  <2>1. Goes(r, s, Places, "call") /\ "call" \in Places /\ probe[r][s] = "checkout"
    BY <1>8 DEF Checkout, Probing, SetProbe, Goes, Places
  <2>2. Timely(r, s)' /\ Witnessed(r, s)'
    BY <1>1, <1>3, <2>1 DEF Timely, Witnessed, UnderWay
  <2>3. UNCHANGED <<handler, latency, body>>
    BY <1>8 DEF Checkout
  <2>. QED  BY <2>1, <2>2, <2>3, OneProbe
<1>9. CASE s = "database" /\ CleanedUp(r)
  <2>1. Goes(r, s, Places, "error") /\ "error" \in Places /\ probe[r][s] = "cleanup"
    BY <1>9 DEF CleanedUp, Probing, SetProbe, Goes, Places
  <2>2. s \in trouble[r]
    BY <1>1, <1>2, <2>1, Numbers DEF Timely, Witnessed, UnderWay
  <2>3. Timely(r, s)' /\ Witnessed(r, s)'
    BY <1>3, <2>1, <2>2 DEF Timely, Witnessed, UnderWay
  <2>4. UNCHANGED <<handler, latency, body>>
    BY <1>9 DEF CleanedUp
  <2>. QED  BY <2>1, <2>3, <2>4, OneProbe
<1>. QED  BY <1>4, <1>5, <1>6, <1>7, <1>8, <1>9

-----------------------------------------------------------------------------
(* The other steps. *)

(* Without a step of r or its probes, what is recorded for r grows. *)
LEMMA Unmoved ==
  ASSUME ProbeInv, NEW r \in Requests, NEW s \in Services,
         UNCHANGED <<ready, probe, age, latency>>,
         probe[r][s] \in UnderWay => handler'[r] = "probing",
         seenUp[r] \subseteq seenUp'[r], trouble[r] \subseteq trouble'[r]
  PROVE  Timely(r, s)' /\ Witnessed(r, s)'
<1>1. Timely(r, s) /\ Witnessed(r, s)
  BY DEF ProbeInv
<1>. QED  BY <1>1 DEF Timely, Witnessed

LEMMA ReceiveStep ==
  ASSUME HealthInv, Observe, NEW r \in Requests, Receive(r)
  PROVE  TypeOK' /\ ProbeInv' /\ IdleInv' /\ UNCHANGED <<latency, body>>
<1>1. /\ handler[r] = "idle" /\ handler' = [handler EXCEPT ![r] = "probing"]
      /\ UNCHANGED <<ready, net, flips, busy, probe, age, latency, body>>
      /\ handler \in [Requests -> {"idle", "probing", "answered"}]
  BY DEF Receive, worldVars, HealthInv, TypeOK
<1>2. handler' \in [Requests -> {"idle", "probing", "answered"}]
  BY <1>1
<1>3. /\ seenUp' \in [Requests -> SUBSET Services]
      /\ trouble' \in [Requests -> SUBSET Services]
      /\ \A q \in Requests : seenUp[q] \subseteq seenUp'[q] /\ trouble[q] \subseteq trouble'[q]
  BY <1>2, Observed DEF HealthInv
<1>4. TypeOK'
  BY <1>1, <1>2, <1>3 DEF HealthInv, TypeOK
<1>5. \A q \in Requests, s \in Services :
        probe[q][s] \in UnderWay => handler'[q] = "probing"
  BY <1>1 DEF HealthInv, ProbeInv, Timely
<1>6. ProbeInv'
  BY <1>1, <1>3, <1>5, Unmoved DEF HealthInv, ProbeInv
<1>7. IdleInv'
  BY <1>1 DEF HealthInv, IdleInv
<1>. QED  BY <1>1, <1>4, <1>6, <1>7

LEMMA RespondStep ==
  ASSUME HealthInv, Observe, NEW r \in Requests, Respond(r)
  PROVE  /\ TypeOK' /\ ProbeInv' /\ IdleInv' /\ UNCHANGED latency
         /\ HealthyEarned' /\ ErrorsExplained'
<1>1. /\ handler[r] = "probing" /\ handler' = [handler EXCEPT ![r] = "answered"]
      /\ \A s \in Services : probe[r][s] \in {"ok", "error"}
      /\ body' = [body EXCEPT ![r] = [status |-> Overall(r), services |-> probe[r]]]
      /\ UNCHANGED <<ready, net, flips, busy, probe, age, latency>>
      /\ handler \in [Requests -> {"idle", "probing", "answered"}]
  BY DEF Respond, worldVars, HealthInv, TypeOK
<1>2. handler' \in [Requests -> {"idle", "probing", "answered"}]
  BY <1>1
<1>3. /\ seenUp' \in [Requests -> SUBSET Services]
      /\ trouble' \in [Requests -> SUBSET Services]
      /\ \A q \in Requests : seenUp[q] \subseteq seenUp'[q] /\ trouble[q] \subseteq trouble'[q]
  BY <1>2, Observed DEF HealthInv
<1>4. Overall(r) \in {"healthy", "degraded"}
  BY DEF Overall
<1>5. probe[r] \in [Services -> {"none", "ok", "error"}]
  <2>. DEFINE f == probe[r]
  <2>1. f \in [Services -> Places]
    BY DEF HealthInv, TypeOK, Places
  <2>2. \A s \in Services : f[s] \in {"none", "ok", "error"}
    BY <1>1
  <2>. HIDE DEF f
  <2>3. f = [s \in Services |-> f[s]]
    BY <2>1
  <2>4. f \in [Services -> {"none", "ok", "error"}]
    BY <2>2, <2>3
  <2>. QED  BY <2>4 DEF f
<1>6. TypeOK'
  <2>1. body' \in [Requests -> [status   : {"none", "healthy", "degraded"},
                                services : [Services -> {"none", "ok", "error"}]]]
    BY <1>1, <1>4, <1>5 DEF HealthInv, TypeOK
  <2>. QED  BY <1>1, <1>2, <1>3, <2>1 DEF HealthInv, TypeOK
<1>7. \A q \in Requests, s \in Services :
        probe[q][s] \in UnderWay => handler'[q] = "probing"
  BY <1>1 DEF HealthInv, ProbeInv, Timely, UnderWay
<1>8. ProbeInv'
  BY <1>1, <1>3, <1>7, Unmoved DEF HealthInv, ProbeInv
<1>9. IdleInv'
  BY <1>1 DEF HealthInv, IdleInv
<1>10. \A q \in Requests : q # r => body'[q] = body[q]
  BY <1>1 DEF HealthInv, TypeOK
<1>11. body'[r].status = Overall(r) /\ body'[r].services = probe[r]
  BY <1>1 DEF HealthInv, TypeOK
<1>12. HealthyEarned'
  <2>1. ASSUME Overall(r) = "healthy"  PROVE seenUp'[r] = Services /\ ready' = Services
    <3>1. \A s \in Services : probe[r][s] = "ok"
      BY <2>1 DEF Overall
    <3>2. \A s \in Services : s \in ready /\ s \in seenUp[r]
      BY <3>1 DEF HealthInv, ProbeInv, Witnessed
    <3>. QED  BY <1>1, <1>3, <3>2 DEF HealthInv, TypeOK
  <2>2. \A q \in Requests : q # r /\ body'[q].status = "healthy" =>
          seenUp'[q] = Services /\ ready' = Services
    <3>. SUFFICES ASSUME NEW q \in Requests, q # r, body'[q].status = "healthy"
                  PROVE  seenUp'[q] = Services /\ ready' = Services
      OBVIOUS
    <3>1. body[q].status = "healthy"
      BY <1>10
    <3>2. seenUp[q] = Services /\ ready = Services
      BY <3>1 DEF HealthInv, HealthyEarned
    <3>3. seenUp[q] \subseteq seenUp'[q] /\ seenUp'[q] \subseteq Services
      BY <1>3
    <3>. QED  BY <1>1, <3>2, <3>3
  <2>. QED  BY <1>11, <2>1, <2>2 DEF HealthyEarned
<1>13. ErrorsExplained'
  <2>1. \A s \in Services : probe[r][s] = "error" => s \in trouble'[r]
    BY <1>3 DEF HealthInv, ProbeInv, Witnessed
  <2>. QED  BY <1>3, <1>10, <1>11, <2>1 DEF HealthInv, ErrorsExplained
<1>. QED  BY <1>1, <1>6, <1>8, <1>9, <1>12, <1>13

LEMMA WorldStep ==
  ASSUME HealthInv, Observe, World
  PROVE  TypeOK' /\ ProbeInv' /\ IdleInv' /\ UNCHANGED <<latency, body>>
<1>1. /\ UNCHANGED <<ready, handler, probe, age, latency, body>>
  BY DEF World, Flip, OtherTakes, OtherReturns, requestVars
<1>2. /\ seenUp' \in [Requests -> SUBSET Services]
      /\ trouble' \in [Requests -> SUBSET Services]
      /\ \A q \in Requests : seenUp[q] \subseteq seenUp'[q] /\ trouble[q] \subseteq trouble'[q]
  BY <1>1, Observed DEF HealthInv, TypeOK
<1>3. /\ net' \in [Services -> {"up", "down", "hung", "full"}]
      /\ flips' \in 0..MaxFlips /\ busy' \in 0..Capacity
  <2>1. CASE \E s \in Services : \E state \in States(s) : Flip(s, state)
    <3>. PICK s \in Services : \E state \in States(s) : Flip(s, state)
      BY <2>1
    <3>. PICK state \in States(s) : Flip(s, state)
      OBVIOUS
    <3>1. state \in {"up", "down", "hung", "full"}
      BY DEF States
    <3>2. net' \in [Services -> {"up", "down", "hung", "full"}]
      BY <3>1 DEF Flip, HealthInv, TypeOK
    <3>3. flips' \in 0..MaxFlips /\ busy' \in 0..Capacity
      BY Numbers DEF Flip, HealthInv, TypeOK
    <3>. QED  BY <3>2, <3>3
  <2>2. CASE OtherTakes
    <3>1. busy' = busy + 1 /\ InUse < Capacity /\ InUse \in Nat /\ busy <= InUse
      BY <2>2, InUseCounts DEF OtherTakes, HealthInv
    <3>2. busy' \in 0..Capacity
      BY <3>1, Numbers DEF HealthInv, TypeOK
    <3>. QED  BY <2>2, <3>2 DEF OtherTakes, HealthInv, TypeOK
  <2>3. CASE OtherReturns
    BY <2>3, Numbers DEF OtherReturns, HealthInv, TypeOK
  <2>. QED  BY <2>1, <2>2, <2>3 DEF World
<1>4. TypeOK'
  BY <1>1, <1>2, <1>3 DEF HealthInv, TypeOK
<1>5. \A q \in Requests, s \in Services :
        probe[q][s] \in UnderWay => handler'[q] = "probing"
  BY <1>1 DEF HealthInv, ProbeInv, Timely
<1>6. ProbeInv'
  BY <1>1, <1>2, <1>5, Unmoved DEF HealthInv, ProbeInv
<1>7. IdleInv'
  BY <1>1 DEF HealthInv, IdleInv
<1>. QED  BY <1>1, <1>4, <1>6, <1>7

(* Time passes only where nothing is due: a probe under way grows as old as *)
(* its request, within its timer, and what it waits for is out of order.    *)
LEMMA TickStep ==
  ASSUME HealthInv, Observe, Tick
  PROVE  TypeOK' /\ ProbeInv' /\ IdleInv' /\ LatencyBound' /\ UNCHANGED body
<1>1. /\ UNCHANGED <<ready, net, flips, busy, handler, probe, body>>
      /\ \A r \in Requests : ~Urgent(r)
      /\ handler \in [Requests -> {"idle", "probing", "answered"}]
      /\ probe \in [Requests -> [Services -> Places]]
      /\ latency \in [Requests -> Nat]
  BY DEF Tick, worldVars, HealthInv, TypeOK, Places
<1>2. /\ seenUp' \in [Requests -> SUBSET Services]
      /\ trouble' \in [Requests -> SUBSET Services]
      /\ \A r \in Requests : seenUp[r] \subseteq seenUp'[r] /\ trouble[r] \subseteq trouble'[r]
      /\ \A r \in Requests : handler[r] = "probing" =>
           \A s \in Services :
             /\ net[s] # "up" => s \in trouble'[r]
             /\ s = "database" /\ ~(InUseByOthers(r)' < Capacity)
                  => s \in trouble'[r]
  BY <1>1, Observed DEF HealthInv
<1>3. \A r \in Requests :
        probe[r]["database"] = "checkout" => InUseByOthers(r)' = InUse
  <2>. SUFFICES ASSUME NEW r \in Requests, probe[r]["database"] = "checkout"
                PROVE  InUseByOthers(r)' = InUse
    OBVIOUS
  <2>1. Holding \ {r} = Holding
    BY DEF Holding
  <2>2. Holding' = Holding
    BY <1>1 DEF Holding
  <2>. QED  BY <1>1, <2>1, <2>2 DEF InUse, InUseByOthers
<1>4. \A r \in Requests, s \in Services :
        /\ age[r][s] \in Nat /\ latency[r] \in Nat
        /\ age[r][s] <= Timeout + Cleanup
        /\ age'[r][s] = IF Running(r, s) THEN age[r][s] + 1 ELSE age[r][s]
        /\ latency'[r] = IF handler[r] = "probing" THEN latency[r] + 1 ELSE latency[r]
  <2>1. \A r \in Requests, s \in Services : age[r][s] \in 0..(Timeout + Cleanup)
    BY DEF HealthInv, TypeOK
  <2>2. \A r \in Requests, s \in Services :
        /\ age'[r][s] = IF Running(r, s) THEN age[r][s] + 1 ELSE age[r][s]
        /\ latency'[r] = IF handler[r] = "probing" THEN latency[r] + 1 ELSE latency[r]
    BY DEF Tick
  <2>3. \A n \in 0..(Timeout + Cleanup) : n \in Nat /\ n <= Timeout + Cleanup
    BY Numbers
  <2>. QED  BY <1>1, <2>1, <2>2, <2>3
<1>5. ASSUME NEW r \in Requests, NEW s \in Services
      PROVE  /\ probe[r][s] \in UnderWay <=> Running(r, s)
             /\ Running(r, s) => /\ age[r][s] < Timeout + Cleanup
                                 /\ age[r][s] = latency[r]
                                 /\ handler[r] = "probing" /\ s \in ready
                                 /\ s \in trouble'[r]
             /\ probe[r][s] \in {"checkout", "call"} => age[r][s] < Timeout
  <2>1. Timely(r, s) /\ Witnessed(r, s)
    BY DEF HealthInv, ProbeInv
  <2>2. probe[r][s] \in UnderWay <=> Running(r, s)
    BY <2>1 DEF Running, Timely, UnderWay
  <2>3. age[r][s] \in Nat /\ latency[r] \in Nat /\ age[r][s] <= Timeout + Cleanup
    BY <1>4
  <2>4. ASSUME probe[r][s] \in {"checkout", "call"}
        PROVE  age[r][s] < Timeout
    <3>1. age[r][s] # Timeout
      BY <1>1, <2>4 DEF Urgent
    <3>2. age[r][s] <= Timeout
      BY <2>1, <2>4 DEF Timely
    <3>. QED  BY <2>3, <3>1, <3>2, Numbers
  <2>5. ASSUME Running(r, s)
        PROVE  /\ age[r][s] < Timeout + Cleanup /\ s \in trouble'[r]
               /\ age[r][s] = latency[r] /\ handler[r] = "probing" /\ s \in ready
    <3>1. age[r][s] = latency[r] /\ handler[r] = "probing" /\ s \in ready
      BY <2>1, <2>2, <2>5 DEF Timely
    <3>2. CASE probe[r][s] = "call"
      <4>1. net[s] # "up"
        BY <1>1, <3>1, <3>2 DEF Urgent, Probing
      <4>2. age[r][s] < Timeout
        BY <2>4, <3>2
      <4>. QED  BY <1>2, <2>3, <3>1, <4>1, <4>2, Numbers
    <3>3. CASE probe[r][s] = "checkout"
      <4>1. s = "database" /\ ~(InUse < Capacity)
        BY <1>1, <2>1, <3>1, <3>3 DEF Urgent, Probing, Timely
      <4>2. age[r][s] < Timeout
        BY <2>4, <3>3
      <4>3. ~(InUseByOthers(r)' < Capacity)
        BY <1>3, <3>3, <4>1
      <4>4. s \in trouble'[r]
        BY <1>2, <3>1, <4>1, <4>3
      <4>. QED  BY <2>3, <3>1, <4>2, <4>4, Numbers
    <3>4. CASE probe[r][s] = "cleanup"
      <4>1. s = "database" /\ age[r][s] >= Timeout
        BY <2>1, <3>4 DEF Timely
      <4>2. age[r][s] # Timeout + Cleanup
        BY <1>1, <3>1, <3>4, <4>1 DEF Urgent, Probing
      <4>3. s \in trouble[r]
        BY <2>1, <2>3, <3>4, <4>1, Numbers DEF Witnessed, UnderWay
      <4>. QED  BY <1>2, <2>3, <3>1, <4>2, <4>3, Numbers
    <3>. QED  BY <2>2, <2>5, <3>2, <3>3, <3>4 DEF UnderWay
  <2>. QED  BY <2>2, <2>4, <2>5
<1>6. ASSUME NEW r \in Requests, handler[r] = "probing"
      PROVE  /\ \A s \in Services : probe[r][s] # "new"
             /\ \E s \in Services : Running(r, s)
  <2>1. \A s \in Services : probe[r][s] # "new"
    BY <1>1, <1>6 DEF Urgent, Probing, Startable
  <2>2. \E s \in Services : probe[r][s] \notin {"ok", "error"}
    BY <1>1, <1>6 DEF Urgent
  <2>3. \A s \in Services : probe[r][s] \in Places
    BY <1>1
  <2>. QED  BY <1>5, <2>1, <2>2, <2>3 DEF Places, UnderWay
<1>7. ASSUME NEW r \in Requests, NEW s \in Services
      PROVE  /\ age'[r][s] \in 0..(Timeout + Cleanup) /\ latency'[r] \in Nat
             /\ Timely(r, s)' /\ Witnessed(r, s)'
  <2>1. Timely(r, s) /\ Witnessed(r, s)
    BY DEF HealthInv, ProbeInv
  <2>2. probe[r][s] = "new" => handler[r] # "probing"
    BY <1>6
  <2>3. age'[r][s] \in 0..(Timeout + Cleanup) /\ latency'[r] \in Nat
    BY <1>4, <1>5, Numbers
  <2>4. probe[r][s] = "new" => age'[r][s] = 0 /\ latency'[r] = 0
    BY <1>4, <1>5, <2>1, <2>2 DEF Timely, UnderWay
  <2>5. probe[r][s] \in UnderWay =>
          /\ handler[r] = "probing" /\ s \in ready /\ s \in trouble'[r]
          /\ age'[r][s] = age[r][s] + 1 /\ latency'[r] = latency[r] + 1
          /\ age'[r][s] = latency'[r]
    BY <1>4, <1>5
  <2>6. probe[r][s] \in {"checkout", "call"} => age'[r][s] <= Timeout
    BY <1>4, <1>5, Numbers
  <2>7. probe[r][s] = "cleanup" => age'[r][s] >= Timeout
    BY <1>4, <2>1, Numbers DEF Timely
  <2>8. Timely(r, s)'
    BY <1>1, <2>1, <2>4, <2>5, <2>6, <2>7 DEF Timely
  <2>9. Witnessed(r, s)'
    BY <1>1, <1>2, <2>1, <2>5 DEF Witnessed
  <2>. QED  BY <2>3, <2>8, <2>9
<1>8. TypeOK'
  <2>1. age' \in [Requests -> [Services -> 0..(Timeout + Cleanup)]]
    <3>1. age' = [r \in Requests |-> [s \in Services |->
                    IF Running(r, s) THEN age[r][s] + 1 ELSE age[r][s]]]
      BY DEF Tick
    <3>2. \A r \in Requests, s \in Services :
            (IF Running(r, s) THEN age[r][s] + 1 ELSE age[r][s])
              \in 0..(Timeout + Cleanup)
      BY <1>4, <1>7
    <3>. QED  BY <3>1, <3>2
  <2>2. latency' \in [Requests -> Nat]
    BY <1>1 DEF Tick
  <2>. QED  BY <1>1, <1>2, <2>1, <2>2 DEF HealthInv, TypeOK
<1>9. ProbeInv'
  BY <1>7 DEF ProbeInv
<1>10. IdleInv'
  BY <1>1 DEF HealthInv, IdleInv
<1>11. LatencyBound'
  <2>. SUFFICES ASSUME NEW r \in Requests  PROVE latency'[r] <= Timeout + Cleanup
    BY DEF LatencyBound
  <2>1. CASE handler[r] = "probing"
    <3>. PICK s \in Services : Running(r, s)
      BY <1>6, <2>1
    <3>1. /\ age[r][s] < Timeout + Cleanup /\ age[r][s] = latency[r]
          /\ latency'[r] = latency[r] + 1 /\ latency[r] \in Nat
      BY <1>4, <1>5, <2>1
    <3>. QED  BY <3>1, Numbers
  <2>2. CASE handler[r] # "probing"
    <3>1. "database" \in Services
      BY DEF Services
    <3>. QED  BY <1>4, <2>2, <3>1 DEF HealthInv, LatencyBound
  <2>. QED  BY <2>1, <2>2
<1>. QED  BY <1>1, <1>8, <1>9, <1>10, <1>11

(* The reports, and the latencies of others, stay what they were. *)
LEMMA ReportsStay ==
  ASSUME TypeOK, HealthyEarned, ErrorsExplained, Observe,
         handler' \in [Requests -> {"idle", "probing", "answered"}],
         UNCHANGED <<ready, body>>
  PROVE  HealthyEarned' /\ ErrorsExplained'
<1>1. /\ seenUp' \in [Requests -> SUBSET Services]
      /\ \A r \in Requests : seenUp[r] \subseteq seenUp'[r] /\ trouble[r] \subseteq trouble'[r]
  BY Observed
<1>2. HealthyEarned'
  BY <1>1 DEF HealthyEarned
<1>3. ErrorsExplained'
  BY <1>1 DEF ErrorsExplained
<1>. QED  BY <1>2, <1>3

LEMMA HealthInvariance == Spec => []HealthInv
<1>1. Init => HealthInv
  <2>. SUFFICES ASSUME Init  PROVE HealthInv
    OBVIOUS
  <2>1. 0 \in 0..MaxFlips /\ 0 \in 0..Capacity /\ 0 \in 0..(Timeout + Cleanup)
    BY Numbers
  <2>2. net \in [Services -> {"up", "down", "hung", "full"}]
    BY DEF Init
  <2>3. /\ probe \in [Requests -> [Services -> Places]]
        /\ age \in [Requests -> [Services -> 0..(Timeout + Cleanup)]]
        /\ latency \in [Requests -> Nat]
    BY <2>1 DEF Init, Places
  <2>4. body \in [Requests -> [status   : {"none", "healthy", "degraded"},
                              services : [Services -> {"none", "ok", "error"}]]]
    BY DEF Init, NoBody
  <2>5. TypeOK
    BY <2>1, <2>2, <2>3, <2>4 DEF Init, TypeOK, Places
  <2>6. ProbeInv /\ IdleInv
    BY DEF Init, ProbeInv, IdleInv, Timely, Witnessed, UnderWay
  <2>7. LatencyBound
    BY Numbers DEF Init, LatencyBound
  <2>8. HealthyEarned /\ ErrorsExplained
    BY DEF Init, NoBody, HealthyEarned, ErrorsExplained
  <2>. QED  BY <2>5, <2>6, <2>7, <2>8 DEF HealthInv
<1>2. HealthInv /\ [Next]_vars => HealthInv'
  <2>. SUFFICES ASSUME HealthInv, [Next]_vars  PROVE HealthInv'
    OBVIOUS
  <2>1. CASE UNCHANGED vars
    BY <2>1 DEF HealthInv, vars, worldVars, requestVars, historyVars, TypeOK, ProbeInv,
         IdleInv, Timely, Witnessed, LatencyBound, HealthyEarned, ErrorsExplained
  <2>2. CASE Next
    <3>1. Observe
      BY <2>2 DEF Next
    <3>2. ASSUME TypeOK' /\ ProbeInv' /\ IdleInv', UNCHANGED <<latency, body>>
          PROVE  HealthInv'
      <4>1. handler' \in [Requests -> {"idle", "probing", "answered"}]
        BY <3>2 DEF TypeOK
      <4>2. ready' = ready
        BY <2>2 DEF Next, Receive, Handler, StartProbe, Responds, Refuses, Expire,
             Checkout, CleanedUp, Respond, World, Flip, OtherTakes, OtherReturns,
             Tick, worldVars
      <4>3. HealthyEarned' /\ ErrorsExplained'
        BY <3>1, <3>2, <4>1, <4>2, ReportsStay DEF HealthInv
      <4>4. LatencyBound'
        BY <3>2 DEF HealthInv, LatencyBound
      <4>. QED  BY <3>2, <4>3, <4>4 DEF HealthInv
    <3>3. ASSUME NEW r \in Requests, Receive(r)  PROVE HealthInv'
      BY <3>1, <3>2, <3>3, ReceiveStep
    <3>4. ASSUME NEW r \in Requests, Handler(r)  PROVE HealthInv'
      <4>1. CASE Respond(r)
        <5>1. /\ TypeOK' /\ ProbeInv' /\ IdleInv' /\ UNCHANGED latency
              /\ HealthyEarned' /\ ErrorsExplained'
          BY <3>1, <4>1, RespondStep
        <5>2. LatencyBound'
          BY <5>1 DEF HealthInv, LatencyBound
        <5>. QED  BY <5>1, <5>2 DEF HealthInv
      <4>2. CASE ~Respond(r)
        <5>1. \E s \in Services :
                \/ StartProbe(r, s) \/ Responds(r, s) \/ Refuses(r, s) \/ Expire(r, s)
                \/ s = "database" /\ (Checkout(r) \/ CleanedUp(r))
          <6>1. "database" \in Services
            BY DEF Services
          <6>. QED  BY <3>4, <4>2, <6>1 DEF Handler
        <5>2. TypeOK' /\ ProbeInv' /\ IdleInv' /\ UNCHANGED <<handler, latency, body>>
          BY <3>1, <5>1, ProbeStep DEF HealthInv
        <5>. QED  BY <3>2, <5>2
      <4>. QED  BY <4>1, <4>2
    <3>5. ASSUME World  PROVE HealthInv'
      BY <3>1, <3>2, <3>5, WorldStep
    <3>6. ASSUME Tick  PROVE HealthInv'
      <4>1. TypeOK' /\ ProbeInv' /\ IdleInv' /\ LatencyBound' /\ UNCHANGED body
        BY <3>1, <3>6, TickStep
      <4>2. handler' \in [Requests -> {"idle", "probing", "answered"}] /\ ready' = ready
        BY <3>6, <4>1 DEF TypeOK, Tick, worldVars
      <4>3. HealthyEarned' /\ ErrorsExplained'
        BY <3>1, <4>1, <4>2, ReportsStay DEF HealthInv
      <4>. QED  BY <4>1, <4>3 DEF HealthInv
    <3>. QED  BY <2>2, <3>3, <3>4, <3>5, <3>6 DEF Next
  <2>. QED  BY <2>1, <2>2
<1>. QED  BY <1>1, <1>2, PTL DEF Spec

-----------------------------------------------------------------------------
(* Theorems. *)

(* Type correctness of the requests, their probes and the services. *)
THEOREM HealthTypeCorrect == Spec => []TypeOK
<1>1. HealthInv => TypeOK
  BY DEF HealthInv
<1>. QED  BY <1>1, HealthInvariance, PTL

(* A report "healthy" is only given when every service answered during the  *)
(* request it is given to, through a client the lifespan had initialised.   *)
THEOREM HealthIsEarned == Spec => []HealthyEarned
<1>1. HealthInv => HealthyEarned
  BY DEF HealthInv
<1>. QED  BY <1>1, HealthInvariance, PTL

(* A service reported as "error" was unusable at some instant of the        *)
(* request, also where a timeout was the only evidence of it.               *)
THEOREM ErrorsHaveCauses == Spec => []ErrorsExplained
<1>1. HealthInv => ErrorsExplained
  BY DEF HealthInv
<1>. QED  BY <1>1, HealthInvariance, PTL

(* No request takes longer than one timeout and one release of a cancelled  *)
(* connection, however many services hang and requests compete.             *)
THEOREM AnswersInTime == Spec => []LatencyBound
<1>1. HealthInv => LatencyBound
  BY DEF HealthInv
<1>. QED  BY <1>1, HealthInvariance, PTL
-----------------------------------------------------------------------------
(* The lifespan of main.py. *)

-----------------------------------------------------------------------------
(* The two call orders of lifespan(). *)

(* The six singletons that main.py initialises. *)
LEMMA ClientsAre ==
  Clients = {"db", "redis", "qdrant", "storage", "llm", "embedding"}
BY DEF Clients, StartOrder

(* The calls of main.py 46-65: each client once. *)
LEMMA StartOrderIs ==
  /\ Len(StartOrder) = 6
  /\ DOMAIN StartOrder = 1..6
  /\ \A i \in 1..6 : StartOrder[i] \in Clients
  /\ \A i, j \in 1..6 : StartOrder[i] = StartOrder[j] => i = j
  /\ \A c \in Clients : \E i \in 1..6 : c = StartOrder[i]
BY DEF Clients, StartOrder

(* The calls of main.py 71-79: each client but storage once. *)
LEMMA StopOrderIs ==
  /\ Len(StopOrder) = 5
  /\ DOMAIN StopOrder = 1..5
  /\ \A i \in 1..5 : StopOrder[i] \in Clients \ {"storage"}
  /\ \A i, j \in 1..5 : StopOrder[i] = StopOrder[j] => i = j
  /\ \A c \in Clients \ {"storage"} : \E i \in 1..5 : c = StopOrder[i]
BY ClientsAre DEF StopOrder

(* Of two clients that are both disposed of, the one initialised first is   *)
(* disposed of last: main.py 46-65 read against 71-79.                      *)
LEMMA StopReversesStart ==
  \A i, j \in 1..6, k, l \in 1..5 :
    i < j /\ StartOrder[i] = StopOrder[k] /\ StartOrder[j] = StopOrder[l]
      => l < k
BY DEF StopOrder, StartOrder

-----------------------------------------------------------------------------
(* The inductive invariant. *)

Live(c) == slot[c] = cycle /\ <<c, cycle>> \in open

CycleInv ==
  /\ phase # "down" => cycle \in 1..MaxCycles
  /\ \A h \in open : h[2] <= cycle

StartingInv ==
  phase = "starting" =>
    /\ \A i \in 1..6 : i < pos => Live(StartOrder[i])
    /\ \A i \in 1..6 : pos <= i => <<StartOrder[i], cycle>> \notin open

ServingInv ==
  phase \in {"serving", "draining"} => \A c \in Clients : Live(c)

StoppingInv ==
  phase \in {"stopping", "closing"} =>
    /\ pos \in 1..6
    /\ phase = "closing" => pos # 6
    /\ \A i \in 1..5 : pos <= i => Live(StopOrder[i])
    /\ \A i \in 1..5 : i < pos => <<StopOrder[i], cycle>> \notin open
    /\ Live("storage")

RequestInv ==
  /\ serving # {} => phase \in {"serving", "draining"}
  /\ \A r \in Handlers : r \notin serving => held[r] = {}

LifespanInv ==
  /\ LifespanTypeOK
  /\ CycleInv /\ StartingInv /\ ServingInv /\ StoppingInv /\ RequestInv
  /\ RequestsHoldLiveClients
  /\ DependenciesOutlive
  /\ LeaksExplained

(* The invariant holds before the first cycle. *)
LEMMA LifespanInvInit == LifespanInit => LifespanInv
<1> SUFFICES ASSUME LifespanInit PROVE LifespanInv
  OBVIOUS
<1> USE CyclesAssumption, StartOrderIs DEF LifespanInit
<1>1. LifespanTypeOK
  <2>1. slot \in [Clients -> 0..MaxCycles] /\ cycle \in 0..MaxCycles
    BY DEF None
  <2>2. pos \in 1..(Len(StartOrder) + 1)
    OBVIOUS
  <2>3. held \in [Handlers -> SUBSET Handles] /\ open \subseteq Handles
    OBVIOUS
  <2> QED BY <2>1, <2>2, <2>3 DEF LifespanTypeOK, Ended
<1>2. CycleInv /\ StartingInv /\ ServingInv /\ StoppingInv /\ RequestInv
  BY DEF CycleInv, StartingInv, ServingInv, StoppingInv, RequestInv
<1>3. RequestsHoldLiveClients
  BY DEF RequestsHoldLiveClients
<1>4. DependenciesOutlive /\ LeaksExplained
  BY DEF DependenciesOutlive, LeaksExplained, Leaked
<1> QED BY <1>1, <1>2, <1>3, <1>4 DEF LifespanInv

-----------------------------------------------------------------------------
(* Type correctness is inductive but for two steps, whose indices stay in   *)
(* range because of where the other conjuncts put them.                     *)
LEMMA LifespanTypeStep == LifespanInv /\ [LifespanNext]_lifespanVars => LifespanTypeOK'
<1> SUFFICES ASSUME LifespanInv, [LifespanNext]_lifespanVars PROVE LifespanTypeOK'
  OBVIOUS
<1> USE CyclesAssumption, StartOrderIs, StopOrderIs
    DEF LifespanInv, LifespanTypeOK, Ended, None, Handles, handlerVars
<1>1. CASE EnterLifespan
  BY <1>1 DEF EnterLifespan
<1>2. ASSUME NEW c \in Clients, Initialize(c) PROVE LifespanTypeOK'
  BY <1>2 DEF Initialize, CycleInv
<1>3. CASE InitializeRaises
  BY <1>3 DEF InitializeRaises, CycleInv
<1>4. CASE GoLive
  BY <1>4 DEF GoLive
<1>5. ASSUME NEW r \in Handlers, Accept(r) PROVE LifespanTypeOK'
  BY <1>5 DEF Accept
<1>6. ASSUME NEW r \in Handlers, NEW c \in Clients, Get(r, c)
      PROVE LifespanTypeOK'
  BY <1>6 DEF Get
<1>7. ASSUME NEW r \in Handlers, Finish(r) PROVE LifespanTypeOK'
  BY <1>7 DEF Finish
<1>8. CASE StopAccepting
  BY <1>8 DEF StopAccepting
<1>9. CASE ResumeLifespan
  BY <1>9 DEF ResumeLifespan
<1>10. ASSUME NEW c \in Clients, BeginDispose(c) PROVE LifespanTypeOK'
  <2>1. CASE slot[c] = None
    BY <1>10, <2>1 DEF BeginDispose
  <2>2. CASE slot[c] # None
    BY <1>10, <2>2 DEF BeginDispose
  <2> QED BY <2>1, <2>2
<1>11. ASSUME NEW c \in Clients, EndDispose(c) PROVE LifespanTypeOK'
  BY <1>11 DEF EndDispose, StoppingInv
<1>12. ASSUME NEW c \in Clients, DisposeRaises(c) PROVE LifespanTypeOK'
  BY <1>12 DEF DisposeRaises, CycleInv
<1>13. CASE ShutdownComplete
  BY <1>13 DEF ShutdownComplete
<1>14. CASE UNCHANGED lifespanVars
  BY <1>14 DEF lifespanVars
<1> QED
  BY <1>1, <1>2, <1>3, <1>4, <1>5, <1>6, <1>7, <1>8, <1>9, <1>10, <1>11,
     <1>12, <1>13, <1>14, ClientsAre
  DEF LifespanNext, Startup, Shutdown, Request, Dispose, InitializeDb, InitializeRedis,
      InitializeQdrant, InitializeStorage, InitializeLlm, InitializeEmbedding,
      DisposeEmbedding, DisposeLlm, DisposeQdrant, DisposeRedis, DisposeDb

-----------------------------------------------------------------------------
(* Closing the client StopOrder[pos] takes away no dependency: what was     *)
(* started after it comes before it in StopOrder and is closed already.     *)
LEMMA CloseKeepsDependencies ==
  ASSUME LifespanInv, phase = "closing",
         NEW c \in Clients, c = StopOrder[pos],
         open' \in {open, open \ {<<c, slot[c]>>}}
  PROVE  DependenciesOutlive'
<1> SUFFICES ASSUME NEW i \in 1..6, NEW j \in 1..6, NEW n \in 1..MaxCycles,
                    i < j, StartOrder[j] # "storage",
                    <<StartOrder[j], n>> \in open'
             PROVE  <<StartOrder[i], n>> \in open'
  BY StartOrderIs DEF DependenciesOutlive
<1>1. <<StartOrder[i], n>> \in open
  BY StartOrderIs DEF LifespanInv, DependenciesOutlive
<1>2. pos \in 1..5 /\ slot[c] = cycle
  BY DEF LifespanInv, LifespanTypeOK, StoppingInv, Live
<1>3. CASE <<StartOrder[i], n>> = <<c, slot[c]>>
  <2>1. PICK l \in 1..5 : StartOrder[j] = StopOrder[l]
    BY StartOrderIs, StopOrderIs
  <2>2. l < pos
    BY <1>2, <1>3, <2>1, StopReversesStart
  <2>3. <<StopOrder[l], cycle>> \notin open
    BY <2>2 DEF LifespanInv, StoppingInv
  <2> QED BY <1>2, <1>3, <2>1, <2>3
<1> QED BY <1>1, <1>3

(* Every step keeps the invariant. *)
LEMMA LifespanInvStep == LifespanInv /\ [LifespanNext]_lifespanVars => LifespanInv'
<1> SUFFICES ASSUME LifespanInv, [LifespanNext]_lifespanVars PROVE LifespanInv'
  OBVIOUS
<1> DEFINE PhaseInv == /\ CycleInv /\ StartingInv /\ ServingInv
                       /\ StoppingInv /\ RequestInv
           Safe == /\ RequestsHoldLiveClients
                   /\ DependenciesOutlive /\ LeaksExplained
<1>0. LifespanTypeOK' BY LifespanTypeStep
<1> USE CyclesAssumption, StartOrderIs, StopOrderIs
    DEF LifespanInv, Ended, None, handlerVars
<1>1. CASE EnterLifespan
  <2>1. PhaseInv'
    BY <1>1 DEF EnterLifespan, LifespanTypeOK, CycleInv, StartingInv, ServingInv,
       StoppingInv, RequestInv, Handles
  <2>2. RequestsHoldLiveClients'
    BY <1>1 DEF EnterLifespan, RequestInv, RequestsHoldLiveClients
  <2>3. DependenciesOutlive'
    BY <1>1 DEF EnterLifespan, DependenciesOutlive
  <2>4. LeaksExplained'
    BY <1>1 DEF EnterLifespan, LeaksExplained, Leaked
  <2> QED BY <2>1, <2>2, <2>3, <2>4, <1>0
<1>2. ASSUME NEW c \in Clients, Initialize(c) PROVE PhaseInv' /\ Safe'
  <2>1. PhaseInv'
    BY <1>2 DEF Initialize, LifespanTypeOK, CycleInv, StartingInv, ServingInv,
       StoppingInv, RequestInv, Live
  <2>2. RequestsHoldLiveClients'
    BY <1>2 DEF Initialize, RequestsHoldLiveClients
  <2>3. DependenciesOutlive'
    BY <1>2 DEF Initialize, StartingInv, Live, DependenciesOutlive
  <2>4. LeaksExplained'
    BY <1>2 DEF Initialize, CycleInv, LeaksExplained, Leaked
  <2> QED BY <2>1, <2>2, <2>3, <2>4, <1>0
<1>3. CASE InitializeRaises
  <2>1. PhaseInv'
    BY <1>3 DEF InitializeRaises, CycleInv, StartingInv, ServingInv,
       StoppingInv, RequestInv
  <2>2. RequestsHoldLiveClients'
    BY <1>3 DEF InitializeRaises, RequestsHoldLiveClients
  <2>3. DependenciesOutlive'
    BY <1>3 DEF InitializeRaises, DependenciesOutlive
  <2>4. LeaksExplained'
    BY <1>3 DEF InitializeRaises, LifespanTypeOK, CycleInv, LeaksExplained, Leaked,
       Handles
  <2> QED BY <2>1, <2>2, <2>3, <2>4, <1>0
<1>4. CASE GoLive
  <2>1. PhaseInv'
    BY <1>4 DEF GoLive, CycleInv, StartingInv, ServingInv, StoppingInv,
       RequestInv, Live
  <2>2. RequestsHoldLiveClients'
    BY <1>4 DEF GoLive, RequestsHoldLiveClients
  <2>3. DependenciesOutlive'
    BY <1>4 DEF GoLive, DependenciesOutlive
  <2>4. LeaksExplained'
    BY <1>4 DEF GoLive, LeaksExplained, Leaked
  <2> QED BY <2>1, <2>2, <2>3, <2>4, <1>0
<1>5. ASSUME NEW r \in Handlers, Accept(r) PROVE PhaseInv' /\ Safe'
  <2>1. PhaseInv'
    BY <1>5 DEF Accept, CycleInv, StartingInv, ServingInv, StoppingInv,
       RequestInv, Live
  <2>2. RequestsHoldLiveClients'
    BY <1>5 DEF Accept, RequestsHoldLiveClients
  <2>3. DependenciesOutlive'
    BY <1>5 DEF Accept, DependenciesOutlive
  <2>4. LeaksExplained'
    BY <1>5 DEF Accept, LeaksExplained, Leaked
  <2> QED BY <2>1, <2>2, <2>3, <2>4, <1>0
<1>6. ASSUME NEW r \in Handlers, NEW c \in Clients, Get(r, c)
      PROVE PhaseInv' /\ Safe'
  <2>1. PhaseInv'
    BY <1>6 DEF Get, LifespanTypeOK, CycleInv, StartingInv, ServingInv, StoppingInv,
       RequestInv, Live
  <2>2. RequestsHoldLiveClients'
    <3>1. Live(c) /\ slot[c] # None
      BY <1>6 DEF Get, RequestInv, ServingInv, CycleInv, Live
    <3>2. /\ held' = [held EXCEPT ![r] = @ \cup {<<c, slot[c]>>}]
          /\ UNCHANGED <<refused, open, cycle>>
      BY <1>6, <3>1 DEF Get
    <3> QED BY <3>1, <3>2 DEF Live, RequestsHoldLiveClients
  <2>3. DependenciesOutlive'
    BY <1>6 DEF Get, DependenciesOutlive
  <2>4. LeaksExplained'
    BY <1>6 DEF Get, LeaksExplained, Leaked
  <2> QED BY <2>1, <2>2, <2>3, <2>4, <1>0
<1>7. ASSUME NEW r \in Handlers, Finish(r) PROVE PhaseInv' /\ Safe'
  <2>1. PhaseInv'
    BY <1>7 DEF Finish, LifespanTypeOK, CycleInv, StartingInv, ServingInv, StoppingInv,
       RequestInv, Live
  <2>2. RequestsHoldLiveClients'
    BY <1>7 DEF Finish, RequestsHoldLiveClients
  <2>3. DependenciesOutlive'
    BY <1>7 DEF Finish, DependenciesOutlive
  <2>4. LeaksExplained'
    BY <1>7 DEF Finish, LeaksExplained, Leaked
  <2> QED BY <2>1, <2>2, <2>3, <2>4, <1>0
<1>8. CASE StopAccepting
  <2>1. PhaseInv'
    BY <1>8 DEF StopAccepting, CycleInv, StartingInv, ServingInv, StoppingInv,
       RequestInv, Live
  <2>2. RequestsHoldLiveClients'
    BY <1>8 DEF StopAccepting, RequestsHoldLiveClients
  <2>3. DependenciesOutlive'
    BY <1>8 DEF StopAccepting, DependenciesOutlive
  <2>4. LeaksExplained'
    BY <1>8 DEF StopAccepting, LeaksExplained, Leaked
  <2> QED BY <2>1, <2>2, <2>3, <2>4, <1>0
<1>9. CASE ResumeLifespan
  <2>1. PhaseInv'
    BY <1>9 DEF ResumeLifespan, CycleInv, StartingInv, ServingInv, StoppingInv,
       RequestInv, Live
  <2>2. RequestsHoldLiveClients'
    BY <1>9 DEF ResumeLifespan, RequestsHoldLiveClients
  <2>3. DependenciesOutlive'
    BY <1>9 DEF ResumeLifespan, DependenciesOutlive
  <2>4. LeaksExplained'
    BY <1>9 DEF ResumeLifespan, LeaksExplained, Leaked
  <2> QED BY <2>1, <2>2, <2>3, <2>4, <1>0
<1>10. ASSUME NEW c \in Clients, BeginDispose(c) PROVE PhaseInv' /\ Safe'
  <2>1. PhaseInv'
    BY <1>10 DEF BeginDispose, CycleInv, StartingInv, ServingInv, StoppingInv,
       RequestInv, Live
  <2>2. RequestsHoldLiveClients'
    BY <1>10 DEF BeginDispose, RequestsHoldLiveClients
  <2>3. DependenciesOutlive'
    BY <1>10 DEF BeginDispose, DependenciesOutlive
  <2>4. LeaksExplained'
    BY <1>10 DEF BeginDispose, LeaksExplained, Leaked
  <2> QED BY <2>1, <2>2, <2>3, <2>4, <1>0
<1>11. ASSUME NEW c \in Clients, EndDispose(c) PROVE PhaseInv' /\ Safe'
  <2>1. PhaseInv'
    BY <1>11 DEF EndDispose, CycleInv, StartingInv, ServingInv, StoppingInv,
       RequestInv, Live
  <2>2. RequestsHoldLiveClients'
    BY <1>11 DEF EndDispose, RequestInv, RequestsHoldLiveClients
  <2>3. DependenciesOutlive'
    BY <1>11, CloseKeepsDependencies DEF EndDispose
  <2>4. LeaksExplained'
    BY <1>11 DEF EndDispose, LeaksExplained, Leaked
  <2> QED BY <2>1, <2>2, <2>3, <2>4, <1>0
<1>12. ASSUME NEW c \in Clients, DisposeRaises(c) PROVE PhaseInv' /\ Safe'
  <2>1. PhaseInv'
    BY <1>12 DEF DisposeRaises, CycleInv, StartingInv, ServingInv, StoppingInv,
       RequestInv
  <2>2. RequestsHoldLiveClients'
    BY <1>12 DEF DisposeRaises, RequestInv, RequestsHoldLiveClients
  <2>3. DependenciesOutlive'
    BY <1>12, CloseKeepsDependencies DEF DisposeRaises
  <2>4. LeaksExplained'
    BY <1>12 DEF DisposeRaises, LifespanTypeOK, CycleInv, LeaksExplained, Leaked,
       Handles
  <2> QED BY <2>1, <2>2, <2>3, <2>4, <1>0
<1>13. CASE ShutdownComplete
  <2>1. PhaseInv'
    BY <1>13 DEF ShutdownComplete, CycleInv, StartingInv, ServingInv,
       StoppingInv, RequestInv
  <2>2. RequestsHoldLiveClients'
    BY <1>13 DEF ShutdownComplete, RequestsHoldLiveClients
  <2>3. DependenciesOutlive'
    BY <1>13 DEF ShutdownComplete, DependenciesOutlive
  <2>4. LeaksExplained'
    BY <1>13 DEF ShutdownComplete, LifespanTypeOK, CycleInv, StoppingInv,
       LeaksExplained, Leaked, Handles
  <2> QED BY <2>1, <2>2, <2>3, <2>4, <1>0
<1>14. CASE UNCHANGED lifespanVars
  BY <1>14, <1>0 DEF lifespanVars, CycleInv, StartingInv, ServingInv, StoppingInv,
     RequestInv, Live, RequestsHoldLiveClients,
     DependenciesOutlive, LeaksExplained, Leaked
<1> QED
  BY <1>0, <1>1, <1>2, <1>3, <1>4, <1>5, <1>6, <1>7, <1>8, <1>9, <1>10, <1>11,
     <1>12, <1>13, <1>14, ClientsAre
  DEF LifespanNext, Startup, Shutdown, Request, Dispose, InitializeDb, InitializeRedis,
      InitializeQdrant, InitializeStorage, InitializeLlm, InitializeEmbedding,
      DisposeEmbedding, DisposeLlm, DisposeQdrant, DisposeRedis, DisposeDb

-----------------------------------------------------------------------------

(* The inductive invariant of lifespan() and its requests holds for ever. *)
LEMMA LifespanInvariance == LifespanSpec => []LifespanInv
<1>1. LifespanInit => LifespanInv
  BY LifespanInvInit
<1>2. LifespanInv /\ [LifespanNext]_lifespanVars => LifespanInv'
  BY LifespanInvStep
<1> QED BY <1>1, <1>2, PTL DEF LifespanSpec

(* The state of the lifespan and of its six singletons is well formed. *)
THEOREM LifespanTypeCorrect == LifespanSpec => []LifespanTypeOK
<1>1. LifespanInv => LifespanTypeOK
  BY DEF LifespanInv
<1> QED BY <1>1, LifespanInvariance, PTL

(* A request always gets its client, whatever earlier cycles left in the    *)
(* slots, and the client is open, and of the present cycle, for as long as  *)
(* the request runs.                                                        *)
THEOREM ClientsOutliveRequests == LifespanSpec => []RequestsHoldLiveClients
<1>1. LifespanInv => RequestsHoldLiveClients
  BY DEF LifespanInv
<1> QED BY <1>1, LifespanInvariance, PTL

(* The shutdown order of main.py never closes a client before one that was  *)
(* started after it, also when a close raises.                              *)
THEOREM DependenciesClosedLast == LifespanSpec => []DependenciesOutlive
<1>1. LifespanInv => DependenciesOutlive
  BY DEF LifespanInv
<1> QED BY <1>1, LifespanInvariance, PTL

(* Apart from storage, only an aborted lifespan leaks a client. *)
THEOREM OnlyAbortsLeak == LifespanSpec => []LeaksExplained
<1>1. LifespanInv => LeaksExplained
  BY DEF LifespanInv
<1> QED BY <1>1, LifespanInvariance, PTL
=============================================================================
