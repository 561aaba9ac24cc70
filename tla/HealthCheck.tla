----------------------------- MODULE HealthCheck -----------------------------
(***************************************************************************)
(* GET /api/v1/health (backend/app/interfaces/api/v1/health.py): three     *)
(* probes run concurrently, each under asyncio.wait_for, against services  *)
(* that come and go while they run.  The database probe needs a connection *)
(* of the pool the other handlers use (check_db_health opens a read        *)
(* session); the client of Redis has a pool of its own, which the other    *)
(* users of Redis may have exhausted ("full"): that pool does not wait.    *)
(*                                                                         *)
(* Time passes in ticks.  What can happen at once happens before the next  *)
(* tick: a reply of a service that is up, the checkout of a free           *)
(* connection, a timer that is due.  A service that is slow is "hung".     *)
(***************************************************************************)
EXTENDS Naturals, FiniteSets

CONSTANTS
  Requests,   \* identities of the health requests
  Capacity,   \* connections of the pool: pool_size + max_overflow
  Timeout,    \* _PROBE_TIMEOUT_SECONDS, in ticks
  Cleanup,    \* ticks a cancelled statement may take to give up its connection
  MaxFlips    \* bound on the changes of the services' states

ASSUME HealthAssumption ==
  /\ IsFiniteSet(Requests)
  /\ Capacity \in Nat \ {0}
  /\ Timeout \in Nat \ {0}
  /\ Cleanup \in Nat
  /\ MaxFlips \in Nat

Services == {"database", "redis", "qdrant"}

States(s) == {"up", "down", "hung"} \cup IF s = "redis" THEN {"full"} ELSE {}

Answering == {"up", "full"}

VARIABLES
  ready,     \* services whose client the lifespan has initialised
  net,       \* net[s]: "up" answers, "down" refuses, "hung" does neither,
             \* "full" answers those who have a connection already
  flips,     \* changes of net so far
  busy,      \* connections held by other handlers
  handler,   \* handler[r]: "idle", "probing" or "answered"
  probe,     \* probe[r][s]: where the probe of s for r is
  age,       \* age[r][s]: ticks since that probe started
  latency,   \* latency[r]: ticks since r was received
  body,      \* body[r]: the response, once answered
  seenUp,    \* seenUp[r]: services that answered at some time of r
  trouble    \* trouble[r]: services that could not be used at some time of r

worldVars   == <<ready, net, flips, busy>>
requestVars == <<handler, probe, age, latency, body>>
historyVars == <<seenUp, trouble>>
vars == <<worldVars, requestVars, historyVars>>

NoBody == [status |-> "none", services |-> [s \in Services |-> "none"]]

Init ==
  /\ ready \in {{}, Services}
  /\ net = [s \in Services |-> "up"]
  /\ flips = 0
  /\ busy = 0
  /\ handler = [r \in Requests |-> "idle"]
  /\ probe = [r \in Requests |-> [s \in Services |-> "new"]]
  /\ age = [r \in Requests |-> [s \in Services |-> 0]]
  /\ latency = [r \in Requests |-> 0]
  /\ body = [r \in Requests |-> NoBody]
  /\ seenUp = [r \in Requests |-> {}]
  /\ trouble = [r \in Requests |-> {}]

-----------------------------------------------------------------------------
(* The pool as the database probe sees it. *)

Holding == {r \in Requests : probe[r]["database"] \in {"call", "cleanup"}}

InUse == busy + Cardinality(Holding)

SetProbe(r, s, where) == probe' = [probe EXCEPT ![r][s] = where]

Probing(r, s, where) == handler[r] = "probing" /\ probe[r][s] = where

-----------------------------------------------------------------------------
(* The handler. *)

Receive(r) ==
  /\ handler[r] = "idle"
  /\ handler' = [handler EXCEPT ![r] = "probing"]
  /\ UNCHANGED <<worldVars, probe, age, latency, body>>

(* A mutant of Startable: each probe is awaited before the next one starts. *)
StartableInTurn(r) ==
  LET done(s) == probe[r][s] \in {"ok", "error"}
  IN {s \in Services : /\ s = "redis" => done("database")
                       /\ s = "qdrant" => done("database") /\ done("redis")}

(* asyncio.gather makes a task of each of the three probes at once. *)
Startable(r) == Services

(* check_<s>_health() up to its first await: an uninitialised client, or    *)
(* max_connections reached, means an exception that is caught, and False.   *)
StartProbe(r, s) ==
  /\ Probing(r, s, "new")
  /\ s \in Startable(r)
  /\ SetProbe(r, s, IF s \notin ready \/ net[s] = "full" THEN "error"
                    ELSE IF s = "database" THEN "checkout" ELSE "call")
  /\ UNCHANGED <<worldVars, handler, age, latency, body>>

(* The session of check_db_health gets its connection. *)
Checkout(r) ==
  /\ Probing(r, "database", "checkout")
  /\ InUse < Capacity
  /\ SetProbe(r, "database", "call")
  /\ UNCHANGED <<worldVars, handler, age, latency, body>>

Responds(r, s) ==
  /\ Probing(r, s, "call")
  /\ net[s] \in Answering
  /\ SetProbe(r, s, "ok")
  /\ UNCHANGED <<worldVars, handler, age, latency, body>>

(* Connection refused or reset: check_<s>_health() returns False. *)
Refuses(r, s) ==
  /\ Probing(r, s, "call")
  /\ net[s] = "down"
  /\ SetProbe(r, s, "error")
  /\ UNCHANGED <<worldVars, handler, age, latency, body>>

(* wait_for cancels the probe.  The exit of the read session is awaited     *)
(* before the timeout is reported, and keeps its connection until then.     *)
Expire(r, s) ==
  /\ probe[r][s] \in {"checkout", "call"}
  /\ age[r][s] = Timeout
  /\ SetProbe(r, s, IF s = "database" /\ probe[r][s] = "call"
                      THEN "cleanup" ELSE "error")
  /\ UNCHANGED <<worldVars, handler, age, latency, body>>

CleanedUp(r) ==
  /\ Probing(r, "database", "cleanup")
  /\ SetProbe(r, "database", "error")
  /\ UNCHANGED <<worldVars, handler, age, latency, body>>

(* Mutants: one healthy service is enough; the database is reported by the  *)
(* result of Redis; a probe that failed keeps gather from returning.        *)
OverallAny(r) == IF \E s \in Services : probe[r][s] = "ok"
                   THEN "healthy" ELSE "degraded"

Overall(r) == IF \A s \in Services : probe[r][s] = "ok"
                THEN "healthy" ELSE "degraded"

RespondCopied(r) ==
  /\ handler[r] = "probing"
  /\ \A s \in Services : probe[r][s] \in {"ok", "error"}
  /\ handler' = [handler EXCEPT ![r] = "answered"]
  /\ body' = [body EXCEPT ![r] =
       [status |-> Overall(r),
        services |-> [probe[r] EXCEPT !["database"] = probe[r]["redis"]]]]
  /\ UNCHANGED <<worldVars, probe, age, latency>>

RespondWhenOk(r) ==
  /\ handler[r] = "probing"
  /\ \A s \in Services : probe[r][s] = "ok"
  /\ handler' = [handler EXCEPT ![r] = "answered"]
  /\ body' = [body EXCEPT ![r] = [status |-> Overall(r), services |-> probe[r]]]
  /\ UNCHANGED <<worldVars, probe, age, latency>>

(* gather returns once all three are done; the results keep their order. *)
Respond(r) ==
  /\ handler[r] = "probing"
  /\ \A s \in Services : probe[r][s] \in {"ok", "error"}
  /\ handler' = [handler EXCEPT ![r] = "answered"]
  /\ body' = [body EXCEPT ![r] = [status |-> Overall(r), services |-> probe[r]]]
  /\ UNCHANGED <<worldVars, probe, age, latency>>

-----------------------------------------------------------------------------
(* The world. *)

Flip(s, state) ==
  /\ flips < MaxFlips
  /\ net[s] # state
  /\ net' = [net EXCEPT ![s] = state]
  /\ flips' = flips + 1
  /\ UNCHANGED <<ready, busy, requestVars>>

OtherTakes ==
  /\ ready # {}
  /\ InUse < Capacity
  /\ busy' = busy + 1
  /\ UNCHANGED <<ready, net, flips, requestVars>>

OtherReturns ==
  /\ busy > 0
  /\ busy' = busy - 1
  /\ UNCHANGED <<ready, net, flips, requestVars>>

Running(r, s) == handler[r] = "probing" /\ probe[r][s] \in {"checkout", "call", "cleanup"}

(* What is due at this instant for request r. *)
Urgent(r) ==
  \/ \E s \in Startable(r) : Probing(r, s, "new")
  \/ Probing(r, "database", "checkout") /\ InUse < Capacity
  \/ \E s \in Services : Probing(r, s, "call") /\ net[s] # "hung"
  \/ \E s \in Services :
       probe[r][s] \in {"checkout", "call"} /\ age[r][s] = Timeout
  \/ Probing(r, "database", "cleanup") /\ age[r]["database"] = Timeout + Cleanup
  \/ /\ handler[r] = "probing"
     /\ \A s \in Services : probe[r][s] \in {"ok", "error"}

Tick ==
  /\ \A r \in Requests : ~Urgent(r)
  /\ \E r \in Requests : handler[r] = "probing"
  /\ age' = [r \in Requests |-> [s \in Services |->
               IF Running(r, s) THEN age[r][s] + 1 ELSE age[r][s]]]
  /\ latency' = [r \in Requests |->
                   IF handler[r] = "probing" THEN latency[r] + 1 ELSE latency[r]]
  /\ UNCHANGED <<worldVars, handler, probe, body>>

-----------------------------------------------------------------------------

Handler(r) == \/ \E s \in Services : \/ StartProbe(r, s) \/ Responds(r, s)
                                     \/ Refuses(r, s)    \/ Expire(r, s)
              \/ Checkout(r) \/ CleanedUp(r) \/ Respond(r)

World == \/ \E s \in Services : \E state \in States(s) : Flip(s, state)
         \/ OtherTakes
         \/ OtherReturns

(* Connections that others than the probe of r hold. *)
InUseByOthers(r) == busy + Cardinality(Holding \ {r})

(* History: what was the case at some instant while r was being handled.    *)
(* The connection its own probe holds does not make the database unusable.  *)
Usable(r, s) == /\ s \in ready
                /\ net[s] = "up"
                /\ s = "database" => InUseByOthers(r) < Capacity

Observe ==
  /\ seenUp' = [r \in Requests |->
       IF handler'[r] = "probing"
         THEN seenUp[r] \cup {s \in Services : net'[s] \in Answering} ELSE seenUp[r]]
  /\ trouble' = [r \in Requests |->
       IF handler'[r] = "probing"
         THEN trouble[r] \cup {s \in Services : ~Usable(r, s)'} ELSE trouble[r]]

Next == /\ \/ \E r \in Requests : Receive(r) \/ Handler(r)
           \/ World
           \/ Tick
        /\ Observe

(* Fairness: the event loop runs what is ready, and time passes however     *)
(* often the other handlers take and return connections meanwhile.          *)
Fairness == /\ \A r \in Requests : WF_vars(Handler(r) /\ Observe)
            /\ SF_vars(Tick /\ Observe)

Spec == Init /\ [][Next]_vars /\ Fairness

-----------------------------------------------------------------------------
(* Properties. *)

TypeOK ==
  /\ ready \in {{}, Services}
  /\ net \in [Services -> {"up", "down", "hung", "full"}]
  /\ flips \in 0..MaxFlips
  /\ busy \in 0..Capacity
  /\ handler \in [Requests -> {"idle", "probing", "answered"}]
  /\ probe \in [Requests -> [Services -> {"new", "checkout", "call", "cleanup",
                                          "ok", "error"}]]
  /\ age \in [Requests -> [Services -> 0..(Timeout + Cleanup)]]
  /\ latency \in [Requests -> Nat]
  /\ body \in [Requests -> [status   : {"none", "healthy", "degraded"},
                            services : [Services -> {"none", "ok", "error"}]]]
  /\ seenUp \in [Requests -> SUBSET Services]
  /\ trouble \in [Requests -> SUBSET Services]

(* "healthy" is earned: each of the three services answered at some instant *)
(* of the very request it is reported to, and its client was initialised.   *)
HealthyEarned ==
  \A r \in Requests :
    body[r].status = "healthy" =>
      /\ seenUp[r] = Services
      /\ ready = Services

(* An "error" names the right service: that service (and not another of the *)
(* three) was unusable at some instant of the request; for the database     *)
(* that includes a pool the others had emptied, not one the probe has.      *)
ErrorsExplained ==
  \A r \in Requests, s \in Services :
    body[r].services[s] = "error" => s \in trouble[r]

(* The probes run concurrently: a response takes one probe timeout, plus    *)
(* the release of a cancelled connection, however many services hang.       *)
LatencyBound == \A r \in Requests : latency[r] <= Timeout + Cleanup

(* Every health request is answered, whatever the services do. *)
AlwaysAnswers ==
  \A r \in Requests : handler[r] = "probing" ~> handler[r] = "answered"
=============================================================================
