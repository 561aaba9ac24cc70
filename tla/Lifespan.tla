------------------------------- MODULE Lifespan -------------------------------
(***************************************************************************)
(* The application lifespan of backend/app/main.py and the six module      *)
(* singletons it owns.                                                     *)
(*                                                                         *)
(* Each infrastructure module keeps one slot (_state.pool, _state.client,  *)
(* _state.adapter, ...), filled by initialize_<c>() before the `yield` of  *)
(* lifespan() and emptied by dispose_<c>() after it.  A handle is the      *)
(* client object a slot refers to; it is named by its client and the       *)
(* lifespan cycle that created it, because a lifespan entered again in the *)
(* same process (every `with TestClient(app)` block does) finds the module *)
(* singletons as the previous cycle left them.                             *)
(*                                                                         *)
(* uvicorn is modelled from how it drives the application: it serves only  *)
(* after the startup half of lifespan() has returned, and resumes the      *)
(* shutdown half only once every accepted request has finished.            *)
(*                                                                         *)
(* The names of the specification begin with Lifespan: HealthCheck is of   *)
(* the same process, and ApplicationProofs extends both.                   *)
(***************************************************************************)
EXTENDS Naturals, Sequences, FiniteSets

CONSTANTS Handlers,   \* identities of concurrently handled requests
          MaxCycles   \* how often one process may enter its lifespan

ASSUME CyclesAssumption == MaxCycles \in Nat

VARIABLES
  phase,    \* where lifespan() and its server are; "closing" while
            \* lifespan() is suspended in the await of one close
  pos,      \* next entry of StartOrder (starting) or StopOrder (stopping)
  cycle,    \* number of the current lifespan cycle; 0 before the first
  slot,     \* slot[c]: cycle of the handle _state of c refers to, or None
  open,     \* handles <<c, n>> created and not yet closed
  held,     \* held[r]: handles request r obtained from get_<c>()
  serving,  \* requests being handled
  refused,  \* requests that met `RuntimeError: ... not initialized`
  aborted   \* cycles that ended in an exception out of lifespan()

lifespanVars == <<phase, pos, cycle, slot, open, held, serving, refused, aborted>>

None == 0

(* The calls of lifespan(), in program order. *)
StartOrder == <<"db", "redis", "qdrant", "storage", "llm", "embedding">>
StopOrderSwapped == <<"embedding", "llm", "redis", "db", "qdrant">>
StopOrder  == <<"embedding", "llm", "qdrant", "redis", "db">>

Clients == {StartOrder[i] : i \in DOMAIN StartOrder}

Ended == {"down", "stopped", "start_failed", "stop_failed"}

LifespanInit ==
  /\ phase = "down"
  /\ pos = 1
  /\ cycle = 0
  /\ slot = [c \in Clients |-> None]
  /\ open = {}
  /\ held = [r \in Handlers |-> {}]
  /\ serving = {}
  /\ refused = {}
  /\ aborted = {}

handlerVars == <<held, serving, refused>>

-----------------------------------------------------------------------------
(* Startup: the half of lifespan() before the yield. *)

(* The server enters the lifespan context; the slots are what they were. *)
EnterLifespan ==
  /\ phase \in Ended
  /\ cycle < MaxCycles
  /\ phase' = "starting"
  /\ cycle' = cycle + 1
  /\ pos' = 1
  /\ UNCHANGED <<slot, open, handlerVars, aborted>>

(* A mutant: the "already initialised" test the code does not have. *)
InitializeOnce(c) ==
  /\ phase = "starting"
  /\ pos \in DOMAIN StartOrder
  /\ c = StartOrder[pos]
  /\ IF slot[c] = None
       THEN /\ slot' = [slot EXCEPT ![c] = cycle]
            /\ open' = open \cup {<<c, cycle>>}
       ELSE UNCHANGED <<slot, open>>
  /\ pos' = pos + 1
  /\ UNCHANGED <<phase, cycle, handlerVars, aborted>>

(* initialize_<c>(): build the client, then overwrite the slot.  There is  *)
(* no test for an earlier handle in it.                                    *)
Initialize(c) ==
  /\ phase = "starting"
  /\ pos \in DOMAIN StartOrder
  /\ c = StartOrder[pos]
  /\ slot' = [slot EXCEPT ![c] = cycle]
  /\ open' = open \cup {<<c, cycle>>}
  /\ pos' = pos + 1
  /\ UNCHANGED <<phase, cycle, handlerVars, aborted>>

InitializeDb        == Initialize("db")
InitializeRedis     == Initialize("redis")
InitializeQdrant    == Initialize("qdrant")
InitializeStorage   == Initialize("storage")
InitializeLlm       == Initialize("llm")
InitializeEmbedding == Initialize("embedding")

(* A constructor raises (a malformed URL or endpoint): the exception leaves *)
(* lifespan(), which has no try/finally, and the startup is abandoned.      *)
InitializeRaises ==
  /\ phase = "starting"
  /\ pos \in DOMAIN StartOrder
  /\ phase' = "start_failed"
  /\ aborted' = aborted \cup {cycle}
  /\ UNCHANGED <<pos, cycle, slot, open, handlerVars>>

(* The yield: the server begins to accept requests. *)
GoLive ==
  /\ phase = "starting"
  /\ pos = Len(StartOrder) + 1
  /\ phase' = "serving"
  /\ UNCHANGED <<pos, cycle, slot, open, handlerVars, aborted>>

-----------------------------------------------------------------------------
(* Requests. *)

Accept(r) ==
  /\ phase = "serving"
  /\ r \notin serving
  /\ serving' = serving \cup {r}
  /\ UNCHANGED <<phase, pos, cycle, slot, open, held, refused, aborted>>

(* get_<c>(), and for the database the guard of its session factories: raise *)
(* if the slot is None, otherwise return the reference the slot holds now.   *)
Get(r, c) ==
  /\ r \in serving
  /\ IF slot[c] = None
       THEN /\ refused' = refused \cup {r}
            /\ UNCHANGED held
       ELSE /\ held' = [held EXCEPT ![r] = @ \cup {<<c, slot[c]>>}]
            /\ UNCHANGED refused
  /\ UNCHANGED <<phase, pos, cycle, slot, open, serving, aborted>>

Finish(r) ==
  /\ r \in serving
  /\ serving' = serving \ {r}
  /\ held' = [held EXCEPT ![r] = {}]
  /\ UNCHANGED <<phase, pos, cycle, slot, open, refused, aborted>>

-----------------------------------------------------------------------------
(* Shutdown: the half of lifespan() after the yield. *)

(* SIGTERM: uvicorn closes its listeners and waits for its requests. *)
StopAccepting ==
  /\ phase = "serving"
  /\ phase' = "draining"
  /\ UNCHANGED <<pos, cycle, slot, open, handlerVars, aborted>>

(* The last request is done: lifespan() resumes after its yield. *)
ResumeLifespan ==
  /\ phase = "draining"
  /\ serving = {}
  /\ phase' = "stopping"
  /\ pos' = 1
  /\ UNCHANGED <<cycle, slot, open, handlerVars, aborted>>

(* dispose_<c>() up to its await: the slot still holds the handle. *)
BeginDispose(c) ==
  /\ phase = "stopping"
  /\ pos \in DOMAIN StopOrder
  /\ c = StopOrder[pos]
  /\ IF slot[c] = None
       THEN /\ pos' = pos + 1
            /\ UNCHANGED phase
       ELSE /\ phase' = "closing"
            /\ UNCHANGED pos
  /\ UNCHANGED <<cycle, slot, open, handlerVars, aborted>>

(* A mutant: the slot is cleared and the client never closed. *)
ForgetWithoutClose(c) ==
  /\ phase = "closing"
  /\ c = StopOrder[pos]
  /\ slot' = [slot EXCEPT ![c] = None]
  /\ phase' = "stopping"
  /\ pos' = pos + 1
  /\ UNCHANGED <<cycle, open, handlerVars, aborted>>

(* The close returned: the slot is cleared and lifespan() goes on. *)
EndDispose(c) ==
  /\ phase = "closing"
  /\ c = StopOrder[pos]
  /\ open' = open \ {<<c, slot[c]>>}
  /\ slot' = [slot EXCEPT ![c] = None]
  /\ phase' = "stopping"
  /\ pos' = pos + 1
  /\ UNCHANGED <<cycle, handlerVars, aborted>>

(* The close raised: the slot keeps its reference, whether or not the close *)
(* took effect, and the clients that follow in StopOrder are never reached. *)
DisposeRaises(c) ==
  /\ phase = "closing"
  /\ c = StopOrder[pos]
  /\ open' \in {open, open \ {<<c, slot[c]>>}}
  /\ phase' = "stop_failed"
  /\ aborted' = aborted \cup {cycle}
  /\ UNCHANGED <<pos, cycle, slot, handlerVars>>

(* A mutant: completion waits for every slot, storage included. *)
CompleteWhenEmpty ==
  /\ phase = "stopping"
  /\ pos = Len(StopOrder) + 1
  /\ \A c \in Clients : slot[c] = None
  /\ phase' = "stopped"
  /\ UNCHANGED <<pos, cycle, slot, open, handlerVars, aborted>>

ShutdownComplete ==
  /\ phase = "stopping"
  /\ pos = Len(StopOrder) + 1
  /\ phase' = "stopped"
  /\ UNCHANGED <<pos, cycle, slot, open, handlerVars, aborted>>

Dispose(c) == BeginDispose(c) \/ EndDispose(c) \/ DisposeRaises(c)

DisposeEmbedding == Dispose("embedding")
DisposeLlm       == Dispose("llm")
DisposeQdrant    == Dispose("qdrant")
DisposeRedis     == Dispose("redis")
DisposeDb        == Dispose("db")

-----------------------------------------------------------------------------

Startup  == \/ InitializeDb \/ InitializeRedis \/ InitializeQdrant
            \/ InitializeStorage \/ InitializeLlm \/ InitializeEmbedding
            \/ InitializeRaises
            \/ GoLive

Shutdown == \/ ResumeLifespan
            \/ DisposeEmbedding \/ DisposeLlm \/ DisposeQdrant
            \/ DisposeRedis \/ DisposeDb
            \/ ShutdownComplete

Request(r) == Accept(r) \/ Finish(r) \/ \E c \in Clients : Get(r, c)

LifespanNext ==
  \/ EnterLifespan
  \/ Startup
  \/ \E r \in Handlers : Request(r)
  \/ StopAccepting
  \/ Shutdown

(* Fairness: the event loop keeps running the lifespan coroutine, whose    *)
(* calls return or raise, and every request handler ends.  Nothing makes   *)
(* the server start, accept a request or receive a stop signal.            *)
LifespanFairness ==
  /\ WF_lifespanVars(Startup)
  /\ WF_lifespanVars(Shutdown)
  /\ \A r \in Handlers : WF_lifespanVars(Finish(r))

LifespanSpec ==
  LifespanInit /\ [][LifespanNext]_lifespanVars /\ LifespanFairness

-----------------------------------------------------------------------------
(* Properties. *)

Handles == Clients \X (1..MaxCycles)

LifespanTypeOK ==
  /\ phase \in Ended \cup {"starting", "serving", "draining", "stopping",
                       "closing"}
  /\ pos \in 1..(Len(StartOrder) + 1)
  /\ cycle \in 0..MaxCycles
  /\ slot \in [Clients -> 0..MaxCycles]
  /\ open \subseteq Handles
  /\ held \in [Handlers -> SUBSET Handles]
  /\ serving \subseteq Handlers
  /\ refused \subseteq Handlers
  /\ aborted \subseteq 1..MaxCycles

(* A request gets the clients it asks for, never `RuntimeError: ... not     *)
(* initialized`: the yield comes after every initialize call.  And every    *)
(* client it holds is open and belongs to the lifespan cycle that serves    *)
(* it: no handler keeps using a client that a dispose call has closed, nor  *)
(* one left in a slot by an earlier cycle that failed.                      *)
RequestsHoldLiveClients ==
  /\ refused = {}
  /\ \A r \in Handlers : \A h \in held[r] : h \in open /\ h[2] = cycle

(* "Shutdown order is the reverse of startup so that dependent clients are  *)
(* torn down before their dependencies": at no instant, not even after an   *)
(* exception half way, is a client open while one it was started after is   *)
(* not.  Storage, which has no dispose call, is outside the claim.          *)
DependenciesOutlive ==
  \A i, j \in DOMAIN StartOrder, n \in 1..MaxCycles :
    /\ i < j
    /\ StartOrder[j] # "storage"
    /\ <<StartOrder[j], n>> \in open
    => <<StartOrder[i], n>> \in open

(* The handles nobody will close any more: those of finished cycles. *)
Leaked == {h \in open : h[2] < cycle \/ phase \in Ended}

(* A cycle that starts and stops without an exception leaks nothing but its *)
(* storage adapter: every other handle left open after its cycle was left   *)
(* by a lifespan() that an initialize or a dispose call aborted.            *)
LeaksExplained ==
  \A h \in Leaked : h[1] = "storage" \/ h[2] \in aborted

(* Once the stop signal is received the lifespan ends, completely or by an  *)
(* exception, however many requests were in flight.                         *)
ShutdownEnds == phase = "draining" ~> phase \in {"stopped", "stop_failed"}
=============================================================================
