----------------------------- MODULE LLMComplete -----------------------------
(***************************************************************************)
(* LLMAdapter.complete() of backend/app/infrastructure/llm/llm_adapter.py: *)
(* one POST of the same body per attempt, up to max_retries attempts, over *)
(* one httpx client that concurrent calls, and those of stream(), share.   *)
(*                                                                         *)
(* The provider and httpx are modelled from how complete() reads them: an  *)
(* attempt ends in a response, in an httpx.TimeoutException (for want of a *)
(* pooled connection, too) or in another httpx.RequestError.  A failed     *)
(* attempt does not say whether the provider ran the completion, or will.  *)
(*                                                                         *)
(* The names of the specification begin with Complete: LLMStream is of the *)
(* same class, and LLMAdapterProofs extends both.                          *)
(***************************************************************************)
EXTENDS Naturals, Sequences, FiniteSets

CONSTANTS
  Calls,      \* identities of the concurrent calls of complete()
  MaxRetries, \* settings.llm_max_retries
  Pool        \* connections of the httpx client

ASSUME CompleteAssumption ==
  IsFiniteSet(Calls) /\ MaxRetries \in Nat /\ Pool \in Nat \ {0}

VARIABLES
  pc,       \* pc[k]: "idle", "loop", "sent", "ran" or "done"
  log,      \* log[k]: how each attempt of k has ended, in order
  late,     \* late[k]: attempts given up that may still reach the provider
  ran,      \* ran[k]: attempts whose completion the provider has run
  outcome,  \* outcome[k]: what the caller was given
  streaming \* connections that calls of stream() hold

completeVars == <<pc, log, late, ran, outcome, streaming>>

(* Endings complete() answers with another attempt ... *)
Transient == {"timeout", "request", "pool"}

(* ... and the responses: a 200 with text, a 200 whose content is null, a   *)
(* 200 that is no chat completion, any other status.                        *)
Responses == {"text", "null", "malformed", "status"}

Attempts == 1..MaxRetries

(* The number of the attempt under way: `attempt` of the code, plus one. *)
attempt(k) == Len(log[k]) + 1

InFlight == {k \in Calls : pc[k] \in {"sent", "ran"}}

Occupied == Cardinality(InFlight) + streaming

CompleteInit ==
  /\ pc = [k \in Calls |-> "idle"]
  /\ log = [k \in Calls |-> <<>>]
  /\ late = [k \in Calls |-> {}]
  /\ ran = [k \in Calls |-> {}]
  /\ outcome = [k \in Calls |-> "none"]
  /\ streaming = 0

-----------------------------------------------------------------------------
(* The two ways an attempt ends.  A retry follows at once: no backoff. *)

Retry(k, ending) ==
  /\ log' = [log EXCEPT ![k] = Append(@, ending)]
  /\ pc' = [pc EXCEPT ![k] = "loop"]
  /\ UNCHANGED outcome

Leave(k, ending, given) ==
  /\ log' = [log EXCEPT ![k] = Append(@, ending)]
  /\ pc' = [pc EXCEPT ![k] = "done"]
  /\ outcome' = [outcome EXCEPT ![k] = given]

(* The client leaves the attempt under way: where its request was sent and  *)
(* not answered by the provider, it may still reach it.                     *)
GivesUp(k) ==
  \/ UNCHANGED late
  \/ pc[k] = "sent" /\ late' = [late EXCEPT ![k] = @ \cup {attempt(k)}]

-----------------------------------------------------------------------------

Begin(k) ==
  /\ pc[k] = "idle"
  /\ pc' = [pc EXCEPT ![k] = "loop"]
  /\ UNCHANGED <<log, late, ran, outcome>>

(* `range(self._max_retries)` has another element. *)
More(k) == attempt(k) <= MaxRetries

Send(k) ==
  /\ pc[k] = "loop"
  /\ More(k)
  /\ Occupied < Pool
  /\ pc' = [pc EXCEPT ![k] = "sent"]
  /\ UNCHANGED <<log, late, ran, outcome>>

(* No connection came free: httpx.PoolTimeout is a TimeoutException. *)
PoolTimeout(k) ==
  /\ pc[k] = "loop"
  /\ More(k)
  /\ Occupied >= Pool
  /\ Retry(k, "pool")
  /\ UNCHANGED <<late, ran>>

(* The request is lost, or is on its way when the client gives it up. *)
SendFails(k, ending) ==
  /\ pc[k] = "sent"
  /\ GivesUp(k)
  /\ Retry(k, ending)
  /\ UNCHANGED ran

ProviderRuns(k) ==
  /\ pc[k] = "sent"
  /\ ran' = [ran EXCEPT ![k] = @ \cup {attempt(k)}]
  /\ pc' = [pc EXCEPT ![k] = "ran"]
  /\ UNCHANGED <<log, late, outcome>>

(* The provider runs a completion that nobody waits for any more. *)
ProviderRunsLate(k, a) ==
  /\ a \in late[k]
  /\ late' = [late EXCEPT ![k] = @ \ {a}]
  /\ ran' = [ran EXCEPT ![k] = @ \cup {a}]
  /\ UNCHANGED <<pc, log, outcome>>

(* The completion was run, and its response is lost or too late. *)
ReplyLost(k, ending) ==
  /\ pc[k] = "ran"
  /\ Retry(k, ending)
  /\ UNCHANGED <<late, ran>>

(* A mutant of ApiError: the status is taken for a transient error. *)
ApiErrorRetried(k) ==
  /\ pc[k] \in {"sent", "ran"}
  /\ Retry(k, "status")
  /\ UNCHANGED <<late, ran>>

(* A status other than 200, before or after the completion was run, or from *)
(* a gateway that gave up on it: `except LLMError: raise`.                  *)
ApiError(k) ==
  /\ pc[k] \in {"sent", "ran"}
  /\ GivesUp(k)
  /\ Leave(k, "status", "LLMError")
  /\ UNCHANGED ran

ReturnText(k) ==
  /\ pc[k] = "ran"
  /\ Leave(k, "text", "text")
  /\ UNCHANGED <<late, ran>>

(* A mutant of ReturnNull: an empty content is asked for again. *)
ReturnNullRetried(k) ==
  /\ pc[k] = "ran"
  /\ Retry(k, "null")
  /\ UNCHANGED <<late, ran>>

(* str(None): the caller is given the four letters None. *)
ReturnNull(k) ==
  /\ pc[k] = "ran"
  /\ Leave(k, "null", "the string None")
  /\ UNCHANGED <<late, ran>>

(* No JSON, or no choices in it, of the provider or of a proxy before it:   *)
(* the JSONDecodeError, KeyError, IndexError or TypeError is no httpx       *)
(* exception and leaves complete() as it is.                                *)
EscapeMalformed(k) ==
  /\ pc[k] \in {"sent", "ran"}
  /\ GivesUp(k)
  /\ Leave(k, "malformed", "other exception")
  /\ UNCHANGED ran

(* The loop is over: LLMError. *)
Exhausted(k) ==
  /\ pc[k] = "loop"
  /\ ~More(k)
  /\ pc' = [pc EXCEPT ![k] = "done"]
  /\ outcome' = [outcome EXCEPT ![k] = "exhausted"]
  /\ UNCHANGED <<log, late, ran>>

(* CancelledError at the await of the POST. *)
CancelCall(k) ==
  /\ pc[k] \in {"sent", "ran"} \/ (pc[k] = "loop" /\ More(k))
  /\ GivesUp(k)
  /\ Leave(k, "cancelled", "cancelled")
  /\ UNCHANGED ran

(* A call of stream() takes a connection of the client, or gives one back. *)
StreamTakes ==
  /\ Occupied < Pool
  /\ streaming' = streaming + 1
  /\ UNCHANGED <<pc, log, late, ran, outcome>>

StreamReturns ==
  /\ streaming > 0
  /\ streaming' = streaming - 1
  /\ UNCHANGED <<pc, log, late, ran, outcome>>

-----------------------------------------------------------------------------

Fail(k) == \E ending \in {"timeout", "request"} :
             SendFails(k, ending) \/ ReplyLost(k, ending)

ReturnResponse(k) ==
  ReturnText(k) \/ ReturnNull(k) \/ EscapeMalformed(k) \/ ApiError(k)

Complete(k) ==
  Send(k) \/ PoolTimeout(k) \/ Fail(k) \/ ReturnResponse(k) \/ Exhausted(k)

Served(k) == ProviderRuns(k) \/ \E a \in Attempts : ProviderRunsLate(k, a)

CompleteNext ==
  \/ /\ \E k \in Calls : Begin(k) \/ Complete(k) \/ CancelCall(k) \/ Served(k)
     /\ UNCHANGED streaming
  \/ StreamTakes
  \/ StreamReturns

CompleteSpec == CompleteInit /\ [][CompleteNext]_completeVars

-----------------------------------------------------------------------------
(* Properties. *)

CompleteTypeOK ==
  /\ pc \in [Calls -> {"idle", "loop", "sent", "ran", "done"}]
  /\ log \in [Calls -> Seq(Transient \cup Responses \cup {"cancelled"})]
  /\ late \in [Calls -> SUBSET Attempts]
  /\ ran \in [Calls -> SUBSET Attempts]
  /\ outcome \in [Calls -> {"none", "text", "the string None", "LLMError",
                            "other exception", "exhausted", "cancelled"}]
  /\ streaming \in 0..Pool

(* Only a transient error is followed by another attempt: a call that got   *)
(* a response of any kind never asks the provider again.                    *)
ResponsesNotRetried ==
  \A k \in Calls : \A i \in 1..Len(log[k]) :
    log[k][i] \notin Transient => i = Len(log[k]) /\ pc[k] = "done"

(* The provider is asked at most MaxRetries times by one call, and it runs  *)
(* a second completion only where an earlier one was in doubt: its attempt  *)
(* had been sent and ended in a timeout or a broken connection.             *)
DuplicatesInDoubt ==
  \A k \in Calls :
    /\ Len(log[k]) <= MaxRetries
    /\ \A a, b \in ran[k] : a < b => log[k][a] \in {"timeout", "request"}
=============================================================================
