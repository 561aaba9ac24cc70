------------------------------ MODULE LLMStream ------------------------------
(***************************************************************************)
(* LLMAdapter.stream() of backend/app/infrastructure/llm/llm_adapter.py:   *)
(* an async generator that reads the lines of a server-sent event stream   *)
(* and yields the tokens in them to a consumer, which may stop asking.     *)
(*                                                                         *)
(* The provider, the network and the consumer are modelled from what       *)
(* stream() can meet: lines arrive in order; the provider's stream ends    *)
(* with its [DONE] line, with an error object, by a close or by a reset;   *)
(* a chunk can be damaged on the way.  Tokens are numbered.                *)
(***************************************************************************)
EXTENDS Naturals, Sequences

CONSTANTS
  Tokens,    \* number of tokens of the completion
  MaxNoise,  \* bound on the lines that carry no token
  MaxWire    \* bound on the lines under way

ASSUME StreamAssumption ==
  Tokens \in Nat /\ MaxNoise \in Nat /\ MaxWire \in Nat \ {0}

VARIABLES
  gen,       \* state of the generator
  conn,      \* the generator holds a connection of the client
  wire,      \* lines sent and not yet read
  sent,      \* tokens sent, whole or damaged
  noise,     \* lines sent that carry no token
  provider,  \* "sending", "failed" after an error object, or "ended"
  damaged,   \* tokens whose chunk was damaged
  yielded,   \* tokens given to the consumer, in order
  doneRead   \* the [DONE] line has been read

providerVars == <<sent, noise, provider, damaged>>
vars == <<gen, conn, wire, providerVars, yielded, doneRead>>

(* Lines without a token that the code skips by one of its three tests:     *)
(* blank; [DONE]; not `data: ` (comments, `event:`, `data:` without the     *)
(* space); a chunk without content; an error object, whose lack of choices  *)
(* is a KeyError.                                                           *)
Noise == {"blank", "done", "other", "empty", "error"}

(* A damaged chunk: no JSON or a key missing ("broken", an exception the    *)
(* code catches) or a value of another type ("mistyped", a TypeError or     *)
(* AttributeError, which it does not).                                      *)
Damage == {"broken", "mistyped"}

Line(kind, token) == [kind |-> kind, token |-> token]

Lines == [kind  : Noise \cup Damage \cup {"content", "eof", "reset"},
          token : 0..Tokens]

Ended  == {"returned", "LLMError", "other exception", "closed", "cancelled"}

Init ==
  /\ gen = "idle"
  /\ conn = FALSE
  /\ wire = <<>>
  /\ sent = 0 /\ noise = 0 /\ provider = "sending" /\ damaged = {}
  /\ yielded = <<>>
  /\ doneRead = FALSE

-----------------------------------------------------------------------------
(* The provider. *)

Sending == gen # "idle" /\ provider = "sending" /\ Len(wire) < MaxWire

SendToken ==
  /\ Sending
  /\ sent < Tokens
  /\ sent' = sent + 1
  /\ \/ wire' = Append(wire, Line("content", sent + 1)) /\ UNCHANGED damaged
     \/ \E kind \in Damage : /\ wire' = Append(wire, Line(kind, sent + 1))
                             /\ damaged' = damaged \cup {sent + 1}
  /\ UNCHANGED <<gen, conn, noise, provider, yielded, doneRead>>

(* [DONE] follows the last token; an error object is followed by nothing. *)
SendNoise(kind) ==
  /\ Sending
  /\ noise < MaxNoise
  /\ kind = "done" => sent = Tokens
  /\ noise' = noise + 1
  /\ wire' = Append(wire, Line(kind, 0))
  /\ provider' = IF kind = "error" THEN "failed" ELSE provider
  /\ UNCHANGED <<gen, conn, sent, damaged, yielded, doneRead>>

(* The body ends: completely as HTTP sees it, or in the middle of a chunk. *)
EndOfBody(kind) ==
  /\ gen # "idle"
  /\ provider # "ended"
  /\ wire' = Append(wire, Line(kind, 0))
  /\ provider' = "ended"
  /\ UNCHANGED <<gen, conn, sent, noise, damaged, yielded, doneRead>>

-----------------------------------------------------------------------------
(* The generator. *)

(* A mutant of Finish: the response is not closed. *)
FinishHolding(how) == gen' = how /\ UNCHANGED conn

(* It leaves `async with self._client.stream(...)`. *)
Finish(how) == gen' = how /\ conn' = FALSE

(* The POST is sent and the response headers are awaited. *)
Open ==
  /\ gen = "idle"
  /\ gen' = "opening"
  /\ conn' = TRUE
  /\ UNCHANGED <<wire, providerVars, yielded, doneRead>>

Accepted ==
  /\ gen = "opening"
  /\ gen' = "reading"
  /\ UNCHANGED <<conn, wire, providerVars, yielded, doneRead>>

(* A status other than 200, a timeout or no connection: LLMError, or the    *)
(* UnicodeDecodeError of body.decode() where the body is not UTF-8.         *)
Refused ==
  /\ gen = "opening"
  /\ Finish("LLMError") \/ Finish("other exception")
  /\ UNCHANGED <<wire, providerVars, yielded, doneRead>>

Reading(kinds) == gen = "reading" /\ wire # <<>> /\ Head(wire).kind \in kinds

(* A mutant of Yield: the line is read again after the yield. *)
YieldAgain ==
  /\ Reading({"content"})
  /\ yielded' = Append(yielded, Head(wire).token)
  /\ gen' = "suspended"
  /\ UNCHANGED <<conn, wire, providerVars, doneRead>>

Yield ==
  /\ Reading({"content"})
  /\ wire' = Tail(wire)
  /\ yielded' = Append(yielded, Head(wire).token)
  /\ gen' = "suspended"
  /\ UNCHANGED <<conn, providerVars, doneRead>>

(* A mutant of Skip: what follows a skipped line is skipped with it. *)
SkipTwo ==
  /\ Reading(Noise \cup {"broken"})
  /\ wire' = IF Len(wire) > 1 /\ wire[2].kind = "content"
               THEN Tail(Tail(wire)) ELSE Tail(wire)
  /\ doneRead' = (doneRead \/ Head(wire).kind = "done")
  /\ UNCHANGED <<gen, conn, providerVars, yielded>>

Skip ==
  /\ Reading(Noise \cup {"broken"})
  /\ wire' = Tail(wire)
  /\ doneRead' = (doneRead \/ Head(wire).kind = "done")
  /\ UNCHANGED <<gen, conn, providerVars, yielded>>

EscapeMistyped ==
  /\ Reading({"mistyped"})
  /\ wire' = Tail(wire)
  /\ Finish("other exception")
  /\ UNCHANGED <<providerVars, yielded, doneRead>>

(* aiter_lines() is exhausted: the generator returns. *)
Return ==
  /\ Reading({"eof"})
  /\ wire' = Tail(wire)
  /\ Finish("returned")
  /\ UNCHANGED <<providerVars, yielded, doneRead>>

(* A reset is a RequestError, silence for the read timeout a TimeoutException. *)
ReadFails ==
  /\ gen = "reading"
  /\ wire # <<>> => Head(wire).kind = "reset"
  /\ Finish("LLMError")
  /\ UNCHANGED <<wire, providerVars, yielded, doneRead>>

(* CancelledError at an await of the generator. *)
Cancel ==
  /\ gen \in {"opening", "reading"}
  /\ Finish("cancelled")
  /\ UNCHANGED <<wire, providerVars, yielded, doneRead>>

-----------------------------------------------------------------------------
(* The consumer of the generator. *)

Advance ==
  /\ gen = "suspended"
  /\ gen' = "reading"
  /\ UNCHANGED <<conn, wire, providerVars, yielded, doneRead>>

(* `break`, or an exception in the body of `async for`: nobody closes the   *)
(* generator at once, it stays suspended with its connection.               *)
Abandon ==
  /\ gen = "suspended"
  /\ gen' = "abandoned"
  /\ UNCHANGED <<conn, wire, providerVars, yielded, doneRead>>

(* The event loop finalizes a generator that has become unreachable: the    *)
(* GeneratorExit at the yield passes the inner except clause.               *)
Finalize ==
  /\ gen = "abandoned"
  /\ Finish("closed")
  /\ UNCHANGED <<wire, providerVars, yielded, doneRead>>

-----------------------------------------------------------------------------

Provider  == \/ SendToken
             \/ \E kind \in Noise : SendNoise(kind)
             \/ \E kind \in {"eof", "reset"} : EndOfBody(kind)

Generator == \/ Accepted \/ Refused
             \/ Yield \/ Skip \/ EscapeMistyped \/ Return \/ ReadFails

Consumer  == Advance \/ Abandon

Next == Open \/ Provider \/ Generator \/ Cancel \/ Consumer \/ Finalize

(* Fairness: the generator runs when it can, at the latest by its timeout;  *)
(* the consumer goes on or stops; the event loop finalizes.  The provider   *)
(* owes nothing.                                                            *)
Fairness == WF_vars(Generator) /\ WF_vars(Consumer) /\ WF_vars(Finalize)

Spec == Init /\ [][Next]_vars /\ Fairness

-----------------------------------------------------------------------------
(* Properties. *)

TypeOK ==
  /\ gen \in Ended \cup {"idle", "opening", "reading", "suspended", "abandoned"}
  /\ conn \in BOOLEAN
  /\ wire \in Seq(Lines) /\ Len(wire) <= MaxWire + 1
  /\ sent \in 0..Tokens
  /\ noise \in 0..MaxNoise
  /\ provider \in {"sending", "failed", "ended"}
  /\ damaged \subseteq 1..Tokens
  /\ yielded \in Seq(1..Tokens)
  /\ doneRead \in BOOLEAN

(* The consumer sees the tokens in the order of the provider, none twice,   *)
(* and none is passed over but one whose chunk was damaged.                 *)
TokensInOrder ==
  \A i \in 1..Len(yielded) :
    LET before == IF i = 1 THEN 0 ELSE yielded[i - 1]
    IN /\ before < yielded[i]
       /\ \A t \in (before + 1)..(yielded[i] - 1) : t \in damaged

(* A stream whose [DONE] was read before it returned has lost no token but  *)
(* the damaged ones.                                                        *)
DoneIsComplete ==
  gen = "returned" /\ doneRead =>
    \A t \in 1..Tokens : t \in damaged \/ \E i \in 1..Len(yielded) : yielded[i] = t

(* The generator gives its connection back however it ends, also when its   *)
(* consumer walks away from it.                                             *)
ConnectionReturned == conn ~> ~conn
=============================================================================
