----------------------------- MODULE Transactions -----------------------------
(***************************************************************************)
(* What the session factories of backend/app/infrastructure/db/session.py  *)
(* promise their callers, without connections, pools or failures: the work *)
(* of a session takes effect as a whole or not at all, only if its body    *)
(* went through and a commit was asked for, and never for a read session;  *)
(* a caller is told "ok" only when the writes it made are in the database. *)
(* A caller told anything else after the commit was asked for is in doubt: *)
(* the writes may be in the database, or come there after it was told.     *)
(***************************************************************************)
CONSTANTS Sessions

VARIABLES
  mode,    \* mode[s]: "unused", then the factory that opened s
  dirty,   \* sessions that have issued a write
  effect,  \* effect[s]: "open", then "asked" for a commit, then "committed"
           \* or "aborted", which are final
  report   \* report[s]: what the `async with` block told its caller

vars == <<mode, dirty, effect, report>>

Init ==
  /\ mode   = [s \in Sessions |-> "unused"]
  /\ dirty  = {}
  /\ effect = [s \in Sessions |-> "open"]
  /\ report = [s \in Sessions |-> "none"]

Open(s, m) ==
  /\ mode[s] = "unused"
  /\ mode' = [mode EXCEPT ![s] = m]
  /\ UNCHANGED <<dirty, effect, report>>

Write(s) ==
  /\ mode[s] # "unused"
  /\ report[s] = "none"
  /\ effect[s] = "open"
  /\ dirty' = dirty \cup {s}
  /\ UNCHANGED <<mode, effect, report>>

(* The body is done and the commit is asked for. *)
Ask(s) ==
  /\ mode[s] = "write"
  /\ report[s] = "none"
  /\ effect[s] = "open"
  /\ effect' = [effect EXCEPT ![s] = "asked"]
  /\ UNCHANGED <<mode, dirty, report>>

(* The database makes the writes of s durable, whether or not its caller   *)
(* still waits.                                                            *)
Commit(s) ==
  /\ s \in dirty
  /\ effect[s] = "asked"
  /\ effect' = [effect EXCEPT ![s] = "committed"]
  /\ UNCHANGED <<mode, dirty, report>>

(* What the sessions of S have done will never be durable; a crash of the  *)
(* database settles several at once.                                       *)
Abort(S) ==
  /\ \A s \in S : mode[s] # "unused" /\ effect[s] \in {"open", "asked"}
  /\ effect' = [s \in Sessions |-> IF s \in S THEN "aborted" ELSE effect[s]]
  /\ UNCHANGED <<mode, dirty, report>>

(* The block is left. *)
End(s, told) ==
  /\ effect[s] # "open"
  /\ report[s] = "none"
  /\ told = "ok" /\ mode[s] = "write" /\ s \in dirty => effect[s] = "committed"
  /\ report' = [report EXCEPT ![s] = told]
  /\ UNCHANGED <<mode, dirty, effect>>

Next == \/ \E s \in Sessions :
             \/ \E m \in {"write", "read"} : Open(s, m)
             \/ Write(s) \/ Ask(s) \/ Commit(s)
             \/ \E told \in {"ok", "raised", "cancelled"} : End(s, told)
        \/ \E S \in SUBSET Sessions : Abort(S)

Spec == Init /\ [][Next]_vars
=============================================================================
