------------------------------ MODULE BlobStore ------------------------------
(***************************************************************************)
(* What the object storage adapter promises those who await its methods,   *)
(* for one key.  A call may act on the object several times (a client that *)
(* repeats a request), but only between its invocation and its answer; an  *)
(* "ok" and a value are true of some moment in between, an error says      *)
(* nothing.  A call that was abandoned may go on acting, and so may one in *)
(* doubt, whatever its answer: nobody is told when they stop.              *)
(***************************************************************************)
CONSTANTS Calls, Absent

VARIABLES
  blob,    \* the upload whose content the object has, or Absent
  what,    \* what[c]: the operation of call c
  use,     \* use[c]: "idle", "open", "answered" or "abandoned"
  sees,    \* sees[c]: contents call c has met, or made, while it is open
  doubt,   \* calls with a request nobody waits for any more
  result   \* result[c]: its answer

vars == <<blob, what, use, sees, doubt, result>>

Init ==
  /\ blob = Absent
  /\ what = [c \in Calls |-> "none"]
  /\ use = [c \in Calls |-> "idle"]
  /\ sees = [c \in Calls |-> {}]
  /\ doubt = {}
  /\ result = [c \in Calls |-> "none"]

Invoke(c) ==
  /\ use[c] = "idle"
  /\ use' = [use EXCEPT ![c] = "open"]
  /\ \E op \in {"upload", "download", "delete", "exists", "ping"} :
       what' = [what EXCEPT ![c] = op]
  /\ UNCHANGED <<blob, sees, doubt, result>>

Effect(c) == CASE what[c] = "upload" -> c
               [] what[c] = "delete" -> Absent
               [] OTHER -> blob

Act(c) ==
  /\ use[c] \in {"open", "abandoned"}
  /\ blob' = Effect(c)
  /\ sees' = [sees EXCEPT ![c] = IF use[c] = "open" THEN @ \cup {blob'} ELSE @]
  /\ UNCHANGED <<what, use, doubt, result>>

(* A request of c is given up. *)
Doubt(c) ==
  /\ use[c] \in {"open", "abandoned"}
  /\ doubt' = doubt \cup {c}
  /\ UNCHANGED <<blob, what, use, sees, result>>

ActLate(c) ==
  /\ c \in doubt
  /\ blob' = Effect(c)
  /\ UNCHANGED <<what, use, sees, doubt, result>>

(* The answers that are true, given what c has met. *)
Answers(c) ==
  CASE what[c] \in {"upload", "delete"} ->
         {"error"} \cup {"ok" : v \in sees[c]}
    [] what[c] = "download" -> {"error"} \cup (sees[c] \ {Absent})
    [] what[c] = "exists" ->
         {"error"} \cup {IF v = Absent THEN "no" ELSE "yes" : v \in sees[c]}
    [] what[c] = "ping" -> {"no"} \cup {"yes" : v \in sees[c]}

Answer(c) ==
  /\ use[c] = "open"
  /\ use' = [use EXCEPT ![c] = "answered"]
  /\ \E r \in Answers(c) : result' = [result EXCEPT ![c] = r]
  /\ sees' = [sees EXCEPT ![c] = {}]
  /\ UNCHANGED <<blob, what, doubt>>

Abandon(c) ==
  /\ use[c] = "open"
  /\ use' = [use EXCEPT ![c] = "abandoned"]
  /\ sees' = [sees EXCEPT ![c] = {}]
  /\ UNCHANGED <<blob, what, doubt, result>>

Next ==
  \E c \in Calls :
    Invoke(c) \/ Act(c) \/ Doubt(c) \/ ActLate(c) \/ Answer(c) \/ Abandon(c)

Spec == Init /\ [][Next]_vars
=============================================================================
