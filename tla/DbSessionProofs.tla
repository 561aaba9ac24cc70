---------------------------- MODULE DbSessionProofs ----------------------------
(***************************************************************************)
(* Proofs of the safety properties of DbSession, and that it implements    *)
(* Transactions, for any sessions and connections, any pool, any number of *)
(* crashes and connections that break at any moment.                       *)
(*                                                                         *)
(* That nobody commits for others rests on the connections being exclusive,*)
(* and both on Release, which resets a connection before it goes back.  The*)
(* invariant adds how far a session has come (ProgressInv), where its      *)
(* writes are by then (WorkInv), and that a broken connection is held by a *)
(* session that was there when it broke (BreakInv).                        *)
(***************************************************************************)
EXTENDS DbSession, FiniteSetTheorems, TLAPS

-----------------------------------------------------------------------------
(* The inductive invariant. *)

(* How far a session has come. *)
ProgressInv ==
  \A s \in Sessions :
    /\ pc[s] = "idle" <=> kind[s] = "unused"
    /\ pc[s] \in {"commit", "ack", "rollback"} => kind[s] = "write"
    /\ pc[s] \in {"idle", "waiting", "done"} => conn[s] = NoConn
    /\ pc[s] = "ack" => conn[s] # NoConn
    /\ pc[s] \in {"rollback", "close", "done"} <=> answer[s] # "none"
    /\ answer[s] = "none" => cause[s] = "none"

(* Where the writes of a session are: in the transaction of its connection, *)
(* on a wire, or in the database.  While a COMMIT is under way for which a  *)
(* session still waits, its connection is broken if the database may settle *)
(* the writes by another step than ServerCommits.                           *)
WorkInv ==
  /\ \A c \in Connections : txn[c] \subseteq wrote /\ (c \in broken => txn[c] = {})
  /\ \A s \in durable \cup late :
       /\ s \in wrote
       /\ pc[s] \in {"commit", "ack", "rollback", "close", "done"}
       /\ pc[s] = "commit" => conn[s] # NoConn /\ ~Healthy(s)
  /\ \A s \in late : s \notin durable
  /\ \A s \in wrote :
       /\ pc[s] \in {"idle", "body", "waiting", "commit"} => conn[s] # NoConn
       /\ pc[s] \in {"body", "commit"} /\ Healthy(s) => s \in txn[conn[s]]
       /\ pc[s] = "ack" => s \in durable
       /\ answer[s] = "ok" /\ kind[s] = "write" => s \in durable

(* Which connections are broken, and whom that has overtaken: not the one   *)
(* that was cancelled and has given its connection up itself.               *)
BreakInv ==
  /\ ~dbUp => broken = made
  /\ \A s \in Sessions :
       /\ ~dbUp /\ pc[s] # "idle" => s \in hit
       /\ conn[s] \in broken /\ answer[s] = "none" => s \in hit

Inv == /\ TypeOK
       /\ ConnectionsExclusive
       /\ ProgressInv /\ WorkInv /\ BreakInv
       /\ NoForeignWork /\ FailedWorkNotDurable /\ DisconnectsExplained

-----------------------------------------------------------------------------
(* The kinds of steps. *)

(* A session returns its connection. *)
Returns(s) == Acknowledged(s) \/ Rollback(s) \/ Close(s)

(* A session neither takes nor returns a connection, and breaks none. *)
Stays(s) ==
  \/ CheckoutFails(s) \/ Wait(s) \/ WaitTimesOut(s)
  \/ Write(s) \/ StatementFails(s) \/ LeaveBody(s) \/ BodyRaises(s)
  \/ CommitNothing(s) \/ ServerCommits(s) \/ CommitFails(s)
  \/ AckLost(s) \/ CommitRefused(s)

(* Every step is one of these kinds. *)
LEMMA Steps ==
  ASSUME [Next]_vars
  PROVE  \/ \E s \in Sessions, k \in {"write", "read"} : Open(s, k)
         \/ \E s \in Sessions, c \in Connections : Reuse(s, c) \/ Connect(s, c)
         \/ \E s \in Sessions : Returns(s)
         \/ \E s \in Sessions : Stays(s)
         \/ \E s \in Sessions : Cancel(s)
         \/ \E c \in Connections : Disconnect(c)
         \/ \E s \in Sessions : LateCommit(s)
         \/ Crash \/ Recover
         \/ UNCHANGED vars
BY DEF Next, Step, Checkout, Body, Commit, Leave, Returns, Stays

(* A return, however it comes about, releases the connection. *)
LEMMA ReturnReleases ==
  ASSUME NEW s \in Sessions, Returns(s)
  PROVE  Release(s)
BY DEF Returns, Acknowledged, Rollback, Close

(* The other steps of a session disturb neither the pool nor another session. *)
LEMMA StaysPut ==
  ASSUME TypeOK, NEW s \in Sessions, Stays(s)
  PROVE  /\ UNCHANGED <<kind, conn, poolVars, late, hit, dbUp, crashes>>
         /\ pc[s] \notin {"idle", "done"} /\ pc'[s] \notin {"idle", "done"}
         /\ \A t \in Sessions : t # s =>
              pc'[t] = pc[t] /\ answer'[t] = answer[t] /\ cause'[t] = cause[t]
<1>. USE DEF poolVars, dbVars, TypeOK, GoTo, Answer, Fail
<1>1. CASE CheckoutFails(s) \/ Wait(s) \/ WaitTimesOut(s)
  BY <1>1 DEF CheckoutFails, Wait, WaitTimesOut, NeedsConnection
<1>2. CASE Write(s) \/ StatementFails(s) \/ LeaveBody(s) \/ BodyRaises(s)
  BY <1>2 DEF Write, StatementFails, LeaveBody, BodyRaises
<1>3. CASE CommitNothing(s) \/ ServerCommits(s) \/ CommitFails(s)
  BY <1>3 DEF CommitNothing, ServerCommits, CommitFails
<1>4. CASE AckLost(s) \/ CommitRefused(s)
  BY <1>4 DEF AckLost, CommitRefused
<1>. QED  BY <1>1, <1>2, <1>3, <1>4 DEF Stays

(* A connection changes hands by a checkout or a return, and by no other    *)
(* step.                                                                    *)
LEMMA ConnectionMoves ==
  ASSUME TypeOK, [Next]_vars
  PROVE  \/ UNCHANGED <<conn, pool, made>>
         \/ \E s \in Sessions, c \in Connections : Reuse(s, c) \/ Connect(s, c)
         \/ \E s \in Sessions : Returns(s)
BY Steps, StaysPut
DEF Open, Cancel, Disconnect, LateCommit, Crash, Recover, vars, sessionVars,
    poolVars

-----------------------------------------------------------------------------
(* A connection that is given back is nobody's, and no other one is touched. *)

(* A returned connection is pooled, or discarded where there is no room. *)
LEMMA ReleaseFrees ==
  ASSUME TypeOK, ConnectionsExclusive, NEW s \in Sessions, Release(s)
  PROVE  /\ conn' \in [Sessions -> Connections \cup {NoConn}]
         /\ conn'[s] = NoConn
         /\ \A t \in Sessions : t # s => conn'[t] = conn[t]
         /\ pool' \subseteq made' /\ made' \subseteq made
         /\ broken' \subseteq made'
         /\ \A c \in made' : c \in broken' <=> c \in broken
         /\ \A c \in made \ pool : c # conn[s] => c \in made' \ pool'
         /\ txn' \in [Connections -> SUBSET Sessions]
         /\ \A c \in Connections : txn'[c] = IF c = conn[s] THEN {} ELSE txn[c]
<1>. USE PoolAssumption DEF TypeOK
<1>1. CASE conn[s] = NoConn
  BY <1>1 DEF Release, poolVars
<1>2. CASE conn[s] # NoConn
  <2>1. /\ conn' = [conn EXCEPT ![s] = NoConn]
        /\ txn' = [txn EXCEPT ![conn[s]] = {}]
    BY <1>2 DEF Release
  <2>2. conn[s] \in made \ pool
    BY <1>2 DEF ConnectionsExclusive
  <2>3. CASE Cardinality(pool) < PoolSize
    BY <1>2, <2>1, <2>2, <2>3 DEF Release
  <2>4. CASE ~(Cardinality(pool) < PoolSize)
    <3>1. /\ made' = made \ {conn[s]} /\ pool' = pool
          /\ broken' = broken \ {conn[s]}
      BY <1>2, <2>4 DEF Release
    <3>. QED  BY <1>2, <2>1, <2>2, <3>1
  <2>. QED  BY <2>3, <2>4
<1>. QED  BY <1>1, <1>2

(* A connection that breaks takes its transaction along, to the wire if its *)
(* COMMIT was sent, else to nowhere.                                        *)
LEMMA BreakLoses ==
  ASSUME TypeOK, ConnectionsExclusive, NoForeignWork,
         NEW c \in Connections, c \in made, Break(c)
  PROVE  /\ broken' = broken \cup {c} /\ broken' \subseteq made
         /\ txn' \in [Connections -> SUBSET Sessions]
         /\ \A d \in Connections : txn'[d] = IF d = c THEN {} ELSE txn[d]
         /\ late \subseteq late' /\ late' \subseteq Sessions
         /\ \A t \in late' \ late : /\ t \in txn[c] /\ conn[t] = c
                                    /\ pc[t] = "commit"
         /\ \A t \in Sessions : pc[t] = "commit" /\ t \in txn[c] => t \in late'
<1>. USE PoolAssumption DEF TypeOK, Break
<1>1. /\ broken' = broken \cup {c} /\ txn' = [txn EXCEPT ![c] = {}]
  OBVIOUS
<1>2. CASE \E s \in Sessions : conn[s] = c /\ pc[s] = "commit"
  <2>1. late' = late \cup txn[c]
    BY <1>2
  <2>2. \A t \in txn[c] : conn[t] = c
    BY DEF NoForeignWork
  <2>3. \A t \in txn[c] : pc[t] = "commit"
    BY <1>2, <2>2 DEF ConnectionsExclusive
  <2>. QED  BY <1>1, <2>1, <2>2, <2>3
<1>3. CASE ~\E s \in Sessions : conn[s] = c /\ pc[s] = "commit"
  <2>1. late' = late
    BY <1>3
  <2>2. \A t \in txn[c] : conn[t] = c
    BY DEF NoForeignWork
  <2>. QED  BY <1>1, <1>3, <2>1, <2>2
<1>. QED  BY <1>2, <1>3

(* A cancelled session breaks its connection, or leaves all as it is.       *)
LEMMA CancelBreaks ==
  ASSUME TypeOK, ConnectionsExclusive, NEW s \in Sessions, Cancel(s)
  PROVE  \/ /\ UNCHANGED <<broken, txn, late>>
            /\ pc[s] = "commit" => conn[s] = NoConn
         \/ \E c \in made : /\ c \in Connections /\ c = conn[s] /\ Break(c)
                           /\ broken' = broken \cup {c}
<1>1. CASE /\ conn[s] # NoConn => pc[s] \in {"body", "close"}
           /\ UNCHANGED <<broken, txn, late>>
  BY <1>1
<1>2. CASE conn[s] # NoConn /\ Break(conn[s])
  <2>1. PICK c \in Connections : c = conn[s]
    BY <1>2 DEF TypeOK
  <2>2. c \in made
    BY <1>2, <2>1 DEF ConnectionsExclusive
  <2>3. Break(c)
    BY <1>2, <2>1
  <2>. QED  BY <2>1, <2>2, <2>3 DEF Break
<1>. QED  BY <1>1, <1>2 DEF Cancel

-----------------------------------------------------------------------------
(* Type correctness. *)

(* The types hold before the first session is opened. *)
LEMMA TypeInit == Init => TypeOK
BY PoolAssumption DEF Init, TypeOK, Causes

(* An exception leaves a session with an answer and a cause of their types. *)
LEMMA FailTypes ==
  ASSUME TypeOK, NEW s \in Sessions, NEW why \in Causes,
         Fail(s, why)
  PROVE  /\ pc' \in [Sessions -> {"idle", "body", "waiting", "commit", "ack",
                                  "rollback", "close", "done"}]
         /\ answer' \in [Sessions -> {"none", "ok", "raised", "cancelled"}]
         /\ cause' \in [Sessions -> Causes]
BY DEF TypeOK, Fail, GoTo, Answer

(* Every step keeps the types. *)
LEMMA TypeStep ==
  TypeOK /\ ConnectionsExclusive /\ NoForeignWork /\ [Next]_vars => TypeOK'
<1>. SUFFICES ASSUME TypeOK, ConnectionsExclusive, NoForeignWork, [Next]_vars
              PROVE  TypeOK'
  OBVIOUS
<1>. USE PoolAssumption DEF TypeOK, GoTo, Answer, poolVars, dbVars
<1>1. ASSUME NEW s \in Sessions, NEW k \in {"write", "read"}, Open(s, k)
      PROVE  TypeOK'
  BY <1>1 DEF Open
<1>2. ASSUME NEW s \in Sessions, Checkout(s)
      PROVE  TypeOK'
  <2>1. ASSUME NEW c \in Connections, Reuse(s, c)
        PROVE  TypeOK'
    BY <2>1 DEF Reuse
  <2>2. ASSUME NEW c \in Connections, Connect(s, c)
        PROVE  TypeOK'
    BY <2>2 DEF Connect
  <2>3. CASE CheckoutFails(s)
    BY <2>3, FailTypes DEF CheckoutFails, Causes
  <2>4. CASE Wait(s)
    BY <2>4 DEF Wait
  <2>5. CASE WaitTimesOut(s)
    BY <2>5, FailTypes DEF WaitTimesOut, Causes
  <2>. QED  BY <1>2, <2>1, <2>2, <2>3, <2>4, <2>5 DEF Checkout
<1>3. ASSUME NEW s \in Sessions, Body(s) \/ BodyRaises(s)
      PROVE  TypeOK'
  <2>1. CASE Write(s)
    BY <2>1 DEF Write, Healthy
  <2>2. CASE StatementFails(s)
    BY <2>2, FailTypes DEF StatementFails, Causes
  <2>3. CASE LeaveBody(s)
    BY <2>3 DEF LeaveBody
  <2>4. CASE BodyRaises(s)
    BY <2>4, FailTypes DEF BodyRaises, Causes
  <2>. QED  BY <1>3, <2>1, <2>2, <2>3, <2>4 DEF Body
<1>4. ASSUME NEW s \in Sessions, Commit(s) \/ CommitRefused(s)
      PROVE  TypeOK'
  <2>1. CASE CommitNothing(s)
    BY <2>1 DEF CommitNothing
  <2>2. CASE ServerCommits(s)
    BY <2>2 DEF ServerCommits, Healthy
  <2>3. CASE CommitFails(s)
    BY <2>3, FailTypes DEF CommitFails, Causes
  <2>4. CASE Acknowledged(s)
    BY <2>4, ReleaseFrees DEF Acknowledged
  <2>5. CASE AckLost(s)
    BY <2>5, FailTypes DEF AckLost, Causes
  <2>6. CASE CommitRefused(s)
    BY <2>6, FailTypes DEF CommitRefused, Healthy, Causes
  <2>. QED  BY <1>4, <2>1, <2>2, <2>3, <2>4, <2>5, <2>6 DEF Commit
<1>5. ASSUME NEW s \in Sessions, Leave(s) \/ Cancel(s)
      PROVE  TypeOK'
  <2>1. CASE Rollback(s)
    BY <2>1, ReleaseFrees DEF Rollback
  <2>2. CASE Close(s)
    BY <2>2, ReleaseFrees DEF Close
  <2>3. CASE Cancel(s)
    <3>1. /\ broken' \subseteq made /\ late' \subseteq Sessions
          /\ txn' \in [Connections -> SUBSET Sessions]
      BY <2>3, CancelBreaks, BreakLoses
    <3>. QED  BY <2>3, <3>1 DEF Cancel
  <2>. QED  BY <1>5, <2>1, <2>2, <2>3 DEF Leave
<1>6. CASE Crash
  <2>1. crashes' \in 0..MaxCrashes
    BY <1>6 DEF Crash
  <2>2. hit' \subseteq Sessions /\ dbUp' \in BOOLEAN
    BY <1>6, Zenon DEF Crash
  <2>3. txn' \in [Connections -> SUBSET Sessions]
    BY <1>6 DEF Crash
  <2>. QED  BY <1>6, <2>1, <2>2, <2>3 DEF Crash
<1>7. CASE Recover
  BY <1>7 DEF Recover, sessionVars
<1>8. ASSUME NEW c \in Connections, Disconnect(c)
      PROVE  TypeOK'
  <2>1. /\ broken' \subseteq made /\ late' \subseteq Sessions
        /\ txn' \in [Connections -> SUBSET Sessions]
    BY <1>8, BreakLoses DEF Disconnect
  <2>2. hit' \subseteq Sessions
    BY <1>8 DEF Disconnect
  <2>. QED  BY <1>8, <2>1, <2>2 DEF Disconnect
<1>9. ASSUME NEW s \in Sessions, LateCommit(s)
      PROVE  TypeOK'
  BY <1>9 DEF LateCommit, sessionVars
<1>10. CASE UNCHANGED vars
  BY <1>10 DEF vars, sessionVars
<1>. QED
  BY <1>1, <1>2, <1>3, <1>4, <1>5, <1>6, <1>7, <1>8, <1>9, <1>10 DEF Next, Step

-----------------------------------------------------------------------------
(* Connections. *)

(* Every step keeps connections apart. *)
LEMMA ExclusiveStep ==
  TypeOK /\ ConnectionsExclusive /\ [Next]_vars => ConnectionsExclusive'
<1>. SUFFICES ASSUME TypeOK, ConnectionsExclusive, [Next]_vars
              PROVE  ConnectionsExclusive'
  OBVIOUS
<1>. USE PoolAssumption DEF ConnectionsExclusive
<1>1. CASE UNCHANGED <<conn, pool, made>>
  BY <1>1
<1>2. ASSUME NEW s \in Sessions, NEW c \in Connections, Reuse(s, c)
      PROVE  ConnectionsExclusive'
  BY <1>2 DEF Reuse, TypeOK
<1>3. ASSUME NEW s \in Sessions, NEW c \in Connections, Connect(s, c)
      PROVE  ConnectionsExclusive'
  BY <1>3 DEF Connect, TypeOK
<1>4. ASSUME NEW s \in Sessions, Returns(s)
      PROVE  ConnectionsExclusive'
  BY <1>4, ReturnReleases, ReleaseFrees
<1>. QED  BY <1>1, <1>2, <1>3, <1>4, ConnectionMoves

(* The pool never grows beyond what the engine was given. *)
LEMMA BoundsStep ==
  TypeOK /\ ConnectionsExclusive /\ PoolBounds /\ [Next]_vars => PoolBounds'
<1>. SUFFICES ASSUME TypeOK, ConnectionsExclusive, PoolBounds, [Next]_vars
              PROVE  PoolBounds'
  OBVIOUS
<1>. DEFINE taken == {conn[t] : t \in {u \in Sessions : conn[u] # NoConn}}
            bounded == /\ Cardinality(made) <= Capacity
                       /\ Cardinality(pool) <= PoolSize
            reachable == made = pool \cup taken
<1>1. bounded /\ reachable
  BY DEF PoolBounds
<1>2. IsFiniteSet(made) /\ IsFiniteSet(pool)
  BY PoolAssumption, FS_Subset DEF TypeOK
<1>3. /\ Cardinality(made) \in Nat /\ Cardinality(pool) \in Nat
      /\ Capacity \in Nat /\ PoolSize \in Nat
  BY <1>2, FS_CardinalityType, PoolAssumption DEF Capacity
<1>4. SUFFICES bounded' /\ reachable'
  BY DEF PoolBounds
<1>5. CASE UNCHANGED <<conn, pool, made>>
  BY <1>1, <1>5
<1>6. ASSUME NEW s \in Sessions, NEW c \in Connections, Reuse(s, c)
      PROVE  bounded' /\ reachable'
  <2>1. made' = made /\ pool' = pool \ {c} /\ c \in pool
    BY <1>6 DEF Reuse
  <2>2. taken' = taken \cup {c}
    BY <1>6, PoolAssumption DEF Reuse, TypeOK, NeedsConnection
  <2>3. Cardinality(pool') = Cardinality(pool) - 1
    BY <1>2, <2>1, FS_RemoveElement
  <2>. HIDE DEF taken
  <2>4. bounded'
    BY <1>1, <1>3, <2>1, <2>3
  <2>. QED  BY <1>1, <2>1, <2>2, <2>4
<1>7. ASSUME NEW s \in Sessions, NEW c \in Connections, Connect(s, c)
      PROVE  bounded' /\ reachable'
  <2>1. made' = made \cup {c} /\ c \notin made /\ pool' = pool
    BY <1>7 DEF Connect
  <2>2. taken' = taken \cup {c}
    BY <1>7, PoolAssumption DEF Connect, TypeOK, NeedsConnection
  <2>3. /\ Cardinality(made') = Cardinality(made) + 1
        /\ Cardinality(made) < Capacity
    BY <1>2, <1>7, <2>1, FS_AddElement DEF Connect
  <2>. HIDE DEF taken
  <2>4. bounded'
    BY <1>1, <1>3, <2>1, <2>3
  <2>. QED  BY <1>1, <2>1, <2>2, <2>4
<1>8. ASSUME NEW s \in Sessions, Returns(s)
      PROVE  bounded' /\ reachable'
  <2>1. Release(s)
    BY <1>8, ReturnReleases
  <2>2. CASE conn[s] = NoConn
    BY <1>1, <2>1, <2>2 DEF Release, poolVars
  <2>3. CASE conn[s] # NoConn
    <3>1. taken' = taken \ {conn[s]}
      BY <2>1, <2>3, ReleaseFrees, PoolAssumption
      DEF ConnectionsExclusive, TypeOK
    <3>2. conn[s] \in made \ pool
      BY <2>3 DEF ConnectionsExclusive
    <3>3. conn[s] \in taken
      BY <2>3
    <3>. HIDE DEF taken
    <3>4. CASE Cardinality(pool) < PoolSize
      <4>1. pool' = pool \cup {conn[s]} /\ made' = made
        BY <2>1, <2>3, <3>4 DEF Release
      <4>2. Cardinality(pool') = Cardinality(pool) + 1
        BY <1>2, <3>2, <4>1, FS_AddElement
      <4>3. bounded'
        BY <1>1, <1>3, <3>4, <4>1, <4>2
      <4>. QED  BY <1>1, <3>1, <3>3, <4>1, <4>3
    <3>5. CASE ~(Cardinality(pool) < PoolSize)
      <4>1. pool' = pool /\ made' = made \ {conn[s]}
        BY <2>1, <2>3, <3>5 DEF Release
      <4>2. Cardinality(made') = Cardinality(made) - 1
        BY <1>2, <3>2, <4>1, FS_RemoveElement
      <4>3. bounded'
        BY <1>1, <1>3, <4>1, <4>2
      <4>. QED  BY <1>1, <3>1, <3>2, <4>1, <4>3
    <3>. QED  BY <3>4, <3>5
  <2>. QED  BY <2>2, <2>3
<1>. QED  BY <1>5, <1>6, <1>7, <1>8, ConnectionMoves

-----------------------------------------------------------------------------
(* Sessions. *)

(* A session does one thing at a time: no other moves in its step. *)
LEMMA ProgressStep ==
  TypeOK /\ ConnectionsExclusive /\ ProgressInv /\ [Next]_vars => ProgressInv'
<1>. SUFFICES ASSUME TypeOK, ConnectionsExclusive, ProgressInv, [Next]_vars
              PROVE  ProgressInv'
  OBVIOUS
<1>. USE PoolAssumption DEF TypeOK, ProgressInv, GoTo, Answer, Fail
<1>1. ASSUME NEW s \in Sessions, NEW k \in {"write", "read"}, Open(s, k)
      PROVE  ProgressInv'
  BY <1>1 DEF Open
<1>2. ASSUME NEW s \in Sessions, Checkout(s)
      PROVE  ProgressInv'
  <2>1. ASSUME NEW c \in Connections, Reuse(s, c) \/ Connect(s, c)
        PROVE  ProgressInv'
    BY <2>1 DEF Reuse, Connect, NeedsConnection
  <2>2. CASE CheckoutFails(s) \/ WaitTimesOut(s)
    BY <2>2 DEF CheckoutFails, WaitTimesOut, NeedsConnection
  <2>3. CASE Wait(s)
    BY <2>3 DEF Wait
  <2>. QED  BY <1>2, <2>1, <2>2, <2>3 DEF Checkout
<1>3. ASSUME NEW s \in Sessions, Body(s) \/ BodyRaises(s)
      PROVE  ProgressInv'
  BY <1>3 DEF Body, Write, StatementFails, LeaveBody, BodyRaises
<1>4. ASSUME NEW s \in Sessions, Commit(s) \/ CommitRefused(s), ~Returns(s)
      PROVE  ProgressInv'
  BY <1>4 DEF Commit, CommitNothing, ServerCommits, CommitFails, AckLost,
              CommitRefused, Returns, Healthy
<1>5. ASSUME NEW s \in Sessions, Returns(s)
      PROVE  ProgressInv'
  BY <1>5, ReturnReleases, ReleaseFrees
  DEF Returns, Acknowledged, Rollback, Close
<1>6. ASSUME NEW s \in Sessions, Cancel(s)
      PROVE  ProgressInv'
  BY <1>6 DEF Cancel
<1>7. CASE UNCHANGED <<kind, pc, conn, answer, cause>>
  BY <1>7
<1>. QED
  BY <1>1, <1>2, <1>3, <1>4, <1>5, <1>6, <1>7
  DEF Next, Step, Leave, Returns, Disconnect, LateCommit, Crash, Recover, vars,
      sessionVars

(* A session that has a broken connection was there when it broke. *)
LEMMA BreakStep ==
  TypeOK /\ ConnectionsExclusive /\ ProgressInv /\ BreakInv /\ [Next]_vars
    => BreakInv'
<1>. SUFFICES ASSUME TypeOK, ConnectionsExclusive, ProgressInv, BreakInv,
                     [Next]_vars
              PROVE  BreakInv'
  OBVIOUS
<1>. USE PoolAssumption DEF TypeOK, BreakInv, GoTo
<1>1. ASSUME NEW s \in Sessions, NEW k \in {"write", "read"}, Open(s, k)
      PROVE  BreakInv'
  BY <1>1 DEF Open, ProgressInv, poolVars, dbVars
<1>2. ASSUME NEW s \in Sessions, NEW c \in Connections,
             Reuse(s, c) \/ Connect(s, c)
      PROVE  BreakInv'
  BY <1>2 DEF Reuse, Connect, NeedsConnection, ConnectionsExclusive, dbVars
<1>3. ASSUME NEW s \in Sessions, Returns(s)
      PROVE  BreakInv'
  <2>1. /\ UNCHANGED <<hit, dbUp>>
        /\ pc[s] # "idle" /\ answer'[s] # "none"
        /\ \A t \in Sessions : t # s => pc'[t] = pc[t] /\ answer'[t] = answer[t]
    BY <1>3 DEF Returns, Acknowledged, Rollback, Close, Answer, ProgressInv
  <2>2. \A t \in Sessions : t # s => conn'[t] = conn[t]
    BY <1>3, ReturnReleases, ReleaseFrees
  <2>3. broken' \subseteq made' /\ \A c \in made' : c \in broken' <=> c \in broken
    BY <1>3, ReturnReleases, ReleaseFrees
  <2>4. made' \subseteq made
    BY <1>3, ReturnReleases, ReleaseFrees
  <2>. QED  BY <2>1, <2>2, <2>3, <2>4
<1>4. CASE Crash
  BY <1>4 DEF Crash, ProgressInv
<1>5. CASE Recover
  BY <1>5 DEF Recover, sessionVars, poolVars
<1>6. ASSUME NEW s \in Sessions, Stays(s)
      PROVE  BreakInv'
  <2>1. UNCHANGED <<conn, made, broken, hit, dbUp>>
    BY <1>6, StaysPut DEF poolVars
  <2>2. \A t \in Sessions : pc'[t] # "idle" => pc[t] # "idle"
    BY <1>6, StaysPut
  <2>3. \A t \in Sessions : answer'[t] = "none" => answer[t] = "none"
    BY <1>6 DEF Stays, CheckoutFails, Wait, WaitTimesOut, Write, StatementFails,
       LeaveBody, BodyRaises, CommitNothing, ServerCommits, CommitFails,
       AckLost, CommitRefused, Fail, Answer
  <2>. QED  BY <2>1, <2>2, <2>3
<1>7. ASSUME NEW s \in Sessions, Cancel(s)
      PROVE  BreakInv'
  <2>1. /\ UNCHANGED <<conn, made, hit, dbUp>>
        /\ answer' = [answer EXCEPT ![s] = "cancelled"]
        /\ pc' = [pc EXCEPT ![s] = "close"] /\ pc[s] # "idle"
    BY <1>7 DEF Cancel, Answer
  <2>2. \/ broken' = broken
        \/ broken' = broken \cup {conn[s]} /\ conn[s] \in made
    BY <1>7, CancelBreaks
  <2>3. \A t \in Sessions : t # s /\ conn[t] \in broken' => conn[t] \in broken
    BY <2>2 DEF ConnectionsExclusive
  <2>. QED  BY <2>1, <2>2, <2>3
<1>8. ASSUME NEW c \in Connections, Disconnect(c)
      PROVE  BreakInv'
  BY <1>8 DEF Disconnect, Break
<1>9. CASE UNCHANGED <<pc, conn, answer, hit, made, broken, dbUp>>
  BY <1>9
<1>10. ASSUME NEW s \in Sessions, LateCommit(s)
       PROVE  BreakInv'
  BY <1>9, <1>10 DEF LateCommit, sessionVars, poolVars
<1>11. CASE UNCHANGED vars
  BY <1>9, <1>11 DEF vars, sessionVars, poolVars, dbVars
<1>. QED
  BY <1>1, <1>2, <1>3, <1>4, <1>5, <1>6, <1>7, <1>8, <1>10, <1>11, Steps

(* Writes reach the database through the commit of their own session only.  *)
LEMMA WorkStep == Inv /\ [Next]_vars => (WorkInv /\ NoForeignWork)'
<1>. SUFFICES ASSUME Inv, [Next]_vars
              PROVE  (WorkInv /\ NoForeignWork)'
  OBVIOUS
<1>. USE PoolAssumption DEF Inv, TypeOK, ProgressInv, WorkInv, NoForeignWork,
         Healthy, GoTo, Answer
<1>1. ASSUME NEW s \in Sessions, NEW k \in {"write", "read"}, Open(s, k)
      PROVE  (WorkInv /\ NoForeignWork)'
  BY <1>1 DEF Open, poolVars, dbVars
<1>2. ASSUME NEW s \in Sessions, NEW c \in Connections,
             Reuse(s, c) \/ Connect(s, c)
      PROVE  (WorkInv /\ NoForeignWork)'
  BY <1>2 DEF Reuse, Connect, NeedsConnection, ConnectionsExclusive, dbVars
<1>3. ASSUME NEW s \in Sessions, Returns(s)
      PROVE  (WorkInv /\ NoForeignWork)'
  <2>. Release(s)
    BY <1>3, ReturnReleases
  <2>1. /\ UNCHANGED <<wrote, durable, late, kind>>
        /\ pc[s] \in {"ack", "rollback", "close"}
        /\ pc'[s] \in {"close", "done"}
        /\ pc[s] # "ack" => answer' = answer
        /\ \A t \in Sessions : t # s => pc'[t] = pc[t] /\ answer'[t] = answer[t]
    BY <1>3 DEF Returns, Acknowledged, Rollback, Close
  <2>2. \A t \in Sessions : t # s /\ conn[t] # NoConn =>
          /\ conn'[t] = conn[t] /\ conn[t] # conn[s]
          /\ conn[t] \in broken' <=> conn[t] \in broken
          /\ txn'[conn[t]] = txn[conn[t]]
    BY ReleaseFrees DEF ConnectionsExclusive
  <2>3. \A t \in Sessions : t # s => conn'[t] = conn[t]
    BY ReleaseFrees
  <2>4. \A c \in Connections : txn'[c] \subseteq txn[c] /\ s \notin txn'[c]
    BY ReleaseFrees
  <2>5. \A c \in Connections : c \in broken' => c \in broken
    BY ReleaseFrees
  <2>6. WorkInv'
    BY <2>1, <2>2, <2>3, <2>4, <2>5
  <2>7. NoForeignWork'
    BY <2>2, <2>3, <2>4
  <2>. QED  BY <2>6, <2>7
<1>4. ASSUME NEW s \in Sessions, Write(s)
      PROVE  (WorkInv /\ NoForeignWork)'
  BY <1>4 DEF Write, poolVars, ConnectionsExclusive
<1>5. ASSUME NEW s \in Sessions, ServerCommits(s)
      PROVE  (WorkInv /\ NoForeignWork)'
  BY <1>5 DEF ServerCommits, poolVars, ConnectionsExclusive
<1>6. ASSUME NEW s \in Sessions, CommitRefused(s)
      PROVE  (WorkInv /\ NoForeignWork)'
  BY <1>6 DEF CommitRefused, Fail, poolVars, ConnectionsExclusive
<1>7. ASSUME NEW s \in Sessions, Stays(s),
             ~Write(s), ~ServerCommits(s), ~CommitRefused(s)
      PROVE  (WorkInv /\ NoForeignWork)'
  <2>1. UNCHANGED <<kind, conn, wrote, broken, txn, late, durable>>
    BY <1>7, StaysPut
    DEF Stays, CheckoutFails, Wait, WaitTimesOut, StatementFails, LeaveBody,
        BodyRaises, CommitNothing, CommitFails, AckLost, dbVars, poolVars
  <2>2. \A t \in Sessions : Healthy(t)' = Healthy(t)
    BY <2>1
  <2>3. \A t \in Sessions : t # s => pc'[t] = pc[t] /\ answer'[t] = answer[t]
    BY <1>7, StaysPut
  <2>4. pc[s] \in {"commit", "ack", "rollback", "close", "done"}
          => pc'[s] \in {"rollback", "close"}
    BY <1>7 DEF Stays, CheckoutFails, Wait, WaitTimesOut, StatementFails,
       LeaveBody, BodyRaises, CommitNothing, CommitFails, AckLost, Fail,
       NeedsConnection
  <2>5. /\ pc'[s] # "ack" /\ pc'[s] # "idle"
        /\ pc'[s] \in {"body", "waiting", "commit"} =>
             pc[s] \in {"body", "waiting"} /\ answer'[s] = answer[s]
        /\ pc'[s] = "body" \/ pc'[s] = "commit" => pc[s] = "body"
    BY <1>7 DEF Stays, CheckoutFails, Wait, WaitTimesOut, StatementFails,
       LeaveBody, BodyRaises, CommitNothing, CommitFails, AckLost, Fail
  <2>6. answer'[s] = "ok" /\ kind[s] = "write" => s \notin wrote
    <3>. SUFFICES ASSUME answer'[s] = "ok", kind[s] = "write"
                  PROVE  CommitNothing(s)
      BY DEF CommitNothing
    <3>. QED
    BY <1>7 DEF Stays, CheckoutFails, Wait, WaitTimesOut, StatementFails,
       LeaveBody, BodyRaises, CommitNothing, CommitFails, AckLost, Fail
  <2>. HIDE DEF Healthy
  <2>7. \A t \in durable' \cup late' :
          /\ t \in wrote' /\ pc'[t] \in {"commit", "ack", "rollback", "close", "done"}
          /\ pc'[t] = "commit" => conn'[t] # NoConn /\ ~Healthy(t)'
    BY <2>1, <2>2, <2>3, <2>4
  <2>8. \A t \in wrote' :
          pc'[t] \in {"idle", "body", "waiting", "commit"} => conn'[t] # NoConn
    BY <2>1, <2>3, <2>5
  <2>9. \A t \in wrote' :
           pc'[t] \in {"body", "commit"} /\ Healthy(t)' => t \in txn'[conn'[t]]
    BY <2>1, <2>2, <2>3, <2>5
  <2>10. \A t \in wrote' :
           /\ pc'[t] = "ack" => t \in durable'
           /\ answer'[t] = "ok" /\ kind'[t] = "write" => t \in durable'
    BY <2>1, <2>3, <2>5, <2>6
  <2>. QED  BY <2>1, <2>7, <2>8, <2>9, <2>10
<1>8. ASSUME NEW s \in Sessions, Cancel(s)
      PROVE  (WorkInv /\ NoForeignWork)'
  <2>1. /\ UNCHANGED <<kind, conn, wrote, durable>>
        /\ answer' = [answer EXCEPT ![s] = "cancelled"]
        /\ pc' = [pc EXCEPT ![s] = "close"]
        /\ pc[s] \in {"body", "waiting", "commit", "ack", "rollback", "close"}
    BY <1>8 DEF Cancel
  <2>2. CASE UNCHANGED <<broken, txn, late>>
    BY <2>1, <2>2
  <2>3. ASSUME NEW c \in made, c \in Connections, c = conn[s], Break(c)
        PROVE  (WorkInv /\ NoForeignWork)'
    <3>1. /\ broken' = broken \cup {c}
          /\ \A d \in Connections : txn'[d] = IF d = c THEN {} ELSE txn[d]
          /\ \A t \in late' \ late : /\ t \in txn[c] /\ conn[t] = c
                                     /\ pc[t] = "commit"
      BY <2>3, BreakLoses
    <3>2. \A t \in late' \ late : t = s /\ t \in wrote /\ t \notin durable
      BY <2>3, <3>1 DEF ConnectionsExclusive
    <3>3. \A t \in Sessions : t # s /\ conn[t] # NoConn => conn[t] # c
      BY <2>3 DEF ConnectionsExclusive
    <3>. QED  BY <2>1, <2>3, <3>1, <3>2, <3>3
  <2>. QED  BY <1>8, <2>2, <2>3, CancelBreaks
<1>9. ASSUME NEW c \in Connections, Disconnect(c)
      PROVE  (WorkInv /\ NoForeignWork)'
  <2>1. UNCHANGED <<kind, conn, wrote, durable, pc, answer>>
    BY <1>9 DEF Disconnect
  <2>2. /\ broken' = broken \cup {c}
        /\ \A d \in Connections : txn'[d] = IF d = c THEN {} ELSE txn[d]
        /\ late \subseteq late'
        /\ \A t \in late' \ late : /\ t \in txn[c] /\ conn[t] = c
                                   /\ pc[t] = "commit"
    BY <1>9, BreakLoses DEF Disconnect
  <2>3. c \notin broken
    BY <1>9 DEF Disconnect
  <2>4. \A t \in late' \ late : t \in wrote /\ t \notin durable
    BY <2>2, <2>3
  <2>. QED  BY <2>1, <2>2, <2>4
<1>10. ASSUME NEW s \in Sessions, LateCommit(s)
       PROVE  (WorkInv /\ NoForeignWork)'
  BY <1>10 DEF LateCommit, sessionVars, poolVars
<1>11. CASE Crash
  <2>1. /\ UNCHANGED <<wrote, durable, kind, pc, answer, conn>>
        /\ late' = {} /\ broken' = made
        /\ \A c \in Connections : txn'[c] = {}
    BY <1>11 DEF Crash
  <2>2. \A s \in Sessions : ~Healthy(s)'
    BY <2>1 DEF ConnectionsExclusive
  <2>. QED  BY <2>1, <2>2
<1>12. CASE Recover \/ UNCHANGED vars
  BY <1>12 DEF Recover, vars, sessionVars, poolVars, dbVars
<1>. QED
  BY <1>1, <1>2, <1>3, <1>4, <1>5, <1>6, <1>7, <1>8, <1>9, <1>10, <1>11, <1>12,
     Steps

(* What a session did before it failed is not committed by anybody. *)
LEMMA FailedStep == Inv /\ [Next]_vars => FailedWorkNotDurable'
<1>. SUFFICES ASSUME Inv, [Next]_vars
              PROVE  FailedWorkNotDurable'
  OBVIOUS
<1>. USE DEF Inv, TypeOK, ProgressInv, WorkInv, FailedWorkNotDurable
<1>1. ASSUME NEW s \in Sessions, NEW k \in {"write", "read"}, Open(s, k)
      PROVE  FailedWorkNotDurable'
  BY <1>1 DEF Open, dbVars
<1>2. ASSUME NEW s \in Sessions, ServerCommits(s)
      PROVE  FailedWorkNotDurable'
  <2>1. txn[conn[s]] \subseteq {s}
    BY <1>2 DEF ServerCommits, Healthy, NoForeignWork, ConnectionsExclusive
  <2>. QED  BY <1>2, <2>1 DEF ServerCommits
<1>3. ASSUME NEW s \in Sessions, Stays(s), ~ServerCommits(s)
      PROVE  FailedWorkNotDurable'
  <2>1. UNCHANGED <<kind, durable, late>>
    BY <1>3, StaysPut
    DEF Stays, CheckoutFails, Wait, WaitTimesOut, Write, StatementFails,
        LeaveBody, BodyRaises, CommitNothing, CommitFails, CommitRefused,
        AckLost, dbVars
  <2>2. \/ cause'[s] \in {cause[s], "commit"}
        \/ pc[s] \in {"body", "waiting"}
        \/ pc[s] = "commit" /\ Healthy(s)
    BY <1>3
    DEF Stays, CheckoutFails, Wait, WaitTimesOut, Write, StatementFails,
        LeaveBody, BodyRaises, CommitNothing, CommitFails, CommitRefused,
        AckLost, Fail, NeedsConnection
  <2>3. \A t \in Sessions : t # s => cause'[t] = cause[t]
    BY <1>3, StaysPut
  <2>. QED  BY <2>1, <2>2, <2>3
<1>4. ASSUME UNCHANGED <<kind, cause>>,
             \A t \in durable' \cup late' :
               t \in durable \cup late \/ (t \in Sessions /\ pc[t] = "commit")
      PROVE  FailedWorkNotDurable'
  BY <1>4
<1>5. ASSUME NEW s \in Sessions, Cancel(s)
      PROVE  FailedWorkNotDurable'
  <2>1. UNCHANGED <<kind, cause, durable>>
    BY <1>5 DEF Cancel
  <2>2. \A t \in late' : t \in late \/ (t \in Sessions /\ pc[t] = "commit")
    BY <1>5, CancelBreaks, BreakLoses
  <2>. QED  BY <1>4, <2>1, <2>2
<1>6. ASSUME NEW c \in Connections, Disconnect(c)
      PROVE  FailedWorkNotDurable'
  <2>1. UNCHANGED <<kind, cause, durable>>
    BY <1>6 DEF Disconnect
  <2>2. \A t \in late' : t \in late \/ (t \in Sessions /\ pc[t] = "commit")
    BY <1>6, BreakLoses DEF Disconnect
  <2>. QED  BY <1>4, <2>1, <2>2
<1>7. ASSUME NEW s \in Sessions, LateCommit(s)
      PROVE  FailedWorkNotDurable'
  BY <1>4, <1>7 DEF LateCommit, sessionVars
<1>8. ASSUME NEW s \in Sessions, NEW c \in Connections,
             Reuse(s, c) \/ Connect(s, c)
      PROVE  FailedWorkNotDurable'
  BY <1>4, <1>8 DEF Reuse, Connect, dbVars
<1>9. ASSUME NEW s \in Sessions, Returns(s)
      PROVE  FailedWorkNotDurable'
  BY <1>4, <1>9 DEF Returns, Acknowledged, Rollback, Close
<1>10. CASE Crash \/ Recover \/ UNCHANGED vars
  BY <1>4, <1>10 DEF Crash, Recover, vars, sessionVars, dbVars
<1>. QED
  BY <1>1, <1>2, <1>3, <1>5, <1>6, <1>7, <1>8, <1>9, <1>10, Steps

(* What fails for a lost connection was overtaken by a crash, or by the     *)
(* disconnection of its own connection.                                     *)
LEMMA DisconnectStep == Inv /\ [Next]_vars => DisconnectsExplained'
<1>. SUFFICES ASSUME Inv, [Next]_vars
              PROVE  DisconnectsExplained'
  OBVIOUS
<1>. USE DEF Inv, TypeOK, DisconnectsExplained
<1>1. hit \subseteq hit'
  BY Steps, StaysPut
  DEF Open, Reuse, Connect, Returns, Acknowledged, Rollback, Close, Cancel,
      Disconnect, LateCommit, Crash, Recover, vars, sessionVars
<1>2. ASSUME NEW s \in Sessions, Stays(s)
      PROVE  DisconnectsExplained'
  <2>1. \A t \in Sessions : t # s => cause'[t] = cause[t]
    BY <1>2, StaysPut
  <2>2. CASE StatementFails(s) \/ CommitFails(s) \/ AckLost(s)
    <3>1. conn[s] # NoConn /\ ~Healthy(s) /\ answer[s] = "none"
      BY <2>2 DEF StatementFails, CommitFails, AckLost, ProgressInv
    <3>2. s \in hit
      BY <3>1 DEF Healthy, BreakInv
    <3>. QED  BY <1>1, <2>1, <3>2
  <2>3. CASE CheckoutFails(s)
    <3>1. s \in hit
      BY <2>3 DEF CheckoutFails, NeedsConnection, BreakInv
    <3>. QED  BY <1>1, <2>1, <3>1
  <2>4. CASE ~(\/ StatementFails(s) \/ CommitFails(s) \/ AckLost(s)
               \/ CheckoutFails(s))
    <3>1. cause'[s] \in {"pool", "body", "refused"} \/ cause'[s] = cause[s]
      BY <1>2, <2>4 DEF Stays, Wait, WaitTimesOut, Write, LeaveBody, BodyRaises,
         CommitNothing, ServerCommits, CommitRefused, Fail
    <3>. QED  BY <1>1, <2>1, <3>1
  <2>. QED  BY <2>2, <2>3, <2>4
<1>3. CASE UNCHANGED cause
  BY <1>1, <1>3
<1>. QED
  BY <1>2, <1>3, Steps
  DEF Open, Reuse, Connect, Returns, Acknowledged, Rollback, Close, Cancel,
      Disconnect, LateCommit, Crash, Recover, vars, sessionVars

-----------------------------------------------------------------------------
(* The invariant. *)

(* The invariant holds before the first session is opened. *)
LEMMA InvInit == Init => Inv
BY PoolAssumption, TypeInit
DEF Init, Inv, ConnectionsExclusive, ProgressInv, WorkInv, BreakInv,
    NoForeignWork, FailedWorkNotDurable, DisconnectsExplained

(* Every step keeps the invariant. *)
LEMMA InvStep == Inv /\ [Next]_vars => Inv'
BY TypeStep, ExclusiveStep, ProgressStep, BreakStep, WorkStep, FailedStep,
   DisconnectStep
DEF Inv

(* The inductive invariant of sessions, pool and database holds for ever. *)
THEOREM Invariant == Spec => []Inv
BY InvInit, InvStep, PTL DEF Spec

-----------------------------------------------------------------------------
(* The factories implement Transactions. *)

(* Where nothing more is known of a session than that its work is lost, or  *)
(* nothing at all, Transactions settles the sessions it is true of.         *)
LEMMA Settles ==
  ASSUME UNCHANGED <<kind, wrote>>,
         \A t \in Sessions : /\ pc'[t] = "done" <=> pc[t] = "done"
                             /\ pc[t] = "done" => answer'[t] = answer[t],
         \A t \in Sessions :
           \/ Effect(t)' = Effect(t)
           \/ /\ kind[t] # "unused" /\ Effect(t) \in {"open", "asked"}
              /\ Effect(t)' = "aborted"
  PROVE  Tx!Next
<1>. DEFINE S == {t \in Sessions : Effect(t)' # Effect(t)}
            effect == [t \in Sessions |-> Effect(t)]
            report == [t \in Sessions |->
                         IF pc[t] = "done" THEN answer[t] ELSE "none"]
<1>1. \A t \in S : kind[t] # "unused" /\ Effect(t) \in {"open", "asked"}
  OBVIOUS
<1>2. effect' = [t \in Sessions |-> IF t \in S THEN "aborted" ELSE effect[t]]
  OBVIOUS
<1>3. report' = report
  OBVIOUS
<1>4. Tx!Abort(S)
  <2>. HIDE DEF effect, report
  <2>1. \A t \in S : effect[t] \in {"open", "asked"}
    BY <1>1 DEF effect
  <2>. QED  BY <1>1, <1>2, <1>3, <2>1 DEF Tx!Abort, effect, report
<1>5. S \in SUBSET Sessions
  OBVIOUS
<1>. QED  BY <1>4, <1>5 DEF Tx!Next

(* The effect of one session changes when no other one's does. *)
LEMMA EffectOfOne ==
  ASSUME NEW s \in Sessions, NEW e, Effect(s)' = e,
         \A t \in Sessions : t # s => Effect(t)' = Effect(t)
  PROVE  [t \in Sessions |-> Effect(t)]'
           = [[t \in Sessions |-> Effect(t)] EXCEPT ![s] = e]
<1>. DEFINE eff == [t \in Sessions |-> Effect(t)]
<1>1. /\ \A t \in Sessions : t # s => eff'[t] = eff[t]
      /\ eff'[s] = e
  OBVIOUS
<1>2. /\ eff = [t \in Sessions |-> eff[t]]
      /\ eff' = [t \in Sessions |-> eff'[t]]
  OBVIOUS
<1>. HIDE DEF eff
<1>3. eff' = [eff EXCEPT ![s] = e]
  BY <1>1, <1>2
<1>. QED  BY <1>3 DEF eff

(* The initial states of the factories are those of Transactions. *)
LEMMA RefineInit == Init => Tx!Init
BY DEF Init, Tx!Init, Effect

(* A step of the factories is a step of Transactions or a stutter. *)
LEMMA RefineStep == Inv /\ [Next]_vars => [Tx!Next]_(Tx!vars)
<1>. SUFFICES ASSUME Inv, [Next]_vars
              PROVE  Tx!Next \/ UNCHANGED Tx!vars
  OBVIOUS
<1>. USE DEF Inv, TypeOK, ProgressInv, WorkInv, GoTo, Effect
<1>1. ASSUME NEW s \in Sessions, NEW k \in {"write", "read"}, Open(s, k)
      PROVE  Tx!Next
  <2>1. Tx!Open(s, k)
    BY <1>1 DEF Open, Tx!Open, dbVars
  <2>. QED  BY <2>1 DEF Tx!Next
<1>2. ASSUME NEW s \in Sessions, Write(s)
      PROVE  Tx!Next
  <2>1. Tx!Write(s)
    BY <1>2 DEF Write, Tx!Write
  <2>. QED  BY <2>1 DEF Tx!Next
<1>3. ASSUME NEW s \in Sessions, LeaveBody(s), kind[s] = "write"
      PROVE  Tx!Next
  <2>1. /\ UNCHANGED <<kind, wrote, durable, late, answer>>
        /\ pc' = [pc EXCEPT ![s] = "commit"] /\ pc[s] = "body"
    BY <1>3 DEF LeaveBody, dbVars
  <2>2. s \notin durable \cup late
    BY <2>1
  <2>3. /\ Effect(s) = "open" /\ Effect(s)' = "asked"
        /\ \A t \in Sessions : t # s => Effect(t)' = Effect(t)
    BY <2>1, <2>2
  <2>4. pc[s] # "done" /\ \A t \in Sessions : pc'[t] = "done" <=> pc[t] = "done"
    BY <2>1
  <2>. HIDE DEF Effect
  <2>5. Tx!Ask(s)
    BY <1>3, <2>1, <2>3, <2>4, EffectOfOne DEF Tx!Ask
  <2>. QED  BY <2>5 DEF Tx!Next
<1>4. ASSUME NEW s \in Sessions, ServerCommits(s)
      PROVE  Tx!Next
  <2>1. /\ UNCHANGED <<kind, wrote, answer, late>>
        /\ pc' = [pc EXCEPT ![s] = "ack"] /\ pc[s] = "commit"
        /\ durable' = durable \cup txn[conn[s]]
        /\ Healthy(s)
    BY <1>4 DEF ServerCommits
  <2>2. txn[conn[s]] \subseteq {s} \cap wrote
    BY <2>1 DEF Healthy, NoForeignWork, ConnectionsExclusive
  <2>3. CASE s \in wrote
    <3>1. durable' = durable \cup {s} /\ s \notin durable \cup late
      BY <2>1, <2>2, <2>3
    <3>2. /\ Effect(s) = "asked" /\ Effect(s)' = "committed"
          /\ \A t \in Sessions : t # s => Effect(t)' = Effect(t)
      BY <2>1, <3>1
    <3>3. \A t \in Sessions : pc'[t] = "done" <=> pc[t] = "done"
      BY <2>1
    <3>. HIDE DEF Effect
    <3>4. Tx!Commit(s)
      BY <2>1, <2>3, <3>2, <3>3, EffectOfOne DEF Tx!Commit
    <3>. QED  BY <3>4 DEF Tx!Next
  <2>4. CASE s \notin wrote
    <3>1. durable' = durable
      BY <2>1, <2>2, <2>4
    <3>. QED  BY <2>1, <3>1, Settles
  <2>. QED  BY <2>3, <2>4
<1>5. ASSUME NEW s \in Sessions, LateCommit(s)
      PROVE  Tx!Next
  <2>1. /\ UNCHANGED <<kind, wrote, answer, pc>>
        /\ durable' = durable \cup {s} /\ late' = late \ {s}
        /\ s \in late /\ s \in wrote /\ s \notin durable
    BY <1>5 DEF LateCommit, sessionVars
  <2>2. /\ Effect(s) = "asked" /\ Effect(s)' = "committed"
        /\ \A t \in Sessions : t # s => Effect(t)' = Effect(t)
    BY <2>1
  <2>. HIDE DEF Effect
  <2>3. Tx!Commit(s)
    BY <2>1, <2>2, EffectOfOne DEF Tx!Commit
  <2>. QED  BY <2>3 DEF Tx!Next
<1>6. ASSUME NEW s \in Sessions, Close(s)
      PROVE  Tx!Next
  <2>. DEFINE eff == [t \in Sessions |-> Effect(t)]
              rep == [t \in Sessions |->
                       IF pc[t] = "done" THEN answer[t] ELSE "none"]
  <2>1. /\ UNCHANGED <<kind, wrote, answer, durable, late>>
        /\ pc' = [pc EXCEPT ![s] = "done"] /\ pc[s] = "close"
    BY <1>6 DEF Close
  <2>2. PICK told \in {"ok", "raised", "cancelled"} : told = answer[s]
    BY <2>1
  <2>3. eff' = eff
    BY <2>1
  <2>4. rep' = [rep EXCEPT ![s] = told]
    BY <2>1, <2>2
  <2>5. /\ eff[s] # "open" /\ rep[s] = "none"
        /\ told = "ok" /\ kind[s] = "write" /\ s \in wrote
             => eff[s] = "committed"
    BY <2>1, <2>2
  <2>6. Tx!End(s, told)
    BY <2>1, <2>3, <2>4, <2>5 DEF Tx!End
  <2>. QED  BY <2>6 DEF Tx!Next
<1>7. ASSUME NEW s \in Sessions, Returns(s), ~Close(s)
      PROVE  Tx!Next
  <2>1. /\ UNCHANGED <<kind, wrote, durable, late>>
        /\ pc[s] \in {"ack", "rollback"} /\ pc' = [pc EXCEPT ![s] = "close"]
        /\ \A t \in Sessions : t # s => answer'[t] = answer[t]
    BY <1>7 DEF Returns, Acknowledged, Rollback, Answer
  <2>. QED  BY <2>1, Settles
<1>8. ASSUME NEW s \in Sessions, Stays(s), ~Write(s), ~ServerCommits(s),
             ~(LeaveBody(s) /\ kind[s] = "write")
      PROVE  Tx!Next
  <2>1. UNCHANGED <<kind, wrote, durable, late>>
    BY <1>8, StaysPut
    DEF Stays, CheckoutFails, Wait, WaitTimesOut, StatementFails, LeaveBody,
        BodyRaises, CommitNothing, CommitFails, CommitRefused, AckLost, dbVars
  <2>2. \/ pc[s] \in {"body", "waiting"} /\ pc'[s] \in {"body", "waiting"}
        \/ /\ pc[s] \in {"body", "waiting", "commit", "ack"}
           /\ pc'[s] \in {"rollback", "close"}
    BY <1>8
    DEF Stays, CheckoutFails, Wait, WaitTimesOut, StatementFails, LeaveBody,
        BodyRaises, CommitNothing, CommitFails, CommitRefused, AckLost, Fail,
        NeedsConnection
  <2>3. \A t \in Sessions : t # s => pc'[t] = pc[t] /\ answer'[t] = answer[t]
    BY <1>8, StaysPut
  <2>. QED  BY <2>1, <2>2, <2>3, Settles
<1>9. ASSUME NEW s \in Sessions, Cancel(s)
      PROVE  Tx!Next
  <2>1. /\ UNCHANGED <<kind, wrote, durable>>
        /\ pc[s] \notin {"idle", "done"} /\ pc' = [pc EXCEPT ![s] = "close"]
        /\ answer' = [answer EXCEPT ![s] = "cancelled"]
    BY <1>9 DEF Cancel, Answer
  <2>2. /\ late \subseteq late'
        /\ \A t \in late' : t \in late \/ (t = s /\ pc[t] = "commit")
    BY <1>9, CancelBreaks, BreakLoses DEF ConnectionsExclusive
  <2>. QED  BY <2>1, <2>2, Settles
<1>10. ASSUME NEW c \in Connections, Disconnect(c)
       PROVE  Tx!Next
  <2>1. UNCHANGED <<kind, wrote, durable, pc, answer>>
    BY <1>10 DEF Disconnect
  <2>2. /\ late \subseteq late'
        /\ \A t \in late' : t \in late \/ pc[t] = "commit"
    BY <1>10, BreakLoses DEF Disconnect
  <2>. QED  BY <2>1, <2>2, Settles
<1>11. CASE Crash
  <2>1. UNCHANGED <<kind, wrote, durable, pc, answer>> /\ late' = {}
    BY <1>11 DEF Crash
  <2>. QED  BY <2>1, Settles
<1>12. ASSUME NEW s \in Sessions, NEW c \in Connections,
              Reuse(s, c) \/ Connect(s, c)
       PROVE  Tx!Next
  <2>1. /\ UNCHANGED <<kind, wrote, durable, late, answer>>
        /\ pc[s] \in {"body", "waiting"} /\ pc' = [pc EXCEPT ![s] = "body"]
    BY <1>12 DEF Reuse, Connect, NeedsConnection, dbVars
  <2>. QED  BY <2>1, Settles
<1>13. CASE Recover \/ UNCHANGED vars
  BY <1>13, Settles DEF Recover, vars, sessionVars, dbVars
<1>. QED
  BY <1>1, <1>2, <1>3, <1>4, <1>5, <1>6, <1>7, <1>8, <1>9, <1>10, <1>11, <1>12,
     <1>13, Steps

-----------------------------------------------------------------------------
(* The results. *)

(* The values of the variables are of their types in every reachable state. *)
THEOREM TypeCorrect == Spec => []TypeOK
BY Invariant, PTL DEF Inv

(* No two sessions ever hold one connection, and none that is idle.         *)
THEOREM SessionsDoNotShare == Spec => []ConnectionsExclusive
BY Invariant, PTL DEF Inv

(* The pool stays within pool_size and max_overflow and loses no connection.*)
THEOREM PoolStaysBounded == Spec => []PoolBounds
<1>1. Init => PoolBounds
  BY PoolAssumption, FS_EmptySet DEF Init, PoolBounds, Capacity
<1>2. Inv /\ PoolBounds /\ [Next]_vars => PoolBounds'
  BY BoundsStep DEF Inv
<1>. QED  BY Invariant, <1>1, <1>2, PTL DEF Spec

(* No session commits what another one left on its connection.              *)
THEOREM NobodyCommitsForOthers == Spec => []NoForeignWork
BY Invariant, PTL DEF Inv

(* The writes of a read session, or of one that failed before its commit was *)
(* asked for or was refused it, are not durable and never become it.         *)
THEOREM FailuresLeaveNothing == Spec => []FailedWorkNotDurable
BY Invariant, PTL DEF Inv

(* pool_pre_ping does its work: only a session that saw the database down,  *)
(* or whose own connection broke under it, fails for a lost connection.     *)
THEOREM CrashHurtsTheOvertaken == Spec => []DisconnectsExplained
BY Invariant, PTL DEF Inv

(* Every behaviour of the session factories is one of Transactions: a commit *)
(* that was asked for and not acknowledged is in doubt, and nothing else is. *)
THEOREM FactoriesAreTransactional == Spec => ImplementsTransactions
BY Invariant, RefineInit, RefineStep, PTL
DEF Spec, ImplementsTransactions, Tx!Spec
=============================================================================
