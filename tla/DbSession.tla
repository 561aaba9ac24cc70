------------------------------ MODULE DbSession ------------------------------
(***************************************************************************)
(* The session factories of backend/app/infrastructure/db/session.py: the  *)
(* coroutines that run `async with get_write_session()` or                 *)
(* `async with get_read_session()` over the one connection pool both share *)
(* (initialize_db binds both factories to the same engine).                *)
(*                                                                         *)
(* The pool, the connections and the database are modelled from how        *)
(* session.py configures and uses them: at most PoolSize + MaxOverflow     *)
(* connections, of which PoolSize are kept when idle; pool_pre_ping        *)
(* replaces a connection that does not survive a ping; a connection is     *)
(* reset when it goes back; a connection can break at any moment, and with *)
(* it goes the transaction it had open; a crash of the database breaks     *)
(* every connection.                                                       *)
(*                                                                         *)
(* A COMMIT that is on the wire does not come back with its sender: where  *)
(* the connection breaks or the sender is cancelled before the reply, the  *)
(* database may carry it out, also after the session has ended, or never.  *)
(*                                                                         *)
(* A session takes its connection at its first statement.  With autoflush  *)
(* off, the statements of pending objects run at the beginning of commit();*)
(* they fail into the same `except Exception`, so they are the last        *)
(* statements of the body here.                                            *)
(***************************************************************************)
EXTENDS Naturals, FiniteSets

CONSTANTS
  Sessions,     \* identities of the sessions opened
  Connections,  \* identities of the connections ever made
  PoolSize,     \* pool_size
  MaxOverflow,  \* max_overflow
  MaxCrashes,   \* bound on the crashes of the database
  NoConn        \* not a connection

ASSUME PoolAssumption ==
  /\ PoolSize \in Nat \ {0}   \* 0 would mean a pool without a limit
  /\ MaxOverflow \in Nat
  /\ MaxCrashes \in Nat
  /\ IsFiniteSet(Connections)
  /\ NoConn \notin Connections

VARIABLES
  kind,     \* kind[s]: "unused", then "write" or "read"
  pc,       \* pc[s]: where the coroutine of session s is
  conn,     \* conn[s]: the connection session s holds, or NoConn
  wrote,    \* sessions that have sent a write
  answer,   \* answer[s]: how the block is being left; "none" before that
  cause,    \* cause[s]: why a statement or commit of s failed
  hit,      \* sessions during which the database was down at some time, or
            \* their own connection broke
  pool,     \* idle connections of the pool
  made,     \* the connections there are, idle or held, which the overflow
            \* counter of the pool counts
  broken,   \* those of them the database no longer knows
  txn,      \* txn[c]: sessions with uncommitted writes on connection c
  late,     \* sessions whose COMMIT is on a wire nobody listens to
  durable,  \* sessions whose writes the database holds
  dbUp,     \* the database accepts connections
  crashes   \* crashes of the database so far

sessionVars == <<kind, pc, conn, wrote, answer, cause, hit>>
poolVars    == <<pool, made, broken>>
dbVars      == <<txn, late, durable, dbUp, crashes>>
vars        == <<sessionVars, poolVars, dbVars>>

Capacity == PoolSize + MaxOverflow

Init ==
  /\ kind    = [s \in Sessions |-> "unused"]
  /\ pc      = [s \in Sessions |-> "idle"]
  /\ conn    = [s \in Sessions |-> NoConn]
  /\ wrote   = {}
  /\ answer  = [s \in Sessions |-> "none"]
  /\ cause   = [s \in Sessions |-> "none"]
  /\ hit     = {}
  /\ pool    = {}
  /\ made    = {}
  /\ broken  = {}
  /\ txn     = [c \in Connections |-> {}]
  /\ late    = {}
  /\ durable = {}
  /\ dbUp    = TRUE
  /\ crashes = 0

-----------------------------------------------------------------------------
(* Steps several operations share. *)

(* The connection of s still reaches the transaction it began. *)
Healthy(s) == conn[s] # NoConn /\ conn[s] \notin broken

GoTo(s, where) == pc' = [pc EXCEPT ![s] = where]

Answer(s, a) == answer' = [answer EXCEPT ![s] = a]

(* Mutants of Fail: the exception is swallowed; the commit runs all the     *)
(* same, as in a `finally`.                                                 *)
FailSwallowed(s, why) ==
  /\ Answer(s, "ok")
  /\ cause' = [cause EXCEPT ![s] = why]
  /\ GoTo(s, IF kind[s] = "write" THEN "rollback" ELSE "close")

FailCommits(s, why) ==
  /\ Answer(s, "raised")
  /\ cause' = [cause EXCEPT ![s] = why]
  /\ GoTo(s, IF kind[s] = "write" THEN "commit" ELSE "close")

(* An exception at an await of s: `except Exception` rolls a write session  *)
(* back, a read session is only closed.                                     *)
Fail(s, why) ==
  /\ Answer(s, "raised")
  /\ cause' = [cause EXCEPT ![s] = why]
  /\ GoTo(s, IF kind[s] = "write" THEN "rollback" ELSE "close")

(* A mutant of Release: no reset. *)
ReleaseUnreset(s) ==
  IF conn[s] = NoConn
    THEN UNCHANGED <<conn, poolVars, txn>>
    ELSE /\ conn' = [conn EXCEPT ![s] = NoConn]
         /\ UNCHANGED txn
         /\ IF Cardinality(pool) < PoolSize
              THEN pool' = pool \cup {conn[s]} /\ UNCHANGED <<made, broken>>
              ELSE /\ made' = made \ {conn[s]}
                   /\ broken' = broken \ {conn[s]}
                   /\ UNCHANGED pool

(* The connection of s, if it has one, is reset and goes back to the pool,  *)
(* or is discarded when PoolSize connections are idle already.              *)
Release(s) ==
  IF conn[s] = NoConn
    THEN UNCHANGED <<conn, poolVars, txn>>
    ELSE /\ conn' = [conn EXCEPT ![s] = NoConn]
         /\ txn' = [txn EXCEPT ![conn[s]] = {}]
         /\ IF Cardinality(pool) < PoolSize
              THEN /\ pool' = pool \cup {conn[s]}
                   /\ UNCHANGED <<made, broken>>
              ELSE /\ made' = made \ {conn[s]}
                   /\ broken' = broken \ {conn[s]}
                   /\ UNCHANGED pool

(* Connection c breaks, and its transaction is lost, unless its COMMIT is   *)
(* on the wire: that may still be carried out.                              *)
Break(c) ==
  /\ broken' = broken \cup {c}
  /\ txn' = [txn EXCEPT ![c] = {}]
  /\ late' = IF \E s \in Sessions : conn[s] = c /\ pc[s] = "commit"
               THEN late \cup txn[c] ELSE late

-----------------------------------------------------------------------------
(* The body of the `async with` block. *)

Open(s, k) ==
  /\ pc[s] = "idle"
  /\ kind' = [kind EXCEPT ![s] = k]
  /\ hit' = IF dbUp THEN hit ELSE hit \cup {s}
  /\ GoTo(s, "body")
  /\ UNCHANGED <<conn, wrote, answer, cause, poolVars, dbVars>>

NeedsConnection(s) == pc[s] \in {"body", "waiting"} /\ conn[s] = NoConn

(* Mutants of Reuse: the connection stays in the pool; it is not pinged. *)
ReuseShared(s, c) ==
  /\ NeedsConnection(s)
  /\ c \in pool
  /\ dbUp
  /\ conn' = [conn EXCEPT ![s] = c]
  /\ broken' = broken \ {c}
  /\ GoTo(s, "body")
  /\ UNCHANGED <<kind, wrote, answer, cause, hit, pool, made, dbVars>>

ReuseUnpinged(s, c) ==
  /\ NeedsConnection(s)
  /\ c \in pool
  /\ conn' = [conn EXCEPT ![s] = c]
  /\ pool' = pool \ {c}
  /\ GoTo(s, "body")
  /\ UNCHANGED <<kind, wrote, answer, cause, hit, made, broken, dbVars>>

(* Checkout of an idle connection: the ping of pool_pre_ping finds it alive *)
(* or it is connected anew.                                                 *)
Reuse(s, c) ==
  /\ NeedsConnection(s)
  /\ c \in pool
  /\ dbUp
  /\ conn' = [conn EXCEPT ![s] = c]
  /\ pool' = pool \ {c}
  /\ broken' = broken \ {c}
  /\ GoTo(s, "body")
  /\ UNCHANGED <<kind, wrote, answer, cause, hit, made, dbVars>>

(* A mutant of Connect: the overflow is not counted. *)
ConnectUncounted(s, c) ==
  /\ NeedsConnection(s)
  /\ pool = {}
  /\ c \in Connections \ made
  /\ dbUp
  /\ conn' = [conn EXCEPT ![s] = c]
  /\ made' = made \cup {c}
  /\ GoTo(s, "body")
  /\ UNCHANGED <<kind, wrote, answer, cause, hit, pool, broken, dbVars>>

(* Checkout with no idle connection and room for one more. *)
Connect(s, c) ==
  /\ NeedsConnection(s)
  /\ pool = {}
  /\ Cardinality(made) < Capacity
  /\ c \in Connections \ made
  /\ dbUp
  /\ conn' = [conn EXCEPT ![s] = c]
  /\ made' = made \cup {c}
  /\ GoTo(s, "body")
  /\ UNCHANGED <<kind, wrote, answer, cause, hit, pool, broken, dbVars>>

(* Neither the ping nor a new connection gets through. *)
CheckoutFails(s) ==
  /\ NeedsConnection(s)
  /\ pool # {} \/ Cardinality(made) < Capacity
  /\ ~dbUp
  /\ Fail(s, "disconnect")
  /\ UNCHANGED <<kind, conn, wrote, hit, poolVars, dbVars>>

(* Checkout with every connection in use: the coroutine waits. *)
Wait(s) ==
  /\ pc[s] = "body"
  /\ conn[s] = NoConn
  /\ pool = {}
  /\ Cardinality(made) >= Capacity
  /\ GoTo(s, "waiting")
  /\ UNCHANGED <<kind, conn, wrote, answer, cause, hit, poolVars, dbVars>>

WaitTimesOut(s) ==
  /\ pc[s] = "waiting"
  /\ Fail(s, "pool")
  /\ UNCHANGED <<kind, conn, wrote, hit, poolVars, dbVars>>

(* A statement that writes; nothing stops the body of a read session. *)
Write(s) ==
  /\ pc[s] = "body"
  /\ Healthy(s)
  /\ s \notin wrote
  /\ wrote' = wrote \cup {s}
  /\ txn' = [txn EXCEPT ![conn[s]] = @ \cup {s}]
  /\ UNCHANGED <<kind, pc, conn, answer, cause, hit, poolVars, late, durable,
                 dbUp, crashes>>

(* A statement on a connection the database no longer knows. *)
StatementFails(s) ==
  /\ pc[s] = "body"
  /\ conn[s] # NoConn
  /\ ~Healthy(s)
  /\ Fail(s, "disconnect")
  /\ UNCHANGED <<kind, conn, wrote, hit, poolVars, dbVars>>

(* An exception of the body itself, or of a statement the database refuses. *)
BodyRaises(s) ==
  /\ pc[s] = "body"
  /\ Fail(s, "body")
  /\ UNCHANGED <<kind, conn, wrote, hit, poolVars, dbVars>>

(* The body is done: a write session goes on to commit, a read session is  *)
(* closed without one.                                                     *)
LeaveBody(s) ==
  /\ pc[s] = "body"
  /\ IF kind[s] = "write"
       THEN GoTo(s, "commit") /\ UNCHANGED answer
       ELSE GoTo(s, "close") /\ Answer(s, "ok")
  /\ UNCHANGED <<kind, conn, wrote, cause, hit, poolVars, dbVars>>

-----------------------------------------------------------------------------
(* `await session.commit()`. *)

(* No statement was ever sent. *)
CommitNothing(s) ==
  /\ pc[s] = "commit"
  /\ conn[s] = NoConn
  /\ Answer(s, "ok")
  /\ GoTo(s, "close")
  /\ UNCHANGED <<kind, conn, wrote, cause, hit, poolVars, dbVars>>

(* The database commits whatever the connection's transaction holds; its    *)
(* acknowledgement is under way.                                            *)
ServerCommits(s) ==
  /\ pc[s] = "commit"
  /\ Healthy(s)
  /\ durable' = durable \cup txn[conn[s]]
  /\ txn' = [txn EXCEPT ![conn[s]] = {}]
  /\ GoTo(s, "ack")
  /\ UNCHANGED <<kind, conn, wrote, answer, cause, hit, poolVars, late, dbUp,
                 crashes>>

(* The database refuses (a deferred constraint, a serialization failure). *)
CommitRefused(s) ==
  /\ pc[s] = "commit"
  /\ Healthy(s)
  /\ txn' = [txn EXCEPT ![conn[s]] = {}]
  /\ Fail(s, "refused")
  /\ UNCHANGED <<kind, conn, wrote, hit, poolVars, late, durable, dbUp, crashes>>

(* The connection is broken: before the COMMIT was sent or with it.         *)
CommitFails(s) ==
  /\ pc[s] = "commit"
  /\ conn[s] # NoConn
  /\ ~Healthy(s)
  /\ Fail(s, "commit")
  /\ UNCHANGED <<kind, conn, wrote, hit, poolVars, dbVars>>

(* commit() returns; it has given the connection back. *)
Acknowledged(s) ==
  /\ pc[s] = "ack"
  /\ Answer(s, "ok")
  /\ GoTo(s, "close")
  /\ Release(s)
  /\ UNCHANGED <<kind, wrote, cause, hit, late, durable, dbUp, crashes>>

(* The connection breaks between the commit and its acknowledgement. *)
AckLost(s) ==
  /\ pc[s] = "ack"
  /\ ~Healthy(s)
  /\ Fail(s, "commit")
  /\ UNCHANGED <<kind, conn, wrote, hit, poolVars, dbVars>>

-----------------------------------------------------------------------------
(* Leaving the block. *)

(* `await session.rollback()`; over a broken connection there is nothing    *)
(* left to roll back, and the connection goes back all the same.            *)
Rollback(s) ==
  /\ pc[s] = "rollback"
  /\ GoTo(s, "close")
  /\ Release(s)
  /\ UNCHANGED <<kind, wrote, answer, cause, hit, late, durable, dbUp, crashes>>

(* The exit of `async with`: close() returns what is still held. *)
Close(s) ==
  /\ pc[s] = "close"
  /\ GoTo(s, "done")
  /\ Release(s)
  /\ UNCHANGED <<kind, wrote, answer, cause, hit, late, durable, dbUp, crashes>>

(* A mutant of Cancel: the block is left without its exit. *)
CancelLeavesOpen(s) ==
  /\ pc[s] \in {"body", "waiting", "commit", "ack", "rollback", "close"}
  /\ answer[s] # "cancelled"
  /\ Answer(s, "cancelled")
  /\ GoTo(s, "done")
  /\ UNCHANGED <<kind, conn, wrote, cause, hit, poolVars, dbVars>>

(* The request is cancelled at an await.  CancelledError is no Exception:   *)
(* the except clause does not run, the exit of `async with` does, and its   *)
(* close() is shielded from a cancellation that comes later still.  Where   *)
(* the await was one of the database, as it is but in the body, the driver  *)
(* gives up the connection with whatever is on the wire.                    *)
Cancel(s) ==
  /\ pc[s] \in {"body", "waiting", "commit", "ack", "rollback", "close"}
  /\ answer[s] # "cancelled"
  /\ Answer(s, "cancelled")
  /\ GoTo(s, "close")
  /\ \/ /\ conn[s] # NoConn => pc[s] \in {"body", "close"}
        /\ UNCHANGED <<broken, txn, late>>
     \/ conn[s] # NoConn /\ pc[s] # "close" /\ Break(conn[s])
  /\ UNCHANGED <<kind, conn, wrote, cause, hit, pool, made, durable, dbUp, crashes>>

-----------------------------------------------------------------------------
(* The database. *)

Crash ==
  /\ dbUp
  /\ crashes < MaxCrashes
  /\ dbUp' = FALSE
  /\ crashes' = crashes + 1
  /\ txn' = [c \in Connections |-> {}]
  /\ hit' = hit \cup {s \in Sessions : pc[s] # "idle"}
  /\ broken' = made
  /\ late' = {}
  /\ UNCHANGED <<kind, pc, conn, wrote, answer, cause, pool, made, durable>>

Recover ==
  /\ ~dbUp
  /\ dbUp' = TRUE
  /\ UNCHANGED <<sessionVars, poolVars, txn, late, durable, crashes>>

(* One connection breaks: the network, PgBouncer or the backend process. *)
Disconnect(c) ==
  /\ c \in made \ broken
  /\ Break(c)
  /\ hit' = hit \cup {s \in Sessions : conn[s] = c}
  /\ UNCHANGED <<kind, pc, conn, wrote, answer, cause, pool, made, durable, dbUp,
                 crashes>>

(* The database carries out a COMMIT that nobody waits for any more. *)
LateCommit(s) ==
  /\ s \in late
  /\ durable' = durable \cup {s}
  /\ late' = late \ {s}
  /\ UNCHANGED <<sessionVars, poolVars, txn, dbUp, crashes>>

-----------------------------------------------------------------------------

Checkout(s) == \/ \E c \in Connections : Reuse(s, c) \/ Connect(s, c)
               \/ CheckoutFails(s) \/ Wait(s) \/ WaitTimesOut(s)
Body(s)     == Write(s) \/ StatementFails(s) \/ LeaveBody(s)
Commit(s)   == \/ CommitNothing(s) \/ ServerCommits(s) \/ CommitFails(s)
               \/ Acknowledged(s) \/ AckLost(s)
Leave(s)    == Rollback(s) \/ Close(s)

(* What the coroutine of s does when nothing but its own code drives it. *)
Step(s) == Checkout(s) \/ Body(s) \/ Commit(s) \/ Leave(s)

Next == \/ \E s \in Sessions :
             \/ \E k \in {"write", "read"} : Open(s, k)
             \/ Step(s)
             \/ BodyRaises(s) \/ CommitRefused(s) \/ Cancel(s) \/ LateCommit(s)
        \/ \E c \in Connections : Disconnect(c)
        \/ Crash
        \/ Recover

(* Every await of an open session returns, raises or times out, and its     *)
(* body ends.  The database need not come back.                             *)
Fairness == \A s \in Sessions : WF_vars(Step(s))

Spec == Init /\ [][Next]_vars /\ Fairness

-----------------------------------------------------------------------------
(* Properties. *)

Causes == {"none", "disconnect", "pool", "body", "refused", "commit"}

TypeOK ==
  /\ kind \in [Sessions -> {"unused", "write", "read"}]
  /\ pc \in [Sessions -> {"idle", "body", "waiting", "commit", "ack",
                          "rollback", "close", "done"}]
  /\ conn \in [Sessions -> Connections \cup {NoConn}]
  /\ wrote \subseteq Sessions
  /\ answer \in [Sessions -> {"none", "ok", "raised", "cancelled"}]
  /\ cause \in [Sessions -> Causes]
  /\ hit \subseteq Sessions
  /\ pool \subseteq made
  /\ made \subseteq Connections
  /\ broken \subseteq made
  /\ txn \in [Connections -> SUBSET Sessions]
  /\ late \subseteq Sessions
  /\ durable \subseteq Sessions
  /\ dbUp \in BOOLEAN
  /\ crashes \in 0..MaxCrashes

(* A connection belongs to one session or to the pool, never to two: what   *)
(* one request sends is never mixed into the transaction of another.        *)
ConnectionsExclusive ==
  \A s, t \in Sessions :
    conn[s] # NoConn =>
      /\ conn[s] \in made \ pool
      /\ conn[s] = conn[t] => s = t

(* pool_size and max_overflow hold through every checkout, return and       *)
(* discard, and no connection is counted that nobody can reach any more.    *)
PoolBounds ==
  /\ Cardinality(made) <= Capacity
  /\ Cardinality(pool) <= PoolSize
  /\ made = pool \cup {conn[s] : s \in {t \in Sessions : conn[t] # NoConn}}

(* The open transaction of a connection is the work of the session that     *)
(* holds it: no later session commits what a failed or cancelled one left.  *)
NoForeignWork ==
  \A c \in Connections, s \in Sessions : s \in txn[c] => conn[s] = c

(* Only write sessions whose body went through are ever durable, or can     *)
(* become it: not one whose body or statement raised or lost its connection,*)
(* not one whose commit the database refused, and never a read session.     *)
FailedWorkNotDurable ==
  \A s \in durable \cup late : kind[s] = "write" /\ cause[s] \in {"none", "commit"}

(* A disconnection fails only the session it overtook: none ever meets a    *)
(* connection that broke, or a database that crashed, before it began.      *)
DisconnectsExplained ==
  \A s \in Sessions : cause[s] \in {"disconnect", "commit"} => s \in hit

(* Every session that is opened ends and has given its connection back,     *)
(* whether it commits, fails or is cancelled, and also when all connections *)
(* are taken and the database never comes back.                             *)
SessionsEnd ==
  \A s \in Sessions :
    pc[s] = "body" ~> pc[s] = "done" /\ conn[s] = NoConn

(* What has become of the work of s: the commit it asked for stays open for *)
(* as long as the database may still carry it out.                          *)
Effect(s) ==
  IF s \in durable THEN "committed"
  ELSE IF s \in late \/ pc[s] \in {"commit", "ack"} THEN "asked"
  ELSE IF pc[s] \in {"rollback", "close", "done"} THEN "aborted" ELSE "open"

(* The factories implement Transactions: the effect of a session is settled *)
(* by the database, before or after its block is left, and its report then. *)
Tx == INSTANCE Transactions WITH
        mode   <- kind,
        dirty  <- wrote,
        effect <- [s \in Sessions |-> Effect(s)],
        report <- [s \in Sessions |->
                     IF pc[s] = "done" THEN answer[s] ELSE "none"]

ImplementsTransactions == Tx!Spec
=============================================================================
