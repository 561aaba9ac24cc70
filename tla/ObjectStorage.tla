---------------------------- MODULE ObjectStorage ----------------------------
(***************************************************************************)
(* ObjectStorageAdapter of                                                 *)
(* backend/app/infrastructure/storage/object_storage_adapter.py: each      *)
(* method hands a blocking boto3 request to a thread of the default        *)
(* executor (asyncio.to_thread) and awaits it.  A caller that is cancelled *)
(* stops waiting; a thread that has begun does not stop.                   *)
(*                                                                         *)
(* One key is modelled: no request touches two.  The executor, boto3 and   *)
(* the storage are modelled from how the adapter uses them: work starts in *)
(* the order it was handed over; boto3 repeats a request whose reply it    *)
(* did not get, so the storage may execute one call several times, and may *)
(* execute a request boto3 has given up on long after the call.            *)
(*                                                                         *)
(* The bucket exists throughout: the adapter neither creates nor deletes   *)
(* it.  Over a missing bucket every HEAD of a key is a 404, which exists   *)
(* answers by "no", truly, and which no operation of the key brings about. *)
(***************************************************************************)
EXTENDS Naturals, FiniteSets, Sequences, SequencesExt

CONSTANTS
  Calls,        \* identities of the calls; an upload's content is its call
  Threads,      \* worker threads of the default executor
  MaxAttempts,  \* requests boto3 makes for one call
  Absent        \* no object

ASSUME StorageAssumption ==
  /\ Threads \in Nat \ {0}
  /\ MaxAttempts \in Nat \ {0}
  /\ Absent \notin Calls
  /\ Calls \cap {"ok", "error", "yes", "no", "none"} = {}

Operations == {"upload", "download", "delete", "exists", "ping"}

VARIABLES
  op,      \* op[c]: the method called
  task,    \* task[c]: the coroutine: "idle", "awaiting", "answered", "cancelled"
  queue,   \* work the executor has not begun, in order
  work,    \* work[c]: its thread: "none", "queued", "running", "finished"
  served,  \* served[c]: per request of c the storage executed, the object
           \* it met, or left there; forgotten when the call is over
  reply,   \* reply[c]: how the thread has ended
  answer,  \* answer[c]: what the caller was given
  before,  \* before[c]: calls that were answered when c was made
  astray,  \* writing calls of which a request was given up and may yet be
           \* executed, once or again: the requests are not counted
  object   \* the content of the key: an upload, or Absent

callVars == <<op, task, answer, before>>
workVars == <<queue, work, reply>>
vars == <<callVars, workVars, served, astray, object>>

Init ==
  /\ op = [c \in Calls |-> "none"]
  /\ task = [c \in Calls |-> "idle"]
  /\ queue = <<>>
  /\ work = [c \in Calls |-> "none"]
  /\ served = [c \in Calls |-> <<>>]
  /\ reply = [c \in Calls |-> "none"]
  /\ answer = [c \in Calls |-> "none"]
  /\ before = [c \in Calls |-> {}]
  /\ astray = {}
  /\ object = Absent

Running == {c \in Calls : work[c] = "running"}

-----------------------------------------------------------------------------
(* The coroutine: `await asyncio.to_thread(...)`. *)

Call(c, o) ==
  /\ task[c] = "idle"
  /\ op' = [op EXCEPT ![c] = o]
  /\ task' = [task EXCEPT ![c] = "awaiting"]
  /\ before' = [before EXCEPT ![c] = {d \in Calls : task[d] = "answered"}]
  /\ queue' = Append(queue, c)
  /\ work' = [work EXCEPT ![c] = "queued"]
  /\ UNCHANGED <<answer, reply, served, astray, object>>

(* Mutants of Deliver: an upload is started and not awaited; the caller is  *)
(* given an error when a time limit expires, with the thread still at it.   *)
DeliverEarly(c) ==
  /\ task[c] = "awaiting"
  /\ op[c] = "upload" \/ work[c] = "finished"
  /\ task' = [task EXCEPT ![c] = "answered"]
  /\ answer' = [answer EXCEPT ![c] =
                  IF work[c] = "finished" THEN reply[c] ELSE "ok"]
  /\ served' = [served EXCEPT ![c] = <<>>]
  /\ UNCHANGED <<op, before, workVars, astray, object>>

DeliverLimited(c) ==
  /\ task[c] = "awaiting"
  /\ work[c] \in {"running", "finished"}
  /\ task' = [task EXCEPT ![c] = "answered"]
  /\ answer' = [answer EXCEPT ![c] =
                  IF work[c] = "finished" THEN reply[c]
                  ELSE IF op[c] = "ping" THEN "no" ELSE "error"]
  /\ served' = [served EXCEPT ![c] = <<>>]
  /\ UNCHANGED <<op, before, workVars, astray, object>>

(* The event loop hands the end of the thread to the caller; BotoCoreError  *)
(* and ClientError arrive as ObjectStorageError.                            *)
Deliver(c) ==
  /\ task[c] = "awaiting"
  /\ work[c] = "finished"
  /\ task' = [task EXCEPT ![c] = "answered"]
  /\ answer' = [answer EXCEPT ![c] = reply[c]]
  /\ served' = [served EXCEPT ![c] = <<>>]
  /\ UNCHANGED <<op, before, workVars, astray, object>>

(* The caller is cancelled.  Work that has not begun is dropped, and so is *)
(* the result of work that has ended.                                      *)
Cancel(c) ==
  /\ task[c] = "awaiting"
  /\ task' = [task EXCEPT ![c] = "cancelled"]
  /\ IF work[c] = "queued"
       THEN \E k \in DOMAIN queue : queue[k] = c /\ queue' = RemoveAt(queue, k)
       ELSE UNCHANGED queue
  /\ work' = [work EXCEPT ![c] = IF @ = "queued" THEN "none" ELSE @]
  /\ IF work[c] = "finished"
       THEN /\ served' = [served EXCEPT ![c] = <<>>]
            /\ reply' = [reply EXCEPT ![c] = "none"]
       ELSE UNCHANGED <<served, reply>>
  /\ UNCHANGED <<op, answer, before, astray, object>>

-----------------------------------------------------------------------------
(* The thread. *)

Begin(c) ==
  /\ queue # <<>>
  /\ c = Head(queue)
  /\ Cardinality(Running) < Threads
  /\ queue' = Tail(queue)
  /\ work' = [work EXCEPT ![c] = "running"]
  /\ UNCHANGED <<callVars, reply, served, astray, object>>

(* The object after a request of c. *)
Effect(c) == CASE op[c] = "upload" -> c
               [] op[c] = "delete" -> Absent
               [] OTHER -> object

(* put_object, delete_object, get_object, head_object or head_bucket. *)
Serve(c) ==
  /\ work[c] = "running"
  /\ Len(served[c]) < MaxAttempts
  /\ object' = Effect(c)
  /\ served' = [served EXCEPT ![c] = Append(@, object')]
  /\ UNCHANGED <<callVars, workVars, astray>>

(* boto3 stops waiting for a write that is still under way. *)
GiveUp(c) ==
  /\ work[c] = "running"
  /\ op[c] \in {"upload", "delete"}
  /\ astray' = astray \cup {c}
  /\ UNCHANGED <<callVars, workVars, served, object>>

(* The storage executes it; nobody waits for the reply. *)
ServeLate(c) ==
  /\ c \in astray
  /\ object' = Effect(c)
  /\ UNCHANGED <<callVars, workVars, served, astray>>

(* The result of a caller that is gone is dropped. *)
End(c, r) ==
  /\ work' = [work EXCEPT ![c] = "finished"]
  /\ IF task[c] = "awaiting"
       THEN reply' = [reply EXCEPT ![c] = r] /\ UNCHANGED served
       ELSE served' = [served EXCEPT ![c] = <<>>] /\ UNCHANGED reply
  /\ UNCHANGED <<callVars, queue, astray, object>>

(* A mutant of Found: a missing key is content like any other. *)
FoundAnything(c, v) == v

(* get_object of a missing key is a ClientError. *)
Found(c, v) == IF v = Absent THEN "error" ELSE v

(* The reply to the last request arrives; a 404 answers object_exists(). *)
Succeed(c) ==
  /\ work[c] = "running"
  /\ served[c] # <<>>
  /\ LET v == Last(served[c])
     IN End(c, CASE op[c] \in {"upload", "delete"} -> "ok"
                 [] op[c] = "download" -> Found(c, v)
                 [] op[c] = "exists" -> IF v = Absent THEN "no" ELSE "yes"
                 [] op[c] = "ping" -> "yes")

(* Mutants of Fail: ping's `except Exception` in object_exists() and in     *)
(* upload_file().                                                           *)
FailAsAbsent(c) ==
  /\ work[c] = "running"
  /\ End(c, IF op[c] \in {"ping", "exists"} THEN "no" ELSE "error")

FailAsDone(c) ==
  /\ work[c] = "running"
  /\ End(c, CASE op[c] = "ping" -> "no"
              [] op[c] = "upload" -> "ok"
              [] OTHER -> "error")

(* No reply, or an error status: a BotoCoreError or ClientError, whether or *)
(* not the storage executed the request.  ping() returns False.             *)
Fail(c) ==
  /\ work[c] = "running"
  /\ End(c, IF op[c] = "ping" THEN "no" ELSE "error")

-----------------------------------------------------------------------------

Thread(c) == Begin(c) \/ Serve(c) \/ Succeed(c) \/ Fail(c)

Next == \E c \in Calls :
          \/ \E o \in Operations : Call(c, o)
          \/ Thread(c) \/ GiveUp(c) \/ ServeLate(c)
          \/ Deliver(c) \/ Cancel(c)

Spec == Init /\ [][Next]_vars

-----------------------------------------------------------------------------
(* Properties. *)

(* The answers each method can give. *)
Results(o) ==
  CASE o \in {"upload", "delete"} -> {"ok", "error"}
    [] o = "download" -> Calls \cup {"error"}
    [] o = "exists" -> {"yes", "no", "error"}
    [] o = "ping" -> {"yes", "no"}
    [] o = "none" -> {}

TypeOK ==
  /\ op \in [Calls -> Operations \cup {"none"}]
  /\ task \in [Calls -> {"idle", "awaiting", "answered", "cancelled"}]
  /\ queue \in Seq(Calls)
  /\ work \in [Calls -> {"none", "queued", "running", "finished"}]
  /\ \A c \in Calls :
       /\ served[c] \in Seq(Calls \cup {Absent})
       /\ reply[c] \in Results(op[c]) \cup {"none"}
       /\ answer[c] \in Results(op[c]) \cup {"none"}
  /\ before \in [Calls -> SUBSET Calls]
  /\ astray \subseteq Calls
  /\ object \in Calls \cup {Absent}

(* Calls made one after the other take effect in that order: content whose  *)
(* upload was answered before a later upload or delete was made, which was  *)
(* answered "ok" in turn, never comes back, unless a request of the first   *)
(* went astray: an "ok" may then be that of its repetition.                 *)
OverwrittenStaysOverwritten ==
  \A w1, w2 \in Calls :
    w1 \in before[w2] /\ answer[w2] = "ok" /\ object = w1 => w1 \in astray

(* A download is not stale: it never returns what an answered write had     *)
(* replaced before the download was made, but for a request gone astray.    *)
DownloadsNotStale ==
  \A w1, w2, r \in Calls :
    /\ w1 \in before[w2] /\ answer[w2] = "ok" /\ w2 \in before[r]
    /\ answer[r] = w1
    => w1 \in astray

(* An object whose upload was answered is missing to a later object_exists()*)
(* only if somebody called delete_object() and was not answered before that *)
(* upload was made, or had a request go astray.                             *)
AbsenceExplained ==
  \A u, r \in Calls :
    /\ op[u] = "upload" /\ answer[u] = "ok"
    /\ u \in before[r]
    /\ op[r] = "exists" /\ answer[r] = "no"
    => \E d \in Calls : op[d] = "delete" /\ (d \notin before[u] \/ d \in astray)

(* The adapter implements BlobStore: what the storage executed is what a    *)
(* call has met, and its answer follows from that.                          *)
Blob == INSTANCE BlobStore WITH
          blob   <- object,
          what   <- op,
          use    <- [c \in Calls |->
                       CASE task[c] = "awaiting" -> "open"
                         [] task[c] = "cancelled" -> "abandoned"
                         [] OTHER -> task[c]],
          sees   <- [c \in Calls |-> IF task[c] = "awaiting"
                                      THEN ToSet(served[c]) ELSE {}],
          doubt  <- astray,
          result <- answer

ImplementsBlobStore == Blob!Spec
=============================================================================
