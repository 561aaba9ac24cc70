------------------------- MODULE ObjectStorageProofs -------------------------
(***************************************************************************)
(* Proofs about ObjectStorage, for any calls, threads and attempts: the    *)
(* adapter implements BlobStore, and what its answers say of the object is *)
(* true up to the requests it has lost sight of (astray).                  *)
(*                                                                         *)
(* The invariant has two parts.  Basic says what the stage of a call means *)
(* for its work, its place in the queue and its result, and is all that    *)
(* the refinement needs.  The rest relates writes: content older than a    *)
(* write that was executed does not come back (Overwritten), was not met   *)
(* by a later download (ReadsNotStale), and content that is missing, or    *)
(* was met as missing, was deleted by a call whose request may have come   *)
(* after it (UploadLost, AbsenceMet).                                      *)
(***************************************************************************)
EXTENDS ObjectStorage, SequenceTheorems, TLAPS

-----------------------------------------------------------------------------
(* The inductive invariant. *)

Outcomes == Calls \cup {"ok", "error", "yes", "no", "none"}

Shape ==
  /\ op \in [Calls -> Operations \cup {"none"}]
  /\ task \in [Calls -> {"idle", "awaiting", "answered", "cancelled"}]
  /\ queue \in Seq(Calls)
  /\ work \in [Calls -> {"none", "queued", "running", "finished"}]
  /\ served \in [Calls -> Seq(Calls \cup {Absent})]
  /\ reply \in [Calls -> Outcomes]
  /\ answer \in [Calls -> Outcomes]
  /\ before \in [Calls -> SUBSET Calls]
  /\ astray \subseteq Calls
  /\ object \in Calls \cup {Absent}

(* Work that has not begun is in the queue once. *)
QueuedOnce ==
  /\ \A k \in 1..Len(queue) : work[queue[k]] = "queued"
  /\ \A j, k \in 1..Len(queue) : queue[j] = queue[k] => j = k

(* The result r of an operation o is true, if seen are the contents it met. *)
True(o, seen, r) ==
  \/ o \in {"upload", "delete"} /\ r \in {"ok", "error"} /\ (r = "ok" => seen # {})
  \/ o = "download" /\ (r = "error" \/ r \in seen \ {Absent})
  \/ /\ o = "exists" /\ r \in {"yes", "no", "error"}
     /\ r = "no" => Absent \in seen
     /\ r = "yes" => \E v \in seen : v # Absent
  \/ o = "ping" /\ r \in {"yes", "no"} /\ (r = "yes" => seen # {})

Idle(c) ==
  /\ op[c] = "none" /\ work[c] = "none" /\ served[c] = <<>>
  /\ reply[c] = "none" /\ answer[c] = "none" /\ before[c] = {}
  /\ c \notin astray

Awaiting(c) ==
  /\ op[c] \in Operations /\ work[c] # "none" /\ answer[c] = "none"
  /\ work[c] = "queued" => served[c] = <<>>
  /\ work[c] # "finished" => reply[c] = "none"
  /\ work[c] = "finished" => True(op[c], ToSet(served[c]), reply[c])

Answered(c) ==
  /\ op[c] \in Operations /\ work[c] = "finished" /\ served[c] = <<>>
  /\ answer[c] \in Results(op[c]) /\ reply[c] = answer[c]

Cancelled(c) ==
  /\ op[c] \in Operations /\ work[c] # "queued"
  /\ answer[c] = "none" /\ reply[c] = "none"

(* What the stage of a call says of its work and its results. *)
Stages ==
  \A c \in Calls :
    /\ task[c] = "idle" => Idle(c)
    /\ task[c] = "awaiting" => Awaiting(c)
    /\ task[c] = "answered" => Answered(c)
    /\ task[c] = "cancelled" => Cancelled(c)

BeforeAnswered == \A c \in Calls : \A d \in before[c] : task[d] = "answered"

Basic == Shape /\ QueuedOnce /\ Stages /\ BeforeAnswered

-----------------------------------------------------------------------------
(* Sequences. *)

LEMMA SeenOfEmpty == ToSet(<<>>) = {}
BY DEF ToSet

LEMMA SeenOfAppend ==
  ASSUME NEW S, NEW s \in Seq(S), NEW x \in S
  PROVE  ToSet(Append(s, x)) = ToSet(s) \cup {x}
<1>1. /\ Append(s, x) \in Seq(S) /\ Len(Append(s, x)) = Len(s) + 1
      /\ \A k \in 1..Len(s) : Append(s, x)[k] = s[k]
      /\ Append(s, x)[Len(s) + 1] = x
  BY AppendProperties
<1>2. Len(s) \in Nat /\ DOMAIN s = 1..Len(s)
  BY LenProperties
<1>3. DOMAIN Append(s, x) = 1..(Len(s) + 1)
  BY <1>1, LenProperties
<1>. QED  BY <1>1, <1>2, <1>3 DEF ToSet

LEMMA LastSeen ==
  ASSUME NEW S, NEW s \in Seq(S), s # <<>>
  PROVE  Last(s) \in ToSet(s)
<1>1. Len(s) \in Nat /\ DOMAIN s = 1..Len(s) /\ Len(s) # 0
  BY LenProperties, EmptySeq
<1>. QED  BY <1>1 DEF ToSet, Last

LEMMA SeenSubset ==
  ASSUME NEW S, NEW s \in Seq(S)
  PROVE  ToSet(s) \subseteq S
BY LenProperties, ElementOfSeq DEF ToSet

(* Removing an element of a sequence leaves the others, in order. *)
LEMMA RemoveAtProperties ==
  ASSUME NEW S, NEW s \in Seq(S), NEW k \in 1..Len(s)
  PROVE  /\ RemoveAt(s, k) \in Seq(S)
         /\ Len(RemoveAt(s, k)) = Len(s) - 1
         /\ \A i \in 1..(Len(s) - 1) :
              RemoveAt(s, k)[i] = IF i < k THEN s[i] ELSE s[i + 1]
<1>. DEFINE a == SubSeq(s, 1, k - 1)
            b == SubSeq(s, k + 1, Len(s))
<1>1. Len(s) \in Nat /\ k \in Nat /\ k >= 1 /\ k <= Len(s)
  BY LenProperties
<1>2. /\ a \in Seq(S) /\ Len(a) = k - 1
      /\ \A i \in 1..(k - 1) : a[i] = s[i]
  BY <1>1
<1>3. /\ b \in Seq(S) /\ Len(b) = Len(s) - k
      /\ \A i \in 1..(Len(s) - k) : b[i] = s[k + i]
  BY <1>1
<1>4. RemoveAt(s, k) = a \o b
  BY DEF RemoveAt
<1>. HIDE DEF a, b
<1>5. a \o b \in Seq(S) /\ Len(a \o b) = Len(s) - 1
  <2>1. a \o b \in Seq(S) /\ Len(a \o b) = Len(a) + Len(b)
    BY <1>2, <1>3, ConcatProperties, Zenon
  <2>. QED  BY <1>1, <1>2, <1>3, <2>1
<1>6. ASSUME NEW i \in 1..(Len(s) - 1)
      PROVE  (a \o b)[i] = IF i < k THEN s[i] ELSE s[i + 1]
  <2>1. (a \o b)[i] = IF i <= Len(a) THEN a[i] ELSE b[i - Len(a)]
    BY <1>1, <1>2, <1>3, ConcatProperties
  <2>2. CASE i < k
    BY <1>1, <1>2, <2>1, <2>2
  <2>3. CASE ~(i < k)
    <3>1. i - (k - 1) \in 1..(Len(s) - k) /\ k + (i - (k - 1)) = i + 1
      BY <1>1, <2>3
    <3>. QED  BY <1>1, <1>2, <1>3, <2>1, <2>3, <3>1
  <2>. QED  BY <2>2, <2>3
<1>. QED  BY <1>4, <1>5, <1>6

-----------------------------------------------------------------------------
(* The steps. *)

(* The thread ends with a true result. *)
EndTrue(c, r) ==
  /\ work[c] = "running"
  /\ True(op[c], ToSet(served[c]), r)
  /\ End(c, r)

LEMMA EndsTrue ==
  ASSUME Shape, NEW c \in Calls, op[c] # "none", Succeed(c) \/ Fail(c)
  PROVE  \E r \in Outcomes \ {"none"} : EndTrue(c, r)
<1>. DEFINE seen == ToSet(served[c])
<1>1. op[c] \in Operations /\ served[c] \in Seq(Calls \cup {Absent})
  BY DEF Shape
<1>2. CASE Fail(c)
  <2>. DEFINE r == IF op[c] = "ping" THEN "no" ELSE "error"
  <2>1. r \in Outcomes \ {"none"}
    BY DEF Outcomes
  <2>2. True(op[c], seen, r)
    BY <1>1 DEF True, Operations
  <2>3. EndTrue(c, r)
    BY <1>2, <2>2 DEF EndTrue, Fail
  <2>. QED  BY <2>1, <2>3
<1>3. CASE Succeed(c)
  <2>. DEFINE v == Last(served[c])
              r == CASE op[c] \in {"upload", "delete"} -> "ok"
                     [] op[c] = "download" -> Found(c, v)
                     [] op[c] = "exists" -> IF v = Absent THEN "no" ELSE "yes"
                     [] op[c] = "ping" -> "yes"
  <2>1. v \in seen /\ seen \subseteq Calls \cup {Absent}
    BY <1>1, <1>3, LastSeen, SeenSubset DEF Succeed
  <2>2. work[c] = "running" /\ End(c, r)
    BY <1>3 DEF Succeed
  <2>. HIDE DEF v, seen
  <2>3. r \in Outcomes \ {"none"} /\ True(op[c], seen, r)
    BY <1>1, <2>1, StorageAssumption DEF Outcomes, True, Operations, Found
  <2>. HIDE DEF r
  <2>4. EndTrue(c, r)
    BY <2>2, <2>3 DEF EndTrue, seen
  <2>. QED  BY <2>3, <2>4
<1>. QED  BY <1>2, <1>3

(* A step, with the ways a thread ends taken together. *)
LEMMA Steps ==
  ASSUME Basic, Next
  PROVE  \E c \in Calls :
           \/ \E o \in Operations : Call(c, o)
           \/ Begin(c) \/ Serve(c) \/ GiveUp(c) \/ ServeLate(c)
           \/ \E r \in Outcomes \ {"none"} : EndTrue(c, r)
           \/ Deliver(c) \/ Cancel(c)
<1>1. PICK c \in Calls :
        \/ \E o \in Operations : Call(c, o)
        \/ Thread(c) \/ GiveUp(c) \/ ServeLate(c) \/ Deliver(c) \/ Cancel(c)
  BY DEF Next
<1>2. ASSUME Succeed(c) \/ Fail(c)
      PROVE  \E r \in Outcomes \ {"none"} : EndTrue(c, r)
  <2>1. work[c] = "running"
    BY <1>2 DEF Succeed, Fail
  <2>2. op[c] # "none"
    BY <2>1 DEF Basic, Shape, Stages, Idle, Awaiting, Answered, Cancelled, Operations
  <2>. QED  BY <1>2, <2>2, EndsTrue DEF Basic
<1>. QED  BY <1>1, <1>2 DEF Thread

(* A thread is at work for a caller that waits, or has been cancelled. *)
LEMMA RunningMeans ==
  ASSUME Basic, NEW c \in Calls, work[c] = "running"
  PROVE  task[c] \in {"awaiting", "cancelled"} /\ op[c] \in Operations
BY DEF Basic, Shape, Stages, Idle, Awaiting, Answered, Cancelled

LEMMA EffectIsContent ==
  ASSUME Shape, NEW c \in Calls
  PROVE  Effect(c) \in Calls \cup {Absent}
BY DEF Effect, Shape

LEMMA BeginsQueued ==
  ASSUME Basic, NEW c \in Calls, Begin(c)
  PROVE  /\ work[c] = "queued" /\ task[c] = "awaiting"
         /\ served[c] = <<>> /\ reply[c] = "none"
<1>1. 1 \in 1..Len(queue) /\ queue[1] = c
  BY EmptySeq DEF Begin, Basic, Shape
<1>2. work[c] = "queued"
  BY <1>1 DEF Basic, QueuedOnce
<1>. QED  BY <1>2 DEF Basic, Shape, Stages, Idle, Awaiting, Answered, Cancelled

-----------------------------------------------------------------------------

LEMMA ShapeStep ==
  ASSUME Basic, [Next]_vars
  PROVE  Shape'
<1>. USE DEF Basic
<1>1. CASE UNCHANGED vars
  BY <1>1 DEF Shape, vars, callVars, workVars
<1>2. ASSUME NEW c \in Calls, NEW o \in Operations, Call(c, o)  PROVE Shape'
  <2>1. Append(queue, c) \in Seq(Calls)
    BY AppendProperties DEF Shape
  <2>2. {d \in Calls : task[d] = "answered"} \in SUBSET Calls
    OBVIOUS
  <2>. QED  BY <1>2, <2>1, <2>2 DEF Call, Shape
<1>3. ASSUME NEW c \in Calls, Begin(c)  PROVE Shape'
  <2>1. Tail(queue) \in Seq(Calls)
    BY <1>3 DEF Begin, Shape
  <2>. QED  BY <1>3, <2>1 DEF Begin, Shape, callVars
<1>4. ASSUME NEW c \in Calls, Serve(c)  PROVE Shape'
  <2>1. object' \in Calls \cup {Absent}
    BY <1>4, EffectIsContent DEF Serve
  <2>2. Append(served[c], object') \in Seq(Calls \cup {Absent})
    BY <2>1, AppendProperties DEF Shape
  <2>. QED  BY <1>4, <2>1, <2>2 DEF Serve, Shape, callVars, workVars
<1>5. ASSUME NEW c \in Calls, GiveUp(c)  PROVE Shape'
  BY <1>5 DEF GiveUp, Shape, callVars, workVars
<1>6. ASSUME NEW c \in Calls, ServeLate(c)  PROVE Shape'
  <2>1. object' \in Calls \cup {Absent}
    BY <1>6, EffectIsContent DEF ServeLate
  <2>. QED  BY <1>6, <2>1 DEF ServeLate, Shape, callVars, workVars
<1>7. ASSUME NEW c \in Calls, NEW r \in Outcomes, EndTrue(c, r)  PROVE Shape'
  <2>1. <<>> \in Seq(Calls \cup {Absent})
    OBVIOUS
  <2>. QED  BY <1>7, <2>1 DEF EndTrue, End, Shape, callVars
<1>8. ASSUME NEW c \in Calls, Deliver(c)  PROVE Shape'
  <2>1. <<>> \in Seq(Calls \cup {Absent})
    OBVIOUS
  <2>. QED  BY <1>8, <2>1 DEF Deliver, Shape, workVars
<1>9. ASSUME NEW c \in Calls, Cancel(c)  PROVE Shape'
  <2>1. <<>> \in Seq(Calls \cup {Absent}) /\ "none" \in Outcomes
    BY DEF Outcomes
  <2>2. queue' \in Seq(Calls)
    <3>1. DOMAIN queue = 1..Len(queue)
      BY DEF Shape
    <3>. QED  BY <1>9, <3>1, RemoveAtProperties DEF Cancel, Shape
  <2>3. /\ served' \in [Calls -> Seq(Calls \cup {Absent})]
        /\ reply' \in [Calls -> Outcomes]
    BY <1>9, <2>1 DEF Cancel, Shape
  <2>4. /\ task' \in [Calls -> {"idle", "awaiting", "answered", "cancelled"}]
        /\ work' \in [Calls -> {"none", "queued", "running", "finished"}]
    BY <1>9 DEF Cancel, Shape
  <2>. QED  BY <1>9, <2>2, <2>3, <2>4 DEF Cancel, Shape
<1>. QED  BY <1>1, <1>2, <1>3, <1>4, <1>5, <1>6, <1>7, <1>8, <1>9, Steps

LEMMA QueuedOnceStep ==
  ASSUME Basic, [Next]_vars
  PROVE  QueuedOnce'
<1>. USE DEF Basic
<1>. DEFINE n == Len(queue)
<1>1. /\ n \in Nat /\ DOMAIN queue = 1..n /\ queue \in Seq(Calls)
      /\ \A k \in 1..n : queue[k] \in Calls
  BY LenProperties, ElementOfSeq DEF Shape
<1>2. CASE UNCHANGED vars \/ \E c \in Calls : Serve(c) \/ GiveUp(c) \/ ServeLate(c) \/ Deliver(c)
  BY <1>2 DEF QueuedOnce, vars, callVars, workVars, Serve, GiveUp, ServeLate, Deliver
<1>3. ASSUME NEW c \in Calls, NEW o \in Operations, Call(c, o)  PROVE QueuedOnce'
  <2>1. task[c] = "idle" /\ queue' = Append(queue, c) /\ work' = [work EXCEPT ![c] = "queued"]
    BY <1>3 DEF Call
  <2>2. work[c] = "none"
    BY <2>1 DEF Stages, Idle
  <2>3. /\ Len(queue') = n + 1 /\ queue'[n + 1] = c
        /\ \A k \in 1..n : queue'[k] = queue[k]
    BY <1>1, <2>1, AppendProperties
  <2>4. \A k \in 1..n : queue[k] # c
    BY <2>2 DEF QueuedOnce
  <2>5. \A k \in 1..(n + 1) : k \in 1..n \/ k = n + 1
    BY <1>1
  <2>6. work \in [Calls -> {"none", "queued", "running", "finished"}]
    BY DEF Shape
  <2>. HIDE DEF n
  <2>7. \A k \in 1..(n + 1) : work'[queue'[k]] = "queued"
    BY <1>1, <2>1, <2>3, <2>5, <2>6 DEF QueuedOnce, n
  <2>8. \A j, k \in 1..(n + 1) : queue'[j] = queue'[k] => j = k
    BY <2>3, <2>4, <2>5 DEF QueuedOnce, n
  <2>. QED  BY <2>3, <2>7, <2>8 DEF QueuedOnce
<1>4. ASSUME NEW c \in Calls, Begin(c)  PROVE QueuedOnce'
  <2>1. /\ queue # <<>> /\ c = Head(queue) /\ queue' = Tail(queue)
        /\ work' = [work EXCEPT ![c] = "running"]
    BY <1>4 DEF Begin
  <2>2. /\ n > 0 /\ queue[1] = c /\ Len(queue') = n - 1
        /\ \A k \in 1..(n - 1) : queue'[k] = queue[k + 1]
    BY <1>1, <2>1, EmptySeq
  <2>3. \A k \in 1..(n - 1) : k + 1 \in 1..n /\ queue[k + 1] # c
    BY <1>1, <2>2 DEF QueuedOnce
  <2>4. work \in [Calls -> {"none", "queued", "running", "finished"}]
    BY DEF Shape
  <2>5. \A k \in 1..(n - 1) : work'[queue'[k]] = "queued"
    BY <1>1, <2>1, <2>2, <2>3, <2>4 DEF QueuedOnce
  <2>6. \A j, k \in 1..(n - 1) : queue'[j] = queue'[k] => j = k
    BY <1>1, <2>2, <2>3 DEF QueuedOnce
  <2>. QED  BY <2>2, <2>5, <2>6 DEF QueuedOnce
<1>5. ASSUME NEW c \in Calls, NEW r \in Outcomes, EndTrue(c, r)  PROVE QueuedOnce'
  <2>1. \A k \in 1..n : queue[k] # c
    BY <1>5 DEF QueuedOnce, EndTrue
  <2>. QED  BY <1>1, <1>5, <2>1 DEF QueuedOnce, EndTrue, End, Shape
<1>6. ASSUME NEW c \in Calls, Cancel(c)  PROVE QueuedOnce'
  <2>1. work' = [work EXCEPT ![c] = IF @ = "queued" THEN "none" ELSE @]
    BY <1>6 DEF Cancel
  <2>2. work \in [Calls -> {"none", "queued", "running", "finished"}]
    BY DEF Shape
  <2>3. CASE work[c] # "queued"
    <3>1. queue' = queue /\ work' = work
      BY <1>6, <2>1, <2>3, <2>2 DEF Cancel
    <3>. QED  BY <3>1 DEF QueuedOnce
  <2>4. CASE work[c] = "queued"
    <3>1. PICK k \in 1..n : queue[k] = c /\ queue' = RemoveAt(queue, k)
      BY <1>1, <1>6, <2>4 DEF Cancel
    <3>2. /\ Len(queue') = n - 1
          /\ \A i \in 1..(n - 1) :
               queue'[i] = IF i < k THEN queue[i] ELSE queue[i + 1]
      BY <1>1, <3>1, RemoveAtProperties
    <3>. DEFINE from(i) == IF i < k THEN i ELSE i + 1
    <3>3. \A i \in 1..(n - 1) : from(i) \in 1..n /\ from(i) # k
      BY <1>1
    <3>4. \A i \in 1..(n - 1) : queue'[i] = queue[from(i)]
      BY <3>2
    <3>5. \A i, j \in 1..(n - 1) : from(i) = from(j) => i = j
      BY <1>1
    <3>. HIDE DEF from
    <3>6. \A i \in 1..(n - 1) : queue[from(i)] # c /\ queue[from(i)] \in Calls
      BY <1>1, <3>1, <3>3 DEF QueuedOnce
    <3>7. \A i \in 1..(n - 1) : work'[queue'[i]] = "queued"
      BY <2>1, <2>2, <3>3, <3>4, <3>6 DEF QueuedOnce
    <3>8. \A i, j \in 1..(n - 1) : queue'[i] = queue'[j] => i = j
      <4>. SUFFICES ASSUME NEW i \in 1..(n - 1), NEW j \in 1..(n - 1),
                           queue'[i] = queue'[j]
                    PROVE  i = j
        OBVIOUS
      <4>1. queue[from(i)] = queue[from(j)]
        BY <3>4
      <4>2. from(i) = from(j)
        BY <3>3, <4>1 DEF QueuedOnce
      <4>. QED  BY <3>5, <4>2
    <3>9. Len(queue') = n - 1
      BY <3>2
    <3>. HIDE DEF n
    <3>. QED  BY <3>7, <3>8, <3>9 DEF QueuedOnce
  <2>. QED  BY <2>3, <2>4
<1>. QED  BY <1>2, <1>3, <1>4, <1>5, <1>6, Steps

LEMMA StagesStep ==
  ASSUME Basic, [Next]_vars
  PROVE  Stages'
<1>. SUFFICES ASSUME NEW d \in Calls
              PROVE  /\ (task[d] = "idle" => Idle(d))'
                     /\ (task[d] = "awaiting" => Awaiting(d))'
                     /\ (task[d] = "answered" => Answered(d))'
                     /\ (task[d] = "cancelled" => Cancelled(d))'
  BY DEF Stages
<1>. DEFINE G == /\ (task[d] = "idle" => Idle(d))'
                 /\ (task[d] = "awaiting" => Awaiting(d))'
                 /\ (task[d] = "answered" => Answered(d))'
                 /\ (task[d] = "cancelled" => Cancelled(d))'
<1>1. /\ task[d] = "idle" => Idle(d)
      /\ task[d] = "awaiting" => Awaiting(d)
      /\ task[d] = "answered" => Answered(d)
      /\ task[d] = "cancelled" => Cancelled(d)
  BY DEF Stages, Basic
<1>2. Shape
  BY DEF Basic
<1>. USE DEF Idle, Awaiting, Answered, Cancelled, Shape
<1>3. CASE UNCHANGED vars
  BY <1>1, <1>3 DEF vars, callVars, workVars
<1>4. ASSUME NEW c \in Calls, NEW o \in Operations, Call(c, o)  PROVE G
  BY <1>1, <1>2, <1>4 DEF Call
<1>5. ASSUME NEW c \in Calls, Begin(c)  PROVE G
  <2>1. /\ work[c] = "queued" /\ task[c] = "awaiting"
        /\ served[c] = <<>> /\ reply[c] = "none"
    BY <1>5, BeginsQueued
  <2>. QED  BY <1>1, <1>2, <1>5, <2>1 DEF Begin, callVars
<1>6. ASSUME NEW c \in Calls, Serve(c)  PROVE G
  <2>1. task[c] \in {"awaiting", "cancelled"} /\ work[c] = "running"
    BY <1>6, RunningMeans DEF Serve
  <2>. QED  BY <1>1, <1>2, <1>6, <2>1 DEF Serve, callVars, workVars
<1>7. ASSUME NEW c \in Calls, GiveUp(c)  PROVE G
  <2>1. task[c] \in {"awaiting", "cancelled"} /\ work[c] = "running"
    BY <1>7, RunningMeans DEF GiveUp
  <2>. QED  BY <1>1, <1>2, <1>7, <2>1 DEF GiveUp, callVars, workVars
<1>8. ASSUME NEW c \in Calls, ServeLate(c)  PROVE G
  BY <1>1, <1>2, <1>8 DEF ServeLate, callVars, workVars
<1>9. ASSUME NEW c \in Calls, NEW r \in Outcomes, EndTrue(c, r)  PROVE G
  <2>1. /\ task[c] \in {"awaiting", "cancelled"} /\ work[c] = "running"
        /\ True(op[c], ToSet(served[c]), r) /\ End(c, r)
    BY <1>9, RunningMeans DEF EndTrue
  <2>. QED  BY <1>1, <1>2, <2>1 DEF End, callVars
<1>10. ASSUME NEW c \in Calls, Deliver(c)  PROVE G
  <2>1. ASSUME c = d  PROVE reply[c] \in Results(op[c])
    <3>1. True(op[c], ToSet(served[c]), reply[c]) /\ op[c] \in Operations
      BY <1>1, <1>10, <2>1 DEF Deliver
    <3>2. ToSet(served[c]) \subseteq Calls \cup {Absent}
      BY <1>2, SeenSubset
    <3>. QED  BY <3>1, <3>2 DEF True, Results, Operations
  <2>. QED  BY <1>1, <1>2, <1>10, <2>1 DEF Deliver, workVars
<1>11. ASSUME NEW c \in Calls, Cancel(c)  PROVE G
  BY <1>1, <1>2, <1>11 DEF Cancel
<1>. QED  BY <1>3, <1>4, <1>5, <1>6, <1>7, <1>8, <1>9, <1>10, <1>11, Steps

LEMMA BeforeAnsweredStep ==
  ASSUME Basic, [Next]_vars
  PROVE  BeforeAnswered'
<1>. SUFFICES ASSUME NEW b \in Calls, NEW d \in before'[b]
              PROVE  task'[d] = "answered"
  BY DEF BeforeAnswered
<1>1. Shape /\ BeforeAnswered
  BY DEF Basic
<1>. USE DEF Shape, BeforeAnswered
<1>2. CASE UNCHANGED vars
  BY <1>1, <1>2 DEF vars, callVars
<1>3. ASSUME NEW c \in Calls, NEW o \in Operations, Call(c, o)
      PROVE  task'[d] = "answered"
  BY <1>1, <1>3 DEF Call
<1>4. ASSUME NEW c \in Calls,
             Begin(c) \/ Serve(c) \/ GiveUp(c) \/ ServeLate(c)
             \/ \E r \in Outcomes : EndTrue(c, r)
      PROVE  task'[d] = "answered"
  BY <1>1, <1>4 DEF Begin, Serve, GiveUp, ServeLate, EndTrue, End, callVars
<1>5. ASSUME NEW c \in Calls, Deliver(c) \/ Cancel(c)
      PROVE  task'[d] = "answered"
  BY <1>1, <1>5 DEF Deliver, Cancel
<1>. QED  BY <1>2, <1>3, <1>4, <1>5, Steps

LEMMA BasicInvariant == Spec => []Basic
<1>1. Init => Basic
  BY StorageAssumption DEF Init, Basic, Shape, QueuedOnce, Stages, Idle,
     BeforeAnswered, Outcomes
<1>2. Basic /\ [Next]_vars => Basic'
  BY ShapeStep, QueuedOnceStep, StagesStep, BeforeAnsweredStep DEF Basic
<1>. QED  BY <1>1, <1>2, PTL DEF Spec

-----------------------------------------------------------------------------
(* Types. *)

LEMMA BasicTypes == Basic => TypeOK
<1>. SUFFICES ASSUME Basic  PROVE TypeOK
  OBVIOUS
<1>1. Shape
  BY DEF Basic
<1>2. ASSUME NEW c \in Calls
      PROVE  /\ reply[c] \in Results(op[c]) \cup {"none"}
             /\ answer[c] \in Results(op[c]) \cup {"none"}
  <2>1. ToSet(served[c]) \subseteq Calls \cup {Absent}
    BY <1>1, SeenSubset DEF Shape
  <2>2. op[c] \in Operations /\ True(op[c], ToSet(served[c]), reply[c])
          => reply[c] \in Results(op[c])
    BY <2>1 DEF True, Results, Operations
  <2>. QED  BY <1>1, <2>2
         DEF Basic, Shape, Stages, Idle, Awaiting, Answered, Cancelled
<1>. QED  BY <1>1, <1>2 DEF TypeOK, Shape

(* Every variable has its type, and a call never has a result its method   *)
(* cannot give.                                                            *)
THEOREM StorageTyped == Spec => []TypeOK
BY BasicInvariant, BasicTypes, PTL

-----------------------------------------------------------------------------
(* Writes. *)

(* The storage has executed a write of w, and w has not failed. *)
Wrote(w) ==
  /\ op[w] \in {"upload", "delete"}
  /\ served[w] # <<>> \/ answer[w] = "ok"

(* Content from before a write of w2 is not there any more. *)
Overwritten ==
  \A w1, w2 \in Calls :
    w1 \in before[w2] /\ Wrote(w2) /\ object = w1 => w1 \in astray

(* No step makes content of an answered call appear, unless it is astray.  *)
LEMMA AnsweredStaysAway ==
  ASSUME Basic, [Next]_vars, NEW w \in Calls, task[w] = "answered",
         object # w, object' = w
  PROVE  w \in astray'
<1>1. Shape
  BY DEF Basic
<1>2. w # Absent
  BY StorageAssumption
<1>3. ASSUME NEW c \in Calls, Serve(c)  PROVE w \in astray'
  <2>1. task[c] # "answered"
    BY <1>3, RunningMeans DEF Serve
  <2>. QED  BY <1>2, <1>3, <2>1 DEF Serve, Effect
<1>4. ASSUME NEW c \in Calls, ServeLate(c)  PROVE w \in astray'
  BY <1>2, <1>4 DEF ServeLate, Effect
<1>5. CASE UNCHANGED vars
  BY <1>5 DEF vars
<1>6. ASSUME NEW c \in Calls,
             \/ \E o \in Operations : Call(c, o)
             \/ Begin(c) \/ GiveUp(c) \/ Deliver(c) \/ Cancel(c)
             \/ \E r \in Outcomes : EndTrue(c, r)
      PROVE  w \in astray'
  BY <1>6 DEF Call, Begin, GiveUp, Deliver, Cancel, EndTrue, End
<1>. QED  BY <1>3, <1>4, <1>5, <1>6, Steps

(* What stays as it was: a call's operation, what it was made after, and    *)
(* that it was answered, with its answer.                                  *)
LEMMA Stable ==
  ASSUME Basic, [Next]_vars, NEW w \in Calls
  PROVE  /\ task[w] # "idle" =>
              op'[w] = op[w] /\ before'[w] = before[w] /\ task'[w] # "idle"
         /\ task[w] = "answered" =>
              task'[w] = "answered" /\ answer'[w] = answer[w]
         /\ w \in astray => w \in astray'
         /\ task[w] = "idle" /\ task'[w] # "idle" =>
              served'[w] = <<>> /\ answer'[w] = "none"
         /\ task'[w] = "idle" => before'[w] = {}
<1>1. Shape /\ Stages
  BY DEF Basic
<1>. USE DEF Shape
<1>2. CASE UNCHANGED vars
  BY <1>1, <1>2 DEF vars, callVars, workVars, Stages, Idle
<1>3. ASSUME NEW c \in Calls,
             \/ Begin(c) \/ Serve(c) \/ GiveUp(c) \/ ServeLate(c)
             \/ \E r \in Outcomes : EndTrue(c, r)
      PROVE  UNCHANGED callVars /\ astray \subseteq astray'
  BY <1>3 DEF Begin, Serve, GiveUp, ServeLate, EndTrue, End
<1>4. CASE UNCHANGED callVars /\ astray \subseteq astray'
  BY <1>1, <1>4 DEF callVars, Stages, Idle
<1>5. ASSUME NEW c \in Calls, NEW o \in Operations, Call(c, o)
      PROVE  /\ task[w] # "idle" =>
              op'[w] = op[w] /\ before'[w] = before[w] /\ task'[w] # "idle"
             /\ task[w] = "answered" =>
                  task'[w] = "answered" /\ answer'[w] = answer[w]
             /\ w \in astray => w \in astray'
             /\ task[w] = "idle" /\ task'[w] # "idle" =>
                  served'[w] = <<>> /\ answer'[w] = "none"
             /\ task'[w] = "idle" => before'[w] = {}
  BY <1>1, <1>5 DEF Call, Stages, Idle
<1>6. ASSUME NEW c \in Calls, Deliver(c) \/ Cancel(c)
      PROVE  /\ task[w] # "idle" =>
              op'[w] = op[w] /\ before'[w] = before[w] /\ task'[w] # "idle"
             /\ task[w] = "answered" =>
                  task'[w] = "answered" /\ answer'[w] = answer[w]
             /\ w \in astray => w \in astray'
             /\ task[w] = "idle" /\ task'[w] # "idle" =>
                  served'[w] = <<>> /\ answer'[w] = "none"
             /\ task'[w] = "idle" => before'[w] = {}
  BY <1>1, <1>6 DEF Deliver, Cancel, Stages, Idle
<1>. QED  BY <1>2, <1>3, <1>4, <1>5, <1>6, Steps

(* What a step adds to what a call has met, and an answer it gives.         *)
LEMMA Gains ==
  ASSUME Basic, [Next]_vars, NEW r \in Calls
  PROVE  /\ \A v \in ToSet(served'[r]) :
              v \in ToSet(served[r]) \/ (Serve(r) /\ v = object')
         /\ served'[r] # <<>> => served[r] # <<>> \/ Serve(r)
         /\ answer'[r] # answer[r] =>
              task[r] = "awaiting" /\ True(op[r], ToSet(served[r]), answer'[r])
<1>1. Shape /\ Stages
  BY DEF Basic
<1>. DEFINE G == /\ \A v \in ToSet(served'[r]) :
                      v \in ToSet(served[r]) \/ (Serve(r) /\ v = object')
                 /\ served'[r] # <<>> => served[r] # <<>> \/ Serve(r)
                 /\ answer'[r] # answer[r] =>
                      /\ task[r] = "awaiting"
                      /\ True(op[r], ToSet(served[r]), answer'[r])
<1>2. CASE UNCHANGED <<served, answer>>
  BY <1>2
<1>3. ASSUME NEW c \in Calls, Serve(c)  PROVE G
  <2>1. served' = [served EXCEPT ![c] = Append(served[c], object')] /\ answer' = answer
    BY <1>3 DEF Serve, callVars
  <2>2. CASE c = r
    <3>1. object' \in Calls \cup {Absent}
      BY <1>1, <1>3, EffectIsContent DEF Serve
    <3>2. served[c] \in Seq(Calls \cup {Absent}) /\ served'[c] = Append(served[c], object')
      BY <1>1, <2>1 DEF Shape
    <3>3. ToSet(served'[c]) = ToSet(served[c]) \cup {object'}
      BY <3>1, <3>2, SeenOfAppend
    <3>. QED  BY <1>3, <2>1, <2>2, <3>3
  <2>3. CASE c # r
    <3>1. served'[r] = served[r]
      BY <1>1, <2>1, <2>3 DEF Shape
    <3>. QED  BY <2>1, <3>1
  <2>. QED  BY <2>2, <2>3
<1>4. ASSUME NEW c \in Calls, NEW o \in Outcomes, EndTrue(c, o)  PROVE G
  <2>1. served'[r] \in {served[r], <<>>} /\ answer' = answer
    BY <1>1, <1>4 DEF EndTrue, End, callVars, Shape
  <2>. QED  BY <2>1, SeenOfEmpty
<1>5. ASSUME NEW c \in Calls, Cancel(c)  PROVE G
  <2>1. served'[r] \in {served[r], <<>>} /\ answer' = answer
    BY <1>1, <1>5 DEF Cancel, Shape
  <2>. QED  BY <2>1, SeenOfEmpty
<1>6. ASSUME NEW c \in Calls, Deliver(c)  PROVE G
  <2>1. served'[r] \in {served[r], <<>>}
    BY <1>1, <1>6 DEF Deliver, Shape
  <2>2. ASSUME answer'[r] # answer[r]
        PROVE  task[r] = "awaiting" /\ True(op[r], ToSet(served[r]), answer'[r])
    <3>1. c = r /\ answer'[r] = reply[r]
      BY <1>1, <1>6, <2>2 DEF Deliver, Shape
    <3>. QED  BY <1>1, <1>6, <3>1 DEF Deliver, Stages, Awaiting
  <2>. QED  BY <2>1, <2>2, SeenOfEmpty
<1>7. ASSUME NEW c \in Calls,
             \/ \E o \in Operations : Call(c, o)
             \/ Begin(c) \/ GiveUp(c) \/ ServeLate(c)
      PROVE  UNCHANGED <<served, answer>>
  BY <1>7 DEF Call, Begin, GiveUp, ServeLate, callVars
<1>8. CASE UNCHANGED vars
  BY <1>2, <1>8 DEF vars, callVars
<1>. QED  BY <1>2, <1>3, <1>4, <1>5, <1>6, <1>7, <1>8, Steps

(* An answer to a call that has one is a result of its operation.          *)
LEMMA OkMeansWrote ==
  ASSUME Basic, NEW w \in Calls, answer[w] = "ok"
  PROVE  Wrote(w)
<1>1. task[w] = "answered" /\ "ok" \in Results(op[w])
  BY DEF Basic, Shape, Stages, Idle, Awaiting, Answered, Cancelled
<1>. QED  BY <1>1, StorageAssumption
       DEF Wrote, Results, Basic, Shape, Operations

(* The first "ok" of a write follows a request the storage executed.       *)
LEMMA WroteEarlier ==
  ASSUME Basic, [Next]_vars, NEW w \in Calls, task[w] # "idle", Wrote(w)'
  PROVE  Wrote(w) \/ Serve(w)
<1>1. op'[w] = op[w]
  BY Stable
<1>2. CASE served'[w] # <<>>
  BY <1>1, <1>2, Gains DEF Wrote
<1>3. CASE answer'[w] = "ok"
  <2>1. CASE answer[w] = "ok"
    BY <1>1, <2>1 DEF Wrote
  <2>2. CASE answer[w] # "ok"
    <3>1. True(op[w], ToSet(served[w]), "ok") /\ op[w] \in {"upload", "delete"}
      BY <1>1, <1>3, <2>2, Gains DEF Wrote
    <3>2. ToSet(served[w]) # {}
      BY <3>1 DEF True
    <3>3. served[w] # <<>>
      BY <3>2, SeenOfEmpty
    <3>. QED  BY <3>1, <3>3 DEF Wrote
  <2>. QED  BY <2>1, <2>2
<1>. QED  BY <1>2, <1>3 DEF Wrote

(* A call that other calls preceded, and that has met content, wrote or was *)
(* answered, was made in an earlier step.                                   *)
LEMMA MadeEarlier ==
  ASSUME Basic, [Next]_vars, NEW w1 \in Calls, NEW w2 \in Calls,
         w1 \in before'[w2], served'[w2] # <<>> \/ answer'[w2] # "none"
  PROVE  /\ task[w2] # "idle" /\ w1 \in before[w2] /\ op'[w2] = op[w2]
         /\ task[w1] = "answered"
<1>1. task[w2] # "idle"
  BY Stable
<1>2. w1 \in before[w2] /\ op'[w2] = op[w2]
  BY <1>1, Stable
<1>. QED  BY <1>1, <1>2 DEF Basic, BeforeAnswered

LEMMA OverwrittenStep ==
  ASSUME Basic, Overwritten, [Next]_vars
  PROVE  Overwritten'
<1>. SUFFICES ASSUME NEW w1 \in Calls, NEW w2 \in Calls,
                     w1 \in before'[w2], Wrote(w2)', object' = w1
              PROVE  w1 \in astray'
  BY DEF Overwritten
<1>1. task[w2] # "idle" /\ w1 \in before[w2] /\ task[w1] = "answered"
  BY MadeEarlier DEF Wrote
<1>2. CASE object # w1
  BY <1>1, <1>2, AnsweredStaysAway
<1>3. CASE object = w1 /\ Wrote(w2)
  <2>1. w1 \in astray
    BY <1>1, <1>3 DEF Overwritten
  <2>. QED  BY <2>1, Stable
<1>4. CASE Serve(w2)
  <2>1. op'[w2] = op[w2]
    BY <1>1, Stable
  <2>2. object' = w2 \/ object' = Absent
    BY <1>4, <2>1 DEF Serve, Effect, Wrote
  <2>3. task[w2] # "answered"
    BY <1>4, RunningMeans DEF Serve
  <2>. QED  BY <1>1, <2>2, <2>3, StorageAssumption
<1>. QED  BY <1>1, <1>2, <1>3, <1>4, WroteEarlier

-----------------------------------------------------------------------------
(* Downloads. *)

(* A call has met w1, or was answered with it, after it had been replaced.  *)
ReadsNotStale ==
  \A w1, w2, r \in Calls :
    /\ w1 \in before[w2] /\ answer[w2] = "ok" /\ w2 \in before[r]
    /\ w1 \in ToSet(served[r]) \/ answer[r] = w1
    => w1 \in astray

LEMMA ReadsNotStaleStep ==
  ASSUME Basic, Overwritten, ReadsNotStale, [Next]_vars
  PROVE  ReadsNotStale'
<1>. SUFFICES ASSUME NEW w1 \in Calls, NEW w2 \in Calls, NEW r \in Calls,
                     w1 \in before'[w2], answer'[w2] = "ok", w2 \in before'[r],
                     w1 \in ToSet(served'[r]) \/ answer'[r] = w1
              PROVE  w1 \in astray'
  BY DEF ReadsNotStale
<1>1. served'[r] # <<>> \/ answer'[r] # "none"
  BY SeenOfEmpty, StorageAssumption
<1>2. w2 \in before[r] /\ task[w2] = "answered"
  BY <1>1, MadeEarlier
<1>3. w1 \in before[w2] /\ task[w1] = "answered" /\ answer[w2] = "ok"
  BY <1>2, MadeEarlier, Stable
<1>4. CASE w1 \in ToSet(served[r]) \/ answer[r] = w1
  <2>1. w1 \in astray
    BY <1>2, <1>3, <1>4 DEF ReadsNotStale
  <2>. QED  BY <2>1, Stable
<1>5. CASE object' = w1
  <2>1. CASE object # w1
    BY <1>3, <1>5, <2>1, AnsweredStaysAway
  <2>2. CASE object = w1
    <3>1. w1 \in astray
      BY <1>3, <2>2, OkMeansWrote DEF Overwritten
    <3>. QED  BY <3>1, Stable
  <2>. QED  BY <2>1, <2>2
<1>6. CASE answer'[r] # answer[r] /\ answer'[r] = w1
  <2>1. True(op[r], ToSet(served[r]), w1)
    BY <1>6, Gains
  <2>2. w1 \in ToSet(served[r])
    BY <2>1, StorageAssumption DEF True
  <2>. QED  BY <1>4, <2>2
<1>. QED  BY <1>4, <1>5, <1>6, Gains

-----------------------------------------------------------------------------
(* Absence. *)

(* A delete_object() that u was not made after, or that is astray. *)
Deleted(u) ==
  \E d \in Calls : op[d] = "delete" /\ (d \notin before[u] \/ d \in astray)

(* An upload is gone, or a call has not met one that had been answered,    *)
(* only because of a delete_object().                                       *)
UploadLost ==
  \A u \in Calls :
    op[u] = "upload" /\ Wrote(u) /\ object = Absent => Deleted(u)

AbsenceMet ==
  \A u, r \in Calls :
    /\ op[u] = "upload" /\ answer[u] = "ok" /\ u \in before[r]
    /\ Absent \in ToSet(served[r]) \/ (op[r] = "exists" /\ answer[r] = "no")
    => Deleted(u)

LEMMA DeletedStays ==
  ASSUME Basic, [Next]_vars, NEW u \in Calls, task[u] # "idle", Deleted(u)
  PROVE  Deleted(u)'
<1>. PICK d \in Calls : op[d] = "delete" /\ (d \notin before[u] \/ d \in astray)
  BY DEF Deleted
<1>1. task[d] # "idle"
  BY DEF Basic, Stages, Idle
<1>2. op'[d] = "delete" /\ before'[u] = before[u] /\ (d \in astray => d \in astray')
  BY <1>1, Stable
<1>. QED  BY <1>2 DEF Deleted

(* The object disappears when a delete_object() is executed.               *)
LEMMA BecomesAbsent ==
  ASSUME Basic, [Next]_vars, object # Absent, object' = Absent,
         NEW u \in Calls, task[u] # "idle"
  PROVE  Deleted(u)'
<1>1. Absent \notin Calls
  BY StorageAssumption
<1>2. ASSUME NEW c \in Calls, Serve(c)  PROVE Deleted(u)
  <2>1. op[c] = "delete"
    BY <1>1, <1>2 DEF Serve, Effect
  <2>2. task[c] # "answered"
    BY <1>2, RunningMeans DEF Serve
  <2>3. c \notin before[u]
    BY <2>2 DEF Basic, BeforeAnswered
  <2>. QED  BY <2>1, <2>3 DEF Deleted
<1>3. ASSUME NEW c \in Calls, ServeLate(c)  PROVE Deleted(u)
  BY <1>1, <1>3 DEF ServeLate, Effect, Deleted
<1>4. CASE UNCHANGED object
  BY <1>4
<1>5. ASSUME NEW c \in Calls,
             \/ \E o \in Operations : Call(c, o)
             \/ Begin(c) \/ GiveUp(c) \/ Deliver(c) \/ Cancel(c)
             \/ \E r \in Outcomes : EndTrue(c, r)
      PROVE  UNCHANGED object
  BY <1>5 DEF Call, Begin, GiveUp, Deliver, Cancel, EndTrue, End
<1>6. Deleted(u)
  BY <1>2, <1>3, <1>4, <1>5, Steps DEF vars
<1>. QED  BY <1>6, DeletedStays

LEMMA UploadLostStep ==
  ASSUME Basic, UploadLost, [Next]_vars
  PROVE  UploadLost'
<1>. SUFFICES ASSUME NEW u \in Calls, op'[u] = "upload", Wrote(u)', object' = Absent
              PROVE  Deleted(u)'
  BY DEF UploadLost
<1>1. task[u] # "idle"
  <2>. SUFFICES ASSUME task[u] = "idle", task'[u] = "idle"  PROVE FALSE
    BY Stable DEF Wrote
  <2>. QED  BY StagesStep DEF Stages, Idle
<1>2. op[u] = "upload"
  BY <1>1, Stable
<1>3. CASE object # Absent
  BY <1>1, <1>3, BecomesAbsent
<1>4. CASE object = Absent /\ Wrote(u)
  BY <1>1, <1>2, <1>4, DeletedStays DEF UploadLost
<1>5. CASE Serve(u)
  BY <1>2, <1>5, StorageAssumption DEF Serve, Effect
<1>. QED  BY <1>1, <1>3, <1>4, <1>5, WroteEarlier

LEMMA AbsenceMetStep ==
  ASSUME Basic, UploadLost, AbsenceMet, [Next]_vars
  PROVE  AbsenceMet'
<1>. SUFFICES ASSUME NEW u \in Calls, NEW r \in Calls,
                     op'[u] = "upload", answer'[u] = "ok", u \in before'[r],
                     \/ Absent \in ToSet(served'[r])
                     \/ op'[r] = "exists" /\ answer'[r] = "no"
              PROVE  Deleted(u)'
  BY DEF AbsenceMet
<1>1. served'[r] # <<>> \/ answer'[r] # "none"
  BY SeenOfEmpty
<1>2. u \in before[r] /\ task[u] = "answered" /\ op'[r] = op[r]
  BY <1>1, MadeEarlier
<1>3. op[u] = "upload" /\ answer[u] = "ok" /\ task[u] # "idle"
  BY <1>2, Stable
<1>4. CASE Absent \in ToSet(served[r]) \/ (op[r] = "exists" /\ answer[r] = "no")
  <2>1. Deleted(u)
    BY <1>2, <1>3, <1>4 DEF AbsenceMet
  <2>. QED  BY <1>3, <2>1, DeletedStays
<1>5. CASE object' = Absent
  <2>1. CASE object # Absent
    BY <1>3, <1>5, <2>1, BecomesAbsent
  <2>2. CASE object = Absent
    <3>1. Deleted(u)
      BY <1>3, <2>2, OkMeansWrote DEF UploadLost
    <3>. QED  BY <1>3, <3>1, DeletedStays
  <2>. QED  BY <2>1, <2>2
<1>6. CASE answer'[r] # answer[r] /\ op'[r] = "exists" /\ answer'[r] = "no"
  <2>1. True("exists", ToSet(served[r]), "no")
    BY <1>2, <1>6, Gains
  <2>2. Absent \in ToSet(served[r])
    BY <2>1 DEF True
  <2>. QED  BY <1>4, <2>2
<1>. QED  BY <1>2, <1>4, <1>5, <1>6, Gains

-----------------------------------------------------------------------------

IInv == Basic /\ Overwritten /\ ReadsNotStale /\ UploadLost /\ AbsenceMet

LEMMA IInvInvariant == Spec => []IInv
<1>1. Init => Overwritten /\ ReadsNotStale /\ UploadLost /\ AbsenceMet
  BY DEF Init, Overwritten, ReadsNotStale, UploadLost, AbsenceMet
<1>2. IInv /\ [Next]_vars => (Overwritten /\ ReadsNotStale /\ UploadLost /\ AbsenceMet)'
  BY OverwrittenStep, ReadsNotStaleStep, UploadLostStep, AbsenceMetStep DEF IInv
<1>3. Basic /\ Overwritten /\ ReadsNotStale /\ UploadLost /\ AbsenceMet <=> IInv
  BY DEF IInv
<1>. QED  BY <1>1, <1>2, <1>3, BasicInvariant, PTL DEF Spec

(* Content whose upload was answered before a write that succeeded was made *)
(* does not come back, unless a request of that upload went astray, for any *)
(* number of calls, threads and repeated requests.                          *)
THEOREM StorageKeepsOrder == Spec => []OverwrittenStaysOverwritten
<1>1. IInv => OverwrittenStaysOverwritten
  BY OkMeansWrote DEF IInv, Overwritten, OverwrittenStaysOverwritten
<1>. QED  BY <1>1, IInvInvariant, PTL

(* No download returns what a write had replaced before it was made, unless *)
(* a request of the replaced upload went astray.                            *)
THEOREM StorageReadsFresh == Spec => []DownloadsNotStale
<1>1. IInv => DownloadsNotStale
  BY DEF IInv, ReadsNotStale, DownloadsNotStale
<1>. QED  BY <1>1, IInvInvariant, PTL

(* object_exists() denies an upload that was answered before only if        *)
(* delete_object() was called and not over when the upload was made, or had *)
(* a request go astray.                                                     *)
THEOREM StorageExplainsAbsence == Spec => []AbsenceExplained
<1>1. IInv => AbsenceExplained
  BY DEF IInv, AbsenceMet, Deleted, AbsenceExplained
<1>. QED  BY <1>1, IInvInvariant, PTL

-----------------------------------------------------------------------------
(* The adapter implements BlobStore. *)

(* The state of a call, and what it has met, as BlobStore has them. *)
Use(c) == CASE task[c] = "awaiting" -> "open"
            [] task[c] = "cancelled" -> "abandoned"
            [] OTHER -> task[c]

Sees(c) == IF task[c] = "awaiting" THEN ToSet(served[c]) ELSE {}

Uses == [c \in Calls |-> Use(c)]

AllSees == [c \in Calls |-> Sees(c)]

(* A step of one call, seen from BlobStore. *)
LEMMA OneUse ==
  ASSUME NEW c \in Calls, \A d \in Calls \ {c} : Use(d)' = Use(d)
  PROVE  Uses' = [Uses EXCEPT ![c] = Use(c)']
BY DEF Uses

LEMMA OneSees ==
  ASSUME NEW c \in Calls, \A d \in Calls \ {c} : Sees(d)' = Sees(d)
  PROVE  AllSees' = [AllSees EXCEPT ![c] = Sees(c)']
BY DEF AllSees

(* The steps of c leave other calls alone. *)
LEMMA OthersKeep ==
  ASSUME Shape, NEW c \in Calls, NEW d \in Calls \ {c},
         \/ \E o \in Operations : Call(c, o)
         \/ Begin(c) \/ Serve(c) \/ GiveUp(c) \/ ServeLate(c)
         \/ \E r \in Outcomes : EndTrue(c, r)
         \/ Deliver(c) \/ Cancel(c)
  PROVE  /\ task'[d] = task[d] /\ served'[d] = served[d]
         /\ Use(d)' = Use(d) /\ Sees(d)' = Sees(d)
<1>1. task'[d] = task[d] /\ served'[d] = served[d]
  BY DEF Shape, Call, Begin, Serve, GiveUp, ServeLate, EndTrue, End, Deliver,
         Cancel, callVars, workVars
<1>. QED  BY <1>1 DEF Use, Sees

(* What BlobStore accepts as an answer of c. *)
LEMMA TrueAnswers ==
  ASSUME NEW c \in Calls, task[c] = "awaiting",
         NEW r, True(op[c], ToSet(served[c]), r)
  PROVE  r \in Blob!Answers(c)
<1>1. AllSees[c] = ToSet(served[c])
  BY DEF AllSees, Sees
<1>. DEFINE seen == AllSees[c]
<1>2. Blob!Answers(c) =
        CASE op[c] \in {"upload", "delete"} -> {"error"} \cup {"ok" : v \in seen}
          [] op[c] = "download" -> {"error"} \cup (seen \ {Absent})
          [] op[c] = "exists" ->
               {"error"} \cup {IF v = Absent THEN "no" ELSE "yes" : v \in seen}
          [] op[c] = "ping" -> {"no"} \cup {"yes" : v \in seen}
  BY DEF Blob!Answers, AllSees, Sees
<1>. HIDE DEF seen
<1>3. True(op[c], seen, r)
  BY <1>1 DEF seen
<1>4. CASE op[c] \in {"upload", "delete"}
  BY <1>2, <1>3, <1>4 DEF True
<1>5. CASE op[c] = "download"
  BY <1>2, <1>3, <1>5 DEF True
<1>6. CASE op[c] = "exists"
  BY <1>2, <1>3, <1>6 DEF True
<1>7. CASE op[c] = "ping"
  BY <1>2, <1>3, <1>7 DEF True
<1>. QED  BY <1>3, <1>4, <1>5, <1>6, <1>7 DEF True

LEMMA BlobStep ==
  ASSUME Basic, [Next]_vars
  PROVE  [Blob!Next]_(Blob!vars)
<1>1. Shape /\ Stages
  BY DEF Basic
<1>. DEFINE Still == UNCHANGED <<object, op, Uses, AllSees, astray, answer>>
            G == \/ \E c \in Calls :
                      \/ Blob!Invoke(c) \/ Blob!Act(c) \/ Blob!Doubt(c)
                      \/ Blob!ActLate(c) \/ Blob!Answer(c) \/ Blob!Abandon(c)
                 \/ Still
<1>2. ASSUME UNCHANGED vars  PROVE Still
  BY <1>2 DEF vars, callVars, workVars, Uses, AllSees, Use, Sees
<1>3. ASSUME NEW c \in Calls, NEW o \in Operations, Call(c, o)
      PROVE  Blob!Invoke(c)
  <2>1. task[c] = "idle" /\ task'[c] = "awaiting" /\ served' = served /\ served[c] = <<>>
    BY <1>1, <1>3 DEF Call, Shape, Stages, Idle
  <2>2. Use(c) = "idle" /\ Use(c)' = "open" /\ Sees(c) = {} /\ Sees(c)' = {}
    BY <2>1, SeenOfEmpty DEF Use, Sees
  <2>3. Uses' = [Uses EXCEPT ![c] = "open"] /\ AllSees' = [AllSees EXCEPT ![c] = {}]
    BY <1>1, <1>3, <2>2, OthersKeep, OneUse, OneSees
  <2>4. AllSees' = AllSees
    BY <2>2, <2>3 DEF AllSees
  <2>5. Uses[c] = "idle"
    BY <2>2 DEF Uses
  <2>. QED  BY <1>3, <2>3, <2>4, <2>5
         DEF Call, Blob!Invoke, Operations, Uses, AllSees, Use, Sees
<1>4. ASSUME NEW c \in Calls, Begin(c)  PROVE Still
  BY <1>4 DEF Begin, callVars, Uses, AllSees, Use, Sees
<1>5. ASSUME NEW c \in Calls, Serve(c)  PROVE Blob!Act(c)
  <2>1. task[c] \in {"awaiting", "cancelled"} /\ UNCHANGED callVars
    BY <1>5, RunningMeans DEF Serve
  <2>2. Uses' = Uses /\ Use(c)' = Use(c) /\ Uses[c] = Use(c)
    BY <2>1 DEF callVars, Uses, Use
  <2>3. object' \in Calls \cup {Absent}
    BY <1>1, <1>5, EffectIsContent DEF Serve
  <2>4. /\ served[c] \in Seq(Calls \cup {Absent})
        /\ served'[c] = Append(served[c], object')
    BY <1>1, <1>5 DEF Serve, Shape
  <2>5. Sees(c)' = IF task[c] = "awaiting" THEN Sees(c) \cup {object'} ELSE Sees(c)
    <3>1. ToSet(served'[c]) = ToSet(served[c]) \cup {object'}
      BY <2>3, <2>4, SeenOfAppend
    <3>. QED  BY <2>1, <3>1 DEF Sees, callVars
  <2>6. Use(c) \in {"open", "abandoned"} /\ (Use(c) = "open" <=> task[c] = "awaiting")
    BY <2>1 DEF Use
  <2>7. AllSees' = [AllSees EXCEPT ![c] =
                      IF Uses[c] = "open" THEN @ \cup {object'} ELSE @]
    <3>1. AllSees[c] = Sees(c)
      BY DEF AllSees
    <3>2. AllSees' = [AllSees EXCEPT ![c] = Sees(c)']
      BY <1>1, <1>5, OthersKeep, OneSees
    <3>. QED  BY <2>2, <2>5, <2>6, <3>1, <3>2
  <2>8. object' = Blob!Effect(c)
    BY <1>5 DEF Serve, Effect, Blob!Effect
  <2>. QED  BY <1>5, <2>1, <2>2, <2>6, <2>7, <2>8
         DEF Serve, callVars, Blob!Act, Uses, AllSees, Use, Sees
<1>6. ASSUME NEW c \in Calls, GiveUp(c)  PROVE Blob!Doubt(c)
  <2>1. task[c] \in {"awaiting", "cancelled"}
    BY <1>6, RunningMeans DEF GiveUp
  <2>. QED  BY <1>6, <2>1 DEF GiveUp, callVars, workVars, Blob!Doubt
<1>7. ASSUME NEW c \in Calls, ServeLate(c)  PROVE Blob!ActLate(c)
  BY <1>7 DEF ServeLate, callVars, workVars, Blob!ActLate, Effect, Blob!Effect
<1>8. ASSUME NEW c \in Calls, NEW r \in Outcomes, EndTrue(c, r)  PROVE Still
  <2>1. UNCHANGED <<callVars, object, astray>>
    BY <1>8 DEF EndTrue, End
  <2>2. Use(c)' = Use(c) /\ Sees(c)' = Sees(c)
    BY <1>8, <2>1 DEF EndTrue, End, callVars, Use, Sees
  <2>3. \A d \in Calls : Use(d)' = Use(d) /\ Sees(d)' = Sees(d)
    BY <1>1, <1>8, <2>2, OthersKeep
  <2>4. Uses' = Uses /\ AllSees' = AllSees
    BY <2>3 DEF Uses, AllSees
  <2>. QED  BY <2>1, <2>4 DEF callVars
<1>9. ASSUME NEW c \in Calls, Deliver(c)  PROVE Blob!Answer(c)
  <2>1. /\ task[c] = "awaiting" /\ task'[c] = "answered"
        /\ answer' = [answer EXCEPT ![c] = reply[c]]
        /\ True(op[c], ToSet(served[c]), reply[c])
    BY <1>1, <1>9 DEF Deliver, Shape, Stages, Awaiting
  <2>2. reply[c] \in Blob!Answers(c)
    BY <2>1, TrueAnswers
  <2>3. Use(c) = "open" /\ Use(c)' = "answered" /\ Sees(c)' = {}
    BY <2>1 DEF Use, Sees
  <2>4. Uses' = [Uses EXCEPT ![c] = "answered"] /\ AllSees' = [AllSees EXCEPT ![c] = {}]
    BY <1>1, <1>9, <2>3, OthersKeep, OneUse, OneSees
  <2>5. Uses[c] = "open"
    BY <2>3 DEF Uses
  <2>. HIDE DEF Still
  <2>. QED  BY <1>9, <2>1, <2>2, <2>4, <2>5
         DEF Deliver, Blob!Answer, Uses, AllSees, Use, Sees
<1>10. ASSUME NEW c \in Calls, Cancel(c)  PROVE Blob!Abandon(c)
  <2>1. task[c] = "awaiting" /\ task'[c] = "cancelled"
    BY <1>1, <1>10 DEF Cancel, Shape
  <2>2. Use(c) = "open" /\ Use(c)' = "abandoned" /\ Sees(c)' = {}
    BY <2>1 DEF Use, Sees
  <2>3. Uses' = [Uses EXCEPT ![c] = "abandoned"] /\ AllSees' = [AllSees EXCEPT ![c] = {}]
    BY <1>1, <1>10, <2>2, OthersKeep, OneUse, OneSees
  <2>4. Uses[c] = "open"
    BY <2>2 DEF Uses
  <2>. QED  BY <1>10, <2>3, <2>4
         DEF Cancel, Blob!Abandon, Uses, AllSees, Use, Sees
<1>11. G
  <2>. HIDE DEF Still
  <2>1. CASE UNCHANGED vars
    BY <1>2, <2>1
  <2>2. CASE Next
    <3>1. PICK c \in Calls :
            \/ \E o \in Operations : Call(c, o)
            \/ Begin(c) \/ Serve(c) \/ GiveUp(c) \/ ServeLate(c)
            \/ \E r \in Outcomes \ {"none"} : EndTrue(c, r)
            \/ Deliver(c) \/ Cancel(c)
      BY <2>2, Steps
    <3>. QED  BY <1>3, <1>4, <1>5, <1>6, <1>7, <1>8, <1>9, <1>10, <3>1
  <2>. QED  BY <2>1, <2>2
<1>12. CASE Still
  BY <1>12 DEF Blob!vars, Uses, AllSees, Use, Sees
<1>13. CASE \E c \in Calls :
              \/ Blob!Invoke(c) \/ Blob!Act(c) \/ Blob!Doubt(c)
              \/ Blob!ActLate(c) \/ Blob!Answer(c) \/ Blob!Abandon(c)
  BY <1>13 DEF Blob!Next
<1>. QED  BY <1>11, <1>12, <1>13

(* The adapter implements BlobStore: every step is one of BlobStore's, or   *)
(* leaves what BlobStore shows of it alone.                                 *)
THEOREM StorageImplementsBlobStore == Spec => ImplementsBlobStore
<1>1. Init => Blob!Init
  BY SeenOfEmpty DEF Init, Blob!Init
<1>2. Basic /\ [Next]_vars => [Blob!Next]_(Blob!vars)
  BY BlobStep
<1>. QED  BY <1>1, <1>2, BasicInvariant, PTL DEF Spec, ImplementsBlobStore, Blob!Spec
=============================================================================
