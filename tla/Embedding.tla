------------------------------ MODULE Embedding ------------------------------
(***************************************************************************)
(* EmbeddingAdapter of backend/app/infrastructure/llm/embedding_adapter.py:*)
(* embed_batch() cuts its texts into batches of batch_size, sends them one *)
(* after the other, sorts each response by its index field and appends it; *)
(* embed() calls it for one text and takes the first vector of its result. *)
(*                                                                         *)
(* Text j is the number j, and so is its vector.  The provider is modelled *)
(* from what the code reads of a response: a list of items with an index   *)
(* into the batch (from 0) and a vector, in any order.  A provider that is *)
(* not Faithful may leave items out.                                       *)
(***************************************************************************)
EXTENDS Integers, Sequences, FiniteSets

CONSTANTS
  MaxTexts,    \* bound on the length of the argument
  BatchSizes,  \* values of settings.embedding_batch_size
  Faithful     \* every response has one item for each text of its batch

ASSUME EmbeddingAssumption ==
  MaxTexts \in Nat /\ BatchSizes \subseteq Int /\ Faithful \in BOOLEAN

VARIABLES
  method,  \* "embed" or "embed_batch"
  texts,   \* number of texts
  size,    \* batch_size
  pc,      \* "idle", "loop", "posted", "replied" or "done"
  i,       \* the loop variable: texts sent so far
  data,    \* the items of the present response
  all,     \* all_embeddings
  sent,    \* sent[j]: requests that carried text j
  outcome  \* "none", "returned", "EmbeddingError" or "other exception"

vars == <<method, texts, size, pc, i, data, all, sent, outcome>>

(* A mutant of Batch: a slice that includes its end. *)
BatchInclusive == {j \in 1..texts : i < j /\ j <= i + size + 1}

(* texts[i : i + batch_size], as the set of the numbers of its texts. *)
Batch == {j \in 1..texts : i < j /\ j <= i + size}

Item(index, vector) == [index |-> index, vector |-> vector]

(* The place of item k of d in sorted(d, key=index), which is stable. *)
Rank(d, k) ==
  Cardinality({m \in DOMAIN d : \/ d[m].index < d[k].index
                                \/ d[m].index = d[k].index /\ m <= k})

(* A mutant: the items are taken as they come. *)
UnsortedVectors(d) == [r \in DOMAIN d |-> d[r].vector]

SortedVectors(d) ==
  [r \in DOMAIN d |-> d[CHOOSE k \in DOMAIN d : Rank(d, k) = r].vector]

(* The responses to the present batch: its items, each once, in any order. *)
Orders(S) == {p \in [1..Cardinality(S) -> S] :
                \A a, b \in DOMAIN p : p[a] = p[b] => a = b}

ResponsesTo(b) ==
  LET kept == IF Faithful THEN {b} ELSE SUBSET b
  IN UNION {{[k \in DOMAIN p |-> Item(p[k] - i - 1, p[k])] : p \in Orders(S)} :
            S \in kept}

Init ==
  /\ texts \in 0..MaxTexts
  /\ method \in {"embed", "embed_batch"}
  /\ method = "embed" => texts = 1
  /\ size \in BatchSizes
  /\ pc = "idle"
  /\ i = 0
  /\ data = <<>>
  /\ all = <<>>
  /\ sent = [j \in 1..MaxTexts |-> 0]
  /\ outcome = "none"

-----------------------------------------------------------------------------

Leave(how) == pc' = "done" /\ outcome' = how

(* `return all_embeddings`; `results[0]` of embed() is an IndexError where  *)
(* the result is empty.                                                     *)
HandBack(vectors) ==
  Leave(IF method = "embed" /\ vectors = <<>> THEN "other exception" ELSE "returned")

(* `if not texts: return []`; otherwise range(0, len(texts), batch_size),   *)
(* which is a ValueError for a step of 0 and empty for a negative one.      *)
Call ==
  /\ pc = "idle"
  /\ \/ texts = 0 /\ HandBack(<<>>)
     \/ texts > 0 /\ size = 0 /\ Leave("other exception")
     \/ texts > 0 /\ size < 0 /\ HandBack(all)
     \/ texts > 0 /\ size > 0 /\ pc' = "loop" /\ UNCHANGED outcome
  /\ UNCHANGED <<method, texts, size, i, data, all, sent>>

Post ==
  /\ pc = "loop"
  /\ i < texts
  /\ pc' = "posted"
  /\ sent' = [j \in 1..MaxTexts |-> IF j \in Batch THEN sent[j] + 1 ELSE sent[j]]
  /\ UNCHANGED <<method, texts, size, i, data, all, outcome>>

Reply ==
  /\ pc = "posted"
  /\ data' \in ResponsesTo(Batch)
  /\ pc' = "replied"
  /\ UNCHANGED <<method, texts, size, i, all, sent, outcome>>

(* A timeout, a network error or a status other than 200: no retry, and the *)
(* vectors of earlier batches are dropped with the frame.                   *)
PostFails ==
  /\ pc = "posted"
  /\ Leave("EmbeddingError")
  /\ UNCHANGED <<method, texts, size, i, data, all, sent>>

(* A 200 that is no embedding response: KeyError, TypeError, ValueError. *)
ReplyMalformed ==
  /\ pc = "posted"
  /\ Leave("other exception")
  /\ UNCHANGED <<method, texts, size, i, data, all, sent>>

(* A mutant of Extend: the next batch begins one text too late. *)
ExtendSkips ==
  /\ pc = "replied"
  /\ all' = all \o SortedVectors(data)
  /\ data' = <<>>
  /\ i' = i + size + 1
  /\ pc' = "loop"
  /\ UNCHANGED <<method, texts, size, sent, outcome>>

(* The sorted vectors are appended, and the loop goes on. *)
Extend ==
  /\ pc = "replied"
  /\ all' = all \o SortedVectors(data)
  /\ data' = <<>>
  /\ i' = i + size
  /\ pc' = "loop"
  /\ UNCHANGED <<method, texts, size, sent, outcome>>

Return ==
  /\ pc = "loop"
  /\ i >= texts
  /\ HandBack(all)
  /\ UNCHANGED <<method, texts, size, i, data, all, sent>>

Next == Call \/ Post \/ Reply \/ PostFails \/ ReplyMalformed \/ Extend \/ Return

Spec == Init /\ [][Next]_vars

-----------------------------------------------------------------------------
(* Properties. *)

TypeOK ==
  /\ method \in {"embed", "embed_batch"}
  /\ texts \in 0..MaxTexts
  /\ size \in BatchSizes
  /\ pc \in {"idle", "loop", "posted", "replied", "done"}
  /\ i \in 0..(MaxTexts + size) \cup {0}
  /\ \A k \in DOMAIN data :
       data[k].index \in 0..(size - 1) /\ data[k].vector \in 1..texts
  /\ all \in Seq(1..MaxTexts)
  /\ sent \in [1..MaxTexts -> Nat]
  /\ outcome \in {"none", "returned", "EmbeddingError", "other exception"}

(* "Returned vectors are in the same order as the input texts regardless of *)
(* API response ordering": at every moment the vectors gathered are those   *)
(* of the first texts, one each, at their places, across all batches.       *)
VectorsAligned ==
  /\ \A j \in 1..Len(all) : all[j] = j
  /\ outcome = "returned" /\ size > 0 => Len(all) = texts

(* The first n texts, and no others, have been sent, each once. *)
SentUpTo(n) == \A j \in 1..MaxTexts : sent[j] = IF j <= n THEN 1 ELSE 0

(* A batch that is sent is not empty and no larger than batch_size; texts   *)
(* are sent in order and none twice, in calls that fail too; and a call     *)
(* that returns has sent them all, or none where batch_size is negative.    *)
EachTextSentOnce ==
  /\ pc = "posted" => Batch # {} /\ Cardinality(Batch) <= size
  /\ \E n \in 0..texts :
       /\ SentUpTo(n)
       /\ outcome = "returned" => n = IF size > 0 THEN texts ELSE 0

(* "A list of embedding vectors, one per input text, in input order.": a    *)
(* call returns fewer with a negative batch_size, and of a response with    *)
(* fewer items than texts.                                                  *)
OnePerText == outcome = "returned" => Len(all) = texts
=============================================================================
