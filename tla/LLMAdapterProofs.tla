--------------------------- MODULE LLMAdapterProofs ---------------------------
(***************************************************************************)
(* Proofs about the two operations of LLMAdapter.                          *)
(*                                                                         *)
(* stream(), module LLMStream, for a completion of any length: the tokens  *)
(* reach the consumer in order, once, and all of them if [DONE] was read.  *)
(* The invariant: the tokens on the wire come in order and after those     *)
(* yielded (OrderInv); a token that was sent is on the wire, yielded or    *)
(* damaged (AccountInv); and no token follows [DONE] (DoneInv).            *)
(*                                                                         *)
(* complete(), module LLMComplete, for any calls, any number of attempts   *)
(* and any pool.  The invariant: the log of a call that goes on is         *)
(* transient throughout (LoopInv), and an attempt that the provider ran,   *)
(* or may yet run, has not ended in a pool timeout: such an attempt was    *)
(* never sent (SentInv).                                                   *)
(***************************************************************************)
EXTENDS LLMStream, LLMComplete, SequenceTheorems, FiniteSetTheorems, TLAPS

-----------------------------------------------------------------------------
(* Sequences. *)

LEMMA AppendFacts ==
  ASSUME NEW S, NEW s \in Seq(S), NEW e \in S
  PROVE  /\ Append(s, e) \in Seq(S) /\ Len(Append(s, e)) = Len(s) + 1
         /\ \A i \in 1..Len(s) : Append(s, e)[i] = s[i]
         /\ Append(s, e)[Len(s) + 1] = e
         /\ \A i \in 1..(Len(s) + 1) : i \in 1..Len(s) \/ i = Len(s) + 1
         /\ Len(s) \in Nat
OBVIOUS

LEMMA TailFacts ==
  ASSUME NEW S, NEW s \in Seq(S), s # <<>>
  PROVE  /\ Tail(s) \in Seq(S) /\ Len(Tail(s)) = Len(s) - 1
         /\ \A i \in 1..Len(Tail(s)) : i + 1 \in 1..Len(s) /\ Tail(s)[i] = s[i + 1]
         /\ 1 \in 1..Len(s) /\ Head(s) = s[1] /\ s[1] \in S
         /\ Len(s) \in Nat
OBVIOUS

-----------------------------------------------------------------------------
(* The invariant. *)

Carries(line) == line.kind \in {"content"} \cup Damage

(* The wire takes one line more than MaxWire, the one that ends the body. *)
RoomInv == provider # "ended" => Len(wire) <= MaxWire

OrderInv ==
  /\ \A i \in 1..Len(wire) : Carries(wire[i]) => wire[i].token \in 1..sent
  /\ \A i, j \in 1..Len(wire) :
       i < j /\ Carries(wire[i]) /\ Carries(wire[j])
         => wire[i].token < wire[j].token
  /\ \A k \in 1..Len(yielded) :
       /\ yielded[k] \in 1..sent
       /\ \A i \in 1..Len(wire) : Carries(wire[i]) => yielded[k] < wire[i].token
       /\ \A l \in 1..Len(yielded) : k < l => yielded[k] < yielded[l]

AccountInv ==
  \A t \in 1..sent :
    \/ t \in damaged
    \/ \E k \in 1..Len(yielded) : yielded[k] = t
    \/ \E i \in 1..Len(wire) : wire[i].kind = "content" /\ wire[i].token = t

DoneInv ==
  /\ \A i \in 1..Len(wire) : wire[i].kind = "done" =>
       /\ sent = Tokens
       /\ \A j \in 1..Len(wire) : i < j => ~Carries(wire[j])
  /\ doneRead =>
       /\ sent = Tokens
       /\ \A i \in 1..Len(wire) : ~Carries(wire[i])

StreamInv == TypeOK /\ RoomInv /\ OrderInv /\ AccountInv /\ DoneInv

(* What a step does to the wire and to what was yielded. *)
SendsNothing(kind) ==  \* a line without a token
  /\ kind \in Noise \cup {"eof", "reset"}
  /\ kind = "done" => sent = Tokens
  /\ wire' = Append(wire, Line(kind, 0))
  /\ UNCHANGED <<sent, damaged, yielded, doneRead>>

Drops ==  \* a line is read and not yielded
  /\ Reading(Noise \cup Damage \cup {"eof"})
  /\ wire' = Tail(wire)
  /\ doneRead' = (doneRead \/ Head(wire).kind = "done")
  /\ UNCHANGED <<sent, noise, damaged, provider, yielded>>

Quiet == UNCHANGED <<wire, sent, noise, provider, damaged, yielded, doneRead>>

LEMMA Moves ==
  ASSUME TypeOK, Next
  PROVE  \/ SendToken \/ (\E kind \in Noise \cup {"eof", "reset"} : SendsNothing(kind))
         \/ Drops \/ Yield \/ Quiet
<1>1. ASSUME NEW kind \in Noise, SendNoise(kind)  PROVE SendsNothing(kind)
  BY <1>1 DEF SendNoise, SendsNothing
<1>2. ASSUME NEW kind \in {"eof", "reset"}, EndOfBody(kind)  PROVE SendsNothing(kind)
  BY <1>2 DEF EndOfBody, SendsNothing
<1>3. ASSUME Skip \/ EscapeMistyped \/ Return  PROVE Drops
  <2>1. CASE Skip
    BY <2>1 DEF Skip, Reading, Drops, Damage, providerVars
  <2>2. CASE EscapeMistyped
    <3>1. Head(wire).kind # "done" /\ doneRead \in BOOLEAN
      BY <2>2 DEF EscapeMistyped, Reading, TypeOK
    <3>. QED  BY <2>2, <3>1 DEF EscapeMistyped, Reading, Drops, Damage, providerVars
  <2>3. CASE Return
    <3>1. Head(wire).kind # "done" /\ doneRead \in BOOLEAN
      BY <2>3 DEF Return, Reading, TypeOK
    <3>. QED  BY <2>3, <3>1 DEF Return, Reading, Drops, providerVars
  <2>. QED  BY <1>3, <2>1, <2>2, <2>3
<1>4. ASSUME Open \/ Accepted \/ Refused \/ ReadFails \/ Cancel \/ Consumer \/ Finalize
      PROVE  Quiet
  BY <1>4 DEF Open, Accepted, Refused, ReadFails, Cancel, Consumer, Advance,
              Abandon, Finalize, Quiet, providerVars
<1>. QED  BY <1>1, <1>2, <1>3, <1>4 DEF Next, Provider, Generator

-----------------------------------------------------------------------------
(* Every step preserves the invariant. *)

(* The lines of the wire, after each kind of step. *)
LEMMA LineTypes ==
  /\ \A kind \in Noise \cup {"eof", "reset"} : Line(kind, 0) \in Lines
  /\ \A kind \in {"content"} \cup Damage, t \in 1..Tokens : Line(kind, t) \in Lines
BY StreamAssumption DEF Line, Lines

LEMMA SendingFacts ==
  ASSUME TypeOK, SendToken
  PROVE  \E kind \in {"content"} \cup Damage :
           /\ wire' = Append(wire, Line(kind, sent + 1))
           /\ Line(kind, sent + 1) \in Lines
           /\ IF kind = "content" THEN damaged' = damaged
                                  ELSE damaged' = damaged \cup {sent + 1}
           /\ sent' = sent + 1 /\ sent < Tokens /\ sent + 1 \in 1..Tokens
           /\ UNCHANGED <<gen, conn, noise, provider, yielded, doneRead>>
<1>1. /\ sent \in 0..Tokens /\ sent < Tokens /\ sent' = sent + 1
      /\ UNCHANGED <<gen, conn, noise, provider, yielded, doneRead>>
  BY DEF SendToken, TypeOK
<1>2. sent + 1 \in 1..Tokens
  BY <1>1, StreamAssumption
<1>3. \A kind \in {"content"} \cup Damage : Line(kind, sent + 1) \in Lines
  BY <1>2, LineTypes
<1>4. CASE wire' = Append(wire, Line("content", sent + 1)) /\ UNCHANGED damaged
  BY <1>1, <1>2, <1>3, <1>4
<1>5. CASE \E kind \in Damage : /\ wire' = Append(wire, Line(kind, sent + 1))
                                /\ damaged' = damaged \cup {sent + 1}
  <2>. PICK kind \in Damage : /\ wire' = Append(wire, Line(kind, sent + 1))
                              /\ damaged' = damaged \cup {sent + 1}
    BY <1>5
  <2>1. kind # "content"
    BY DEF Damage
  <2>. QED  BY <1>1, <1>2, <1>3, <2>1
<1>. QED  BY <1>4, <1>5 DEF SendToken

LEMMA TypeStep ==
  ASSUME TypeOK, RoomInv, OrderInv, Next
  PROVE  TypeOK' /\ RoomInv'
<1>1. /\ wire \in Seq(Lines) /\ Len(wire) \in Nat /\ MaxWire \in Nat
      /\ Len(wire) <= MaxWire + 1
  BY StreamAssumption DEF TypeOK
<1>2. ASSUME NEW line \in Lines, wire' = Append(wire, line)
      PROVE  wire' \in Seq(Lines) /\ Len(wire') = Len(wire) + 1
  BY <1>1, <1>2, AppendFacts
<1>3. ASSUME Reading({"content"} \cup Noise \cup Damage \cup {"eof"}),
             wire' = Tail(wire), provider' = provider
      PROVE  /\ wire' \in Seq(Lines) /\ Len(wire') <= MaxWire + 1
             /\ provider # "ended" => Len(wire') <= MaxWire
  <2>1. wire' \in Seq(Lines) /\ Len(wire') = Len(wire) - 1
    BY <1>1, <1>3, TailFacts DEF Reading
  <2>. QED  BY <1>1, <2>1, <1>3 DEF RoomInv
<1>4. CASE SendToken
  <2>. PICK kind \in {"content"} \cup Damage :
         /\ wire' = Append(wire, Line(kind, sent + 1))
         /\ Line(kind, sent + 1) \in Lines
         /\ IF kind = "content" THEN damaged' = damaged
                                ELSE damaged' = damaged \cup {sent + 1}
         /\ sent' = sent + 1 /\ sent < Tokens /\ sent + 1 \in 1..Tokens
         /\ UNCHANGED <<gen, conn, noise, provider, yielded, doneRead>>
    BY <1>4, SendingFacts
  <2>1. wire' \in Seq(Lines) /\ Len(wire') = Len(wire) + 1 /\ Len(wire) < MaxWire
    BY <1>2, <1>4 DEF SendToken, Sending
  <2>2. Len(wire') <= MaxWire /\ Len(wire') <= MaxWire + 1
    BY <1>1, <2>1
  <2>3. damaged' \subseteq 1..Tokens
    BY DEF TypeOK
  <2>4. sent' \in 0..Tokens
    BY StreamAssumption
  <2>. QED  BY <2>1, <2>2, <2>3, <2>4 DEF TypeOK, RoomInv
<1>5. ASSUME NEW kind \in Noise, SendNoise(kind)  PROVE TypeOK' /\ RoomInv'
  <2>1. wire' \in Seq(Lines) /\ Len(wire') = Len(wire) + 1 /\ Len(wire) < MaxWire
    BY <1>2, <1>5, LineTypes DEF SendNoise, Sending
  <2>2. Len(wire') <= MaxWire /\ Len(wire') <= MaxWire + 1
    BY <1>1, <2>1
  <2>3. noise' \in 0..MaxNoise
    BY <1>5, StreamAssumption DEF SendNoise, TypeOK
  <2>4. provider' \in {"sending", "failed", "ended"}
    BY <1>5 DEF SendNoise, TypeOK
  <2>. QED  BY <1>5, <2>1, <2>2, <2>3, <2>4 DEF SendNoise, TypeOK, RoomInv
<1>6. ASSUME NEW kind \in {"eof", "reset"}, EndOfBody(kind)  PROVE TypeOK' /\ RoomInv'
  <2>1. wire' \in Seq(Lines) /\ Len(wire') = Len(wire) + 1 /\ Len(wire) <= MaxWire
    BY <1>2, <1>6, LineTypes DEF EndOfBody, RoomInv
  <2>2. Len(wire') <= MaxWire + 1
    BY <1>1, <2>1
  <2>. QED  BY <1>6, <2>1, <2>2 DEF EndOfBody, TypeOK, RoomInv
<1>7. CASE Yield
  <2>1. /\ wire' \in Seq(Lines) /\ Len(wire') <= MaxWire + 1
        /\ provider # "ended" => Len(wire') <= MaxWire
    BY <1>3, <1>7 DEF Yield, Reading, providerVars
  <2>2. Head(wire).token \in 1..Tokens
    <3>1. Head(wire) = wire[1] /\ 1 \in 1..Len(wire) /\ Carries(wire[1])
      BY <1>1, <1>7, TailFacts DEF Yield, Reading, Carries
    <3>2. wire[1].token \in 1..sent /\ sent \in 0..Tokens
      BY <3>1 DEF OrderInv, TypeOK
    <3>. QED  BY <3>1, <3>2, StreamAssumption
  <2>3. yielded' \in Seq(1..Tokens)
    BY <1>7, <2>2 DEF Yield, TypeOK
  <2>. QED  BY <1>7, <2>1, <2>3 DEF Yield, TypeOK, RoomInv, providerVars
<1>8. CASE Skip
  <2>1. /\ wire' \in Seq(Lines) /\ Len(wire') <= MaxWire + 1
        /\ provider # "ended" => Len(wire') <= MaxWire
    BY <1>3, <1>8 DEF Skip, Reading, providerVars, Damage
  <2>. QED  BY <1>8, <2>1 DEF Skip, TypeOK, RoomInv, providerVars
<1>9. CASE EscapeMistyped
  <2>1. /\ wire' \in Seq(Lines) /\ Len(wire') <= MaxWire + 1
        /\ provider # "ended" => Len(wire') <= MaxWire
    BY <1>3, <1>9 DEF EscapeMistyped, Reading, providerVars, Damage
  <2>. QED  BY <1>9, <2>1 DEF EscapeMistyped, Finish, Ended, TypeOK, RoomInv, providerVars
<1>10. CASE Return
  <2>1. /\ wire' \in Seq(Lines) /\ Len(wire') <= MaxWire + 1
        /\ provider # "ended" => Len(wire') <= MaxWire
    BY <1>3, <1>10 DEF Return, Reading, providerVars
  <2>. QED  BY <1>10, <2>1 DEF Return, Finish, Ended, TypeOK, RoomInv, providerVars
<1>11. CASE Open \/ Accepted \/ Refused \/ ReadFails \/ Cancel \/ Consumer \/ Finalize
  BY <1>11 DEF Open, Accepted, Refused, ReadFails, Cancel, Consumer, Advance,
               Abandon, Finalize, Finish, Ended, TypeOK, RoomInv, providerVars
<1>. QED
  BY <1>4, <1>5, <1>6, <1>7, <1>8, <1>9, <1>10, <1>11 DEF Next, Provider, Generator

(* Indices of the wire, after a line is added or taken. *)
LEMMA Added ==
  ASSUME TypeOK, NEW line \in Lines, wire' = Append(wire, line)
  PROVE  /\ Len(wire) \in Nat /\ Len(wire') = Len(wire) + 1
         /\ \A i \in 1..Len(wire) : i \in 1..Len(wire') /\ wire'[i] = wire[i]
         /\ wire'[Len(wire) + 1] = line
         /\ \A i \in 1..Len(wire') : i \in 1..Len(wire) \/ i = Len(wire) + 1
<1>1. wire \in Seq(Lines)
  BY DEF TypeOK
<1>. QED  BY <1>1, AppendFacts

LEMMA Taken ==
  ASSUME TypeOK, wire # <<>>, wire' = Tail(wire)
  PROVE  /\ Len(wire) \in Nat /\ 1 \in 1..Len(wire) /\ Head(wire) = wire[1]
         /\ \A i \in 1..Len(wire') : i + 1 \in 1..Len(wire) /\ wire'[i] = wire[i + 1]
         /\ \A i \in 1..Len(wire) : i # 1 => i - 1 \in 1..Len(wire') /\ wire'[i - 1] = wire[i]
<1>1. wire \in Seq(Lines)
  BY DEF TypeOK
<1>2. /\ Len(wire) \in Nat /\ 1 \in 1..Len(wire) /\ Head(wire) = wire[1]
      /\ \A i \in 1..Len(wire') : i + 1 \in 1..Len(wire) /\ wire'[i] = wire[i + 1]
      /\ Len(wire') = Len(wire) - 1
  BY <1>1, TailFacts
<1>3. \A i \in 1..Len(wire) : i # 1 => i - 1 \in 1..Len(wire') /\ wire'[i - 1] = wire[i]
  <2>. SUFFICES ASSUME NEW i \in 1..Len(wire), i # 1
                PROVE  i - 1 \in 1..Len(wire') /\ wire'[i - 1] = wire[i]
    OBVIOUS
  <2>1. i - 1 \in 1..Len(wire') /\ (i - 1) + 1 = i
    BY <1>2
  <2>. QED  BY <1>2, <2>1
<1>. QED  BY <1>2, <1>3

LEMMA OrderStep ==
  ASSUME TypeOK, OrderInv, Next
  PROVE  OrderInv'
<1>1. sent \in Nat
  BY StreamAssumption DEF TypeOK
<1>2. CASE SendToken
  <2>. PICK kind \in {"content"} \cup Damage :
         /\ wire' = Append(wire, Line(kind, sent + 1))
         /\ Line(kind, sent + 1) \in Lines
         /\ IF kind = "content" THEN damaged' = damaged
                                ELSE damaged' = damaged \cup {sent + 1}
         /\ sent' = sent + 1 /\ sent < Tokens /\ sent + 1 \in 1..Tokens
         /\ UNCHANGED <<gen, conn, noise, provider, yielded, doneRead>>
    BY <1>2, SendingFacts
  <2>. DEFINE line == Line(kind, sent + 1)
  <2>1. /\ Len(wire) \in Nat /\ Len(wire') = Len(wire) + 1
        /\ \A i \in 1..Len(wire) : i \in 1..Len(wire') /\ wire'[i] = wire[i]
        /\ wire'[Len(wire) + 1] = line
        /\ \A i \in 1..Len(wire') : i \in 1..Len(wire) \/ i = Len(wire) + 1
    BY Added
  <2>2. line.token = sent + 1
    BY DEF Line
  <2>. HIDE DEF line
  <2>3. \A i \in 1..Len(wire') : Carries(wire'[i]) => wire'[i].token \in 1..sent'
    BY <1>1, <2>1, <2>2 DEF OrderInv
  <2>4. \A i, j \in 1..Len(wire') :
          i < j /\ Carries(wire'[i]) /\ Carries(wire'[j])
            => wire'[i].token < wire'[j].token
    BY <1>1, <2>1, <2>2 DEF OrderInv
  <2>5. \A k \in 1..Len(yielded) :
          /\ yielded[k] \in 1..sent'
          /\ \A i \in 1..Len(wire') : Carries(wire'[i]) => yielded[k] < wire'[i].token
    BY <1>1, <2>1, <2>2 DEF OrderInv
  <2>. QED  BY <2>3, <2>4, <2>5 DEF OrderInv
<1>3. CASE \E kind \in Noise \cup {"eof", "reset"} : SendsNothing(kind)
  <2>. PICK kind \in Noise \cup {"eof", "reset"} : SendsNothing(kind)
    BY <1>3
  <2>. DEFINE line == Line(kind, 0)
  <2>1. wire' = Append(wire, line) /\ sent' = sent /\ yielded' = yielded
    BY DEF SendsNothing
  <2>2. /\ Len(wire) \in Nat /\ Len(wire') = Len(wire) + 1
        /\ \A i \in 1..Len(wire) : i \in 1..Len(wire') /\ wire'[i] = wire[i]
        /\ wire'[Len(wire) + 1] = line
        /\ \A i \in 1..Len(wire') : i \in 1..Len(wire) \/ i = Len(wire) + 1
    BY <2>1, Added, LineTypes
  <2>3. ~Carries(line)
    BY DEF Line, Carries, Noise, Damage
  <2>. HIDE DEF line
  <2>. QED  BY <2>1, <2>2, <2>3 DEF OrderInv
<1>4. CASE Drops
  <2>1. wire # <<>> /\ wire' = Tail(wire) /\ sent' = sent /\ yielded' = yielded
    BY <1>4 DEF Drops, Reading
  <2>2. \A i \in 1..Len(wire') : i + 1 \in 1..Len(wire) /\ wire'[i] = wire[i + 1]
    BY <2>1, Taken
  <2>. QED  BY <2>1, <2>2 DEF OrderInv
<1>5. CASE Yield
  <2>1. /\ wire # <<>> /\ wire' = Tail(wire) /\ sent' = sent
        /\ yielded' = Append(yielded, Head(wire).token) /\ Head(wire).kind = "content"
    BY <1>5 DEF Yield, Reading, providerVars
  <2>2. /\ Len(wire) \in Nat /\ 1 \in 1..Len(wire) /\ Head(wire) = wire[1]
        /\ \A i \in 1..Len(wire') : i + 1 \in 1..Len(wire) /\ wire'[i] = wire[i + 1]
    BY <2>1, Taken
  <2>. DEFINE u == wire[1].token
  <2>3. Carries(wire[1]) /\ u \in 1..sent
    BY <2>1, <2>2 DEF Carries, OrderInv
  <2>4. u \in 1..Tokens
    BY <2>3, StreamAssumption DEF TypeOK
  <2>5. /\ Len(yielded') = Len(yielded) + 1 /\ Len(yielded) \in Nat
        /\ \A k \in 1..Len(yielded) : yielded'[k] = yielded[k]
        /\ yielded'[Len(yielded) + 1] = u
        /\ \A k \in 1..Len(yielded') : k \in 1..Len(yielded) \/ k = Len(yielded) + 1
    <3>1. yielded \in Seq(1..Tokens) /\ yielded' = Append(yielded, u)
      BY <2>1, <2>2 DEF TypeOK
    <3>. HIDE DEF u
    <3>. QED  BY <2>4, <3>1, AppendFacts
  <2>6. /\ \A i \in 1..Len(wire') : Carries(wire'[i]) => u < wire'[i].token
        /\ \A k \in 1..Len(yielded) : yielded[k] < u
    <3>1. \A i \in 1..Len(wire') : Carries(wire'[i]) => u < wire'[i].token
      <4>. SUFFICES ASSUME NEW i \in 1..Len(wire'), Carries(wire'[i])
                    PROVE  u < wire'[i].token
        OBVIOUS
      <4>1. i + 1 \in 1..Len(wire) /\ wire'[i] = wire[i + 1] /\ 1 < i + 1
        BY <2>2
      <4>. QED  BY <2>2, <2>3, <4>1 DEF OrderInv
    <3>2. \A k \in 1..Len(yielded) : yielded[k] < u
      BY <2>2, <2>3 DEF OrderInv
    <3>. QED  BY <3>1, <3>2
  <2>7. /\ \A i \in 1..Len(wire') : Carries(wire'[i]) => wire'[i].token \in 1..sent'
        /\ \A i, j \in 1..Len(wire') :
             i < j /\ Carries(wire'[i]) /\ Carries(wire'[j])
               => wire'[i].token < wire'[j].token
    BY <2>1, <2>2 DEF OrderInv
  <2>8. \A k \in 1..Len(yielded) :
          /\ yielded[k] \in 1..sent
          /\ \A i \in 1..Len(wire') : Carries(wire'[i]) => yielded[k] < wire'[i].token
          /\ \A l \in 1..Len(yielded) : k < l => yielded[k] < yielded[l]
    BY <2>2 DEF OrderInv
  <2>. HIDE DEF u
  <2>9. \A k \in 1..Len(yielded') :
          /\ yielded'[k] \in 1..sent'
          /\ \A i \in 1..Len(wire') : Carries(wire'[i]) => yielded'[k] < wire'[i].token
    BY <2>1, <2>3, <2>5, <2>6, <2>8
  <2>10. \A k, l \in 1..Len(yielded') : k < l => yielded'[k] < yielded'[l]
    BY <2>5, <2>6, <2>8
  <2>. QED  BY <2>7, <2>9, <2>10 DEF OrderInv
<1>6. CASE Quiet
  BY <1>6 DEF Quiet, OrderInv
<1>. QED
  BY <1>2, <1>3, <1>4, <1>5, <1>6, Moves

LEMMA AccountStep ==
  ASSUME TypeOK, AccountInv, Next
  PROVE  AccountInv'
<1>1. sent \in Nat
  BY StreamAssumption DEF TypeOK
<1>2. CASE SendToken
  <2>. PICK kind \in {"content"} \cup Damage :
         /\ wire' = Append(wire, Line(kind, sent + 1))
         /\ Line(kind, sent + 1) \in Lines
         /\ IF kind = "content" THEN damaged' = damaged
                                ELSE damaged' = damaged \cup {sent + 1}
         /\ sent' = sent + 1 /\ sent < Tokens /\ sent + 1 \in 1..Tokens
         /\ UNCHANGED <<gen, conn, noise, provider, yielded, doneRead>>
    BY <1>2, SendingFacts
  <2>. DEFINE line == Line(kind, sent + 1)
  <2>1. /\ Len(wire) \in Nat /\ Len(wire') = Len(wire) + 1
        /\ \A i \in 1..Len(wire) : i \in 1..Len(wire') /\ wire'[i] = wire[i]
        /\ wire'[Len(wire) + 1] = line
    BY Added
  <2>2. line.token = sent + 1 /\ line.kind = kind
    BY DEF Line
  <2>. HIDE DEF line
  <2>3. damaged \subseteq damaged' /\ (kind # "content" => sent + 1 \in damaged')
    OBVIOUS
  <2>4. Len(wire) + 1 \in 1..Len(wire')
    BY <2>1
  <2>5. \A t \in 1..sent' : t \in 1..sent \/ t = sent + 1
    BY <1>1
  <2>6. \A t \in 1..sent :
          \/ t \in damaged'
          \/ \E k \in 1..Len(yielded') : yielded'[k] = t
          \/ \E i \in 1..Len(wire') : wire'[i].kind = "content" /\ wire'[i].token = t
    BY <2>1, <2>3 DEF AccountInv
  <2>7. \/ sent + 1 \in damaged'
        \/ \E i \in 1..Len(wire') :
             wire'[i].kind = "content" /\ wire'[i].token = sent + 1
    BY <2>1, <2>2, <2>3, <2>4
  <2>. QED  BY <2>5, <2>6, <2>7 DEF AccountInv
<1>3. CASE \E kind \in Noise \cup {"eof", "reset"} : SendsNothing(kind)
  <2>. PICK kind \in Noise \cup {"eof", "reset"} : SendsNothing(kind)
    BY <1>3
  <2>1. /\ wire' = Append(wire, Line(kind, 0))
        /\ sent' = sent /\ yielded' = yielded /\ damaged' = damaged
    BY DEF SendsNothing
  <2>2. \A i \in 1..Len(wire) : i \in 1..Len(wire') /\ wire'[i] = wire[i]
    BY <2>1, Added, LineTypes
  <2>. QED  BY <2>1, <2>2 DEF AccountInv
<1>4. CASE Drops
  <2>1. /\ wire # <<>> /\ wire' = Tail(wire) /\ Head(wire).kind # "content"
        /\ sent' = sent /\ yielded' = yielded /\ damaged' = damaged
    BY <1>4 DEF Drops, Reading, Noise, Damage
  <2>2. /\ Head(wire) = wire[1]
        /\ \A i \in 1..Len(wire) :
             i # 1 => i - 1 \in 1..Len(wire') /\ wire'[i - 1] = wire[i]
    BY <2>1, Taken
  <2>. QED  BY <2>1, <2>2 DEF AccountInv
<1>5. CASE Yield
  <2>1. /\ wire # <<>> /\ wire' = Tail(wire) /\ sent' = sent /\ damaged' = damaged
        /\ yielded' = Append(yielded, Head(wire).token)
    BY <1>5 DEF Yield, Reading, providerVars
  <2>2. /\ Head(wire) = wire[1]
        /\ \A i \in 1..Len(wire) :
             i # 1 => i - 1 \in 1..Len(wire') /\ wire'[i - 1] = wire[i]
    BY <2>1, Taken
  <2>3. /\ \A k \in 1..Len(yielded) : k \in 1..Len(yielded') /\ yielded'[k] = yielded[k]
        /\ Len(yielded) + 1 \in 1..Len(yielded')
        /\ yielded'[Len(yielded) + 1] = wire[1].token
    <3>. DEFINE u == wire[1].token
    <3>1. yielded \in Seq(1..Tokens) /\ yielded' = Append(yielded, u)
      BY <2>1, <2>2 DEF TypeOK
    <3>. HIDE DEF u
    <3>2. /\ \A k \in 1..Len(yielded) : k \in 1..Len(yielded') /\ yielded'[k] = yielded[k]
          /\ Len(yielded) + 1 \in 1..Len(yielded')
          /\ yielded'[Len(yielded) + 1] = u
      BY <3>1
    <3>. QED  BY <3>2 DEF u
  <2>4. \A t \in 1..sent' :
          \/ t \in damaged'
          \/ \E k \in 1..Len(yielded') : yielded'[k] = t
          \/ \E i \in 1..Len(wire') : wire'[i].kind = "content" /\ wire'[i].token = t
    <3>. SUFFICES ASSUME NEW t \in 1..sent, t \notin damaged
                  PROVE  \/ \E k \in 1..Len(yielded') : yielded'[k] = t
                         \/ \E i \in 1..Len(wire') :
                              wire'[i].kind = "content" /\ wire'[i].token = t
      BY <2>1
    <3>1. CASE \E k \in 1..Len(yielded) : yielded[k] = t
      BY <2>3, <3>1
    <3>2. CASE \E i \in 1..Len(wire) : wire[i].kind = "content" /\ wire[i].token = t
      <4>. PICK i \in 1..Len(wire) : wire[i].kind = "content" /\ wire[i].token = t
        BY <3>2
      <4>1. CASE i = 1
        BY <2>3, <4>1
      <4>2. CASE i # 1
        BY <2>2, <4>2
      <4>. QED  BY <4>1, <4>2
    <3>. QED  BY <3>1, <3>2 DEF AccountInv
  <2>. QED  BY <2>4 DEF AccountInv
<1>6. CASE Quiet
  BY <1>6 DEF Quiet, AccountInv
<1>. QED
  BY <1>2, <1>3, <1>4, <1>5, <1>6, Moves

LEMMA DoneStep ==
  ASSUME TypeOK, DoneInv, Next
  PROVE  DoneInv'
<1>1. CASE SendToken
  <2>. PICK kind \in {"content"} \cup Damage :
         /\ wire' = Append(wire, Line(kind, sent + 1))
         /\ Line(kind, sent + 1) \in Lines
         /\ IF kind = "content" THEN damaged' = damaged
                                ELSE damaged' = damaged \cup {sent + 1}
         /\ sent' = sent + 1 /\ sent < Tokens /\ sent + 1 \in 1..Tokens
         /\ UNCHANGED <<gen, conn, noise, provider, yielded, doneRead>>
    BY <1>1, SendingFacts
  <2>. DEFINE line == Line(kind, sent + 1)
  <2>1. /\ \A i \in 1..Len(wire) : i \in 1..Len(wire') /\ wire'[i] = wire[i]
        /\ wire'[Len(wire) + 1] = line
        /\ \A i \in 1..Len(wire') : i \in 1..Len(wire) \/ i = Len(wire) + 1
    BY Added
  <2>2. sent # Tokens /\ line.kind # "done"
    BY StreamAssumption DEF TypeOK, Line, Damage
  <2>. HIDE DEF line
  <2>3. \A i \in 1..Len(wire') : wire'[i].kind # "done"
    BY <2>1, <2>2 DEF DoneInv
  <2>. QED  BY <2>2, <2>3 DEF DoneInv
<1>2. CASE \E kind \in Noise \cup {"eof", "reset"} : SendsNothing(kind)
  <2>. PICK kind \in Noise \cup {"eof", "reset"} : SendsNothing(kind)
    BY <1>2
  <2>. DEFINE line == Line(kind, 0)
  <2>1. /\ wire' = Append(wire, line) /\ sent' = sent /\ doneRead' = doneRead
        /\ kind = "done" => sent = Tokens
    BY DEF SendsNothing
  <2>2. /\ Len(wire) \in Nat /\ Len(wire') = Len(wire) + 1
        /\ \A i \in 1..Len(wire) : i \in 1..Len(wire') /\ wire'[i] = wire[i]
        /\ wire'[Len(wire) + 1] = line
        /\ \A i \in 1..Len(wire') : i \in 1..Len(wire) \/ i = Len(wire) + 1
    BY <2>1, Added, LineTypes
  <2>3. ~Carries(line) /\ line.kind = kind
    BY DEF Line, Carries, Noise, Damage
  <2>. HIDE DEF line
  <2>4. \A i \in 1..Len(wire') : wire'[i].kind = "done" => sent' = Tokens
    BY <2>1, <2>2, <2>3 DEF DoneInv
  <2>5. \A i, j \in 1..Len(wire') :
          wire'[i].kind = "done" /\ i < j => ~Carries(wire'[j])
    BY <2>2, <2>3 DEF DoneInv
  <2>6. doneRead' => sent' = Tokens /\ \A i \in 1..Len(wire') : ~Carries(wire'[i])
    BY <2>1, <2>2, <2>3 DEF DoneInv
  <2>. QED  BY <2>4, <2>5, <2>6 DEF DoneInv
<1>3. CASE Drops \/ Yield
  <2>1. /\ wire # <<>> /\ wire' = Tail(wire) /\ sent' = sent
        /\ doneRead' => doneRead \/ Head(wire).kind = "done"
    <3>1. wire # <<>> /\ wire' = Tail(wire) /\ sent' = sent
      BY <1>3 DEF Drops, Yield, Reading, providerVars
    <3>2. ASSUME Drops  PROVE doneRead' => doneRead \/ Head(wire).kind = "done"
      <4>1. doneRead' = (doneRead \/ Head(wire).kind = "done")
        BY <3>2 DEF Drops
      <4>. QED  BY <4>1
    <3>3. ASSUME Yield  PROVE doneRead' => doneRead
      <4>1. doneRead' = doneRead
        BY <3>3 DEF Yield
      <4>. QED  BY <4>1
    <3>. QED  BY <1>3, <3>1, <3>2, <3>3
  <2>2. /\ Len(wire) \in Nat /\ 1 \in 1..Len(wire) /\ Head(wire) = wire[1]
        /\ \A i \in 1..Len(wire') : i + 1 \in 1..Len(wire) /\ wire'[i] = wire[i + 1]
    BY <2>1, Taken
  <2>3. \A i \in 1..Len(wire') : wire'[i].kind = "done" =>
          sent' = Tokens /\ \A j \in 1..Len(wire') : i < j => ~Carries(wire'[j])
    BY <2>1, <2>2 DEF DoneInv
  <2>4. ASSUME doneRead'
        PROVE  sent' = Tokens /\ \A i \in 1..Len(wire') : ~Carries(wire'[i])
    <3>1. CASE doneRead
      BY <2>1, <2>2, <3>1 DEF DoneInv
    <3>2. CASE wire[1].kind = "done"
      <4>1. \A i \in 1..Len(wire') : i + 1 \in 1..Len(wire) /\ 1 < i + 1
        BY <2>2
      <4>. QED  BY <2>1, <2>2, <3>2, <4>1 DEF DoneInv
    <3>. QED  BY <2>1, <2>2, <2>4, <3>1, <3>2
  <2>. QED  BY <2>3, <2>4 DEF DoneInv
<1>4. CASE Quiet
  BY <1>4 DEF Quiet, DoneInv
<1>. QED
  BY <1>1, <1>2, <1>3, <1>4, Moves

LEMMA StreamInvariance == Spec => []StreamInv
<1>1. Init => StreamInv
  <2>. SUFFICES ASSUME Init  PROVE StreamInv
    OBVIOUS
  <2>1. wire = <<>> /\ yielded = <<>> /\ sent = 0 /\ doneRead = FALSE
    BY DEF Init
  <2>2. wire \in Seq(Lines) /\ yielded \in Seq(1..Tokens) /\ Len(wire) = 0 /\ Len(yielded) = 0
    BY <2>1
  <2>3. TypeOK
    <3>1. 0 \in 0..Tokens /\ 0 \in 0..MaxNoise /\ 0 <= MaxWire + 1
      BY StreamAssumption
    <3>2. Len(wire) <= MaxWire + 1
      BY <2>2, <3>1
    <3>. QED  BY <2>2, <3>1, <3>2 DEF Init, TypeOK
  <2>4. RoomInv /\ OrderInv /\ AccountInv /\ DoneInv
    BY <2>1, <2>2, StreamAssumption DEF RoomInv, OrderInv, AccountInv, DoneInv
  <2>. QED  BY <2>3, <2>4 DEF StreamInv
<1>2. StreamInv /\ [Next]_vars => StreamInv'
  <2>. SUFFICES ASSUME StreamInv, [Next]_vars  PROVE StreamInv'
    OBVIOUS
  <2>1. CASE UNCHANGED vars
    BY <2>1 DEF StreamInv, vars, providerVars, TypeOK, RoomInv, OrderInv, AccountInv, DoneInv
  <2>2. CASE Next
    BY <2>2, TypeStep, OrderStep, AccountStep, DoneStep DEF StreamInv
  <2>. QED  BY <2>1, <2>2
<1>. QED  BY <1>1, <1>2, PTL DEF Spec

-----------------------------------------------------------------------------
(* Theorems. *)

(* Type correctness of the generator, its wire and its consumer. *)
THEOREM StreamTypeCorrect == Spec => []TypeOK
<1>1. StreamInv => TypeOK
  BY DEF StreamInv
<1>. QED  BY <1>1, StreamInvariance, PTL

(* The consumer of a stream of any length sees the tokens in order, none    *)
(* twice; only damaged chunks are passed over.                              *)
THEOREM TokensComeInOrder == Spec => []TokensInOrder
<1>1. StreamInv => TokensInOrder
  <2>. SUFFICES ASSUME StreamInv, NEW i \in 1..Len(yielded),
                       NEW before, before = IF i = 1 THEN 0 ELSE yielded[i - 1]
                PROVE  /\ before < yielded[i]
                       /\ \A t \in (before + 1)..(yielded[i] - 1) : t \in damaged
    BY DEF TokensInOrder
  <2>1. sent \in Nat /\ Len(yielded) \in Nat
    BY StreamAssumption DEF StreamInv, TypeOK
  <2>2. \A k \in 1..Len(yielded) : yielded[k] \in 1..sent
    BY DEF StreamInv, OrderInv
  <2>3. \A k, l \in 1..Len(yielded) : k < l => yielded[k] < yielded[l]
    BY DEF StreamInv, OrderInv
  <2>4. i # 1 => i - 1 \in 1..Len(yielded) /\ i - 1 < i
    BY <2>1
  <2>5. before \in Nat /\ before < yielded[i] /\ yielded[i] \in 1..sent
    BY <2>1, <2>2, <2>3, <2>4
  <2>6. ASSUME NEW t \in (before + 1)..(yielded[i] - 1)  PROVE t \in damaged
    <3>1. t \in 1..sent /\ before < t /\ t < yielded[i]
      BY <2>1, <2>5
    <3>2. ASSUME NEW k \in 1..Len(yielded), yielded[k] = t  PROVE FALSE
      <4>1. k < i
        BY <2>1, <2>2, <2>3, <3>1, <3>2
      <4>2. k = i - 1 \/ k < i - 1
        BY <4>1
      <4>3. i # 1 /\ before = yielded[i - 1] /\ i - 1 \in 1..Len(yielded)
        BY <2>4, <4>1
      <4>4. yielded[k] <= before
        BY <2>2, <2>3, <4>2, <4>3
      <4>. QED  BY <2>1, <2>5, <3>1, <3>2, <4>4
    <3>3. ASSUME NEW j \in 1..Len(wire), wire[j].kind = "content", wire[j].token = t
          PROVE  FALSE
      <4>1. yielded[i] < wire[j].token
        BY <3>3 DEF StreamInv, OrderInv, Carries
      <4>. QED  BY <2>1, <2>5, <3>1, <3>3, <4>1
    <3>. QED  BY <3>1, <3>2, <3>3 DEF StreamInv, AccountInv
  <2>. QED  BY <2>5, <2>6
<1>. QED  BY <1>1, StreamInvariance, PTL

(* A consumer whose stream returned after [DONE] has every token that was   *)
(* not damaged.                                                             *)
THEOREM DoneLosesNothing == Spec => []DoneIsComplete
<1>1. StreamInv => DoneIsComplete
  <2>. SUFFICES ASSUME StreamInv, doneRead, NEW t \in 1..Tokens
                PROVE  t \in damaged \/ \E k \in 1..Len(yielded) : yielded[k] = t
    BY DEF DoneIsComplete
  <2>1. sent = Tokens /\ \A i \in 1..Len(wire) : ~Carries(wire[i])
    BY DEF StreamInv, DoneInv
  <2>. QED  BY <2>1 DEF StreamInv, AccountInv, Carries
<1>. QED  BY <1>1, StreamInvariance, PTL
-----------------------------------------------------------------------------
(* The other operation of the adapter, complete(), for any calls, any       *)
(* number of attempts and any pool.                                         *)

InDoubt == {"timeout", "request"}

(* What the log and the outcome of call k say, given how far it has come. *)
LoopInv(k) ==
  /\ pc[k] # "done" =>
       /\ outcome[k] = "none"
       /\ \A i \in 1..Len(log[k]) : log[k][i] \in Transient
  /\ pc[k] \in {"sent", "ran"} => Len(log[k]) < MaxRetries
  /\ Len(log[k]) <= MaxRetries
  /\ \A i \in 1..Len(log[k]) : i < Len(log[k]) => log[k][i] \in Transient

(* The attempts of call k that have reached the provider, or may reach it. *)
SentInv(k) ==
  /\ \A a \in late[k] : a <= Len(log[k])
  /\ \A a \in ran[k] : a <= Len(log[k]) \/ (pc[k] = "ran" /\ a = attempt(k))
  /\ \A a \in late[k] \cup ran[k] :
       a <= Len(log[k]) =>
         log[k][a] \in InDoubt \/ (a = Len(log[k]) /\ pc[k] = "done")

CompleteInv == CompleteTypeOK /\ \A k \in Calls : LoopInv(k) /\ SentInv(k)

-----------------------------------------------------------------------------

(* The invariant holds before the first call. *)
LEMMA CompleteInvInit == CompleteInit => CompleteInv
BY CompleteAssumption
DEF CompleteInit, CompleteInv, CompleteTypeOK, LoopInv, SentInv, Transient, Responses, Attempts, attempt

Endings == Transient \cup Responses \cup {"cancelled"}

(* The types as the arithmetic of the later proofs needs them. *)
LEMMA LogTypes ==
  ASSUME CompleteTypeOK, NEW k \in Calls
  PROVE  /\ log[k] \in Seq(Endings) /\ Len(log[k]) \in Nat
         /\ late[k] \subseteq Nat /\ ran[k] \subseteq Nat
<1>1. log[k] \in Seq(Endings)
  BY DEF CompleteTypeOK, Endings
<1>2. late[k] \subseteq Attempts /\ ran[k] \subseteq Attempts
  BY DEF CompleteTypeOK
<1>3. Attempts \subseteq Nat
  BY CompleteAssumption DEF Attempts
<1>4. Len(log[k]) \in Nat
  BY <1>1, LenProperties
<1>5. late[k] \subseteq Nat /\ ran[k] \subseteq Nat
  BY <1>2, <1>3
<1>. QED  BY <1>1, <1>4, <1>5

(* An attempt ends: the log grows by its ending, and the entries before it  *)
(* stay what they are.                                                      *)
LEMMA LogGrows ==
  ASSUME CompleteTypeOK, NEW k \in Calls, NEW ending \in Endings,
         log' = [log EXCEPT ![k] = Append(@, ending)]
  PROVE  /\ log' \in [Calls -> Seq(Endings)]
         /\ Len(log'[k]) = Len(log[k]) + 1
         /\ \A i \in 1..(Len(log[k]) + 1) :
              log'[k][i] = IF i <= Len(log[k]) THEN log[k][i] ELSE ending
         /\ \A j \in Calls : j # k => log'[j] = log[j]
<1>1. log \in [Calls -> Seq(Endings)]
  BY DEF CompleteTypeOK, Endings
<1>2. log'[k] = Append(log[k], ending) /\ log'[k] \in Seq(Endings)
  BY <1>1, AppendProperties
<1>3. \A j \in Calls : j # k => log'[j] = log[j]
  BY <1>1
<1>4. log' \in [Calls -> Seq(Endings)]
  BY <1>1, <1>2
<1>5. /\ Len(log'[k]) = Len(log[k]) + 1
      /\ \A i \in 1..Len(log[k]) : log'[k][i] = log[k][i]
      /\ log'[k][Len(log[k]) + 1] = ending
  BY <1>1, <1>2, AppendProperties
<1>6. \A i \in 1..(Len(log[k]) + 1) :
        log'[k][i] = IF i <= Len(log[k]) THEN log[k][i] ELSE ending
  BY <1>5, LogTypes
<1>. QED  BY <1>3, <1>4, <1>5, <1>6

(* A call's step leaves the others alone. *)
LEMMA OnlyOneMoves ==
  ASSUME NEW k \in Calls, CompleteInv, CompleteTypeOK', LoopInv(k)', SentInv(k)',
         \A j \in Calls : j # k =>
           /\ pc'[j] = pc[j] /\ log'[j] = log[j] /\ late'[j] = late[j]
           /\ ran'[j] = ran[j] /\ outcome'[j] = outcome[j]
  PROVE  CompleteInv'
<1>1. ASSUME NEW j \in Calls, j # k
      PROVE  LoopInv(j)' /\ SentInv(j)'
  <2>1. LoopInv(j) /\ SentInv(j)
    BY DEF CompleteInv
  <2>2. LoopInv(j)'
    BY <1>1, <2>1 DEF LoopInv
  <2>3. SentInv(j)'
    BY <1>1, <2>1 DEF SentInv, attempt
  <2>. QED  BY <2>2, <2>3
<1>. QED  BY <1>1 DEF CompleteInv

(* A step of call k that ends no attempt. *)
LEMMA StepKeepsLog ==
  ASSUME NEW k \in Calls, CompleteInv, UNCHANGED streaming,
         \/ Begin(k) \/ Send(k) \/ ProviderRuns(k) \/ Exhausted(k)
         \/ \E a \in Attempts : ProviderRunsLate(k, a)
  PROVE  CompleteInv'
<1>. USE CompleteAssumption
<1>1. CompleteTypeOK /\ LoopInv(k) /\ SentInv(k) /\ log' = log
  BY DEF CompleteInv, Begin, Send, ProviderRuns, Exhausted, ProviderRunsLate
<1>2. /\ Len(log[k]) \in Nat /\ late[k] \subseteq Nat /\ ran[k] \subseteq Nat
  BY <1>1, LogTypes
<1>3. More(k) <=> Len(log[k]) < MaxRetries
  BY <1>2 DEF More, attempt
<1>4. \A j \in Calls : j # k =>
        /\ pc'[j] = pc[j] /\ log'[j] = log[j] /\ late'[j] = late[j]
        /\ ran'[j] = ran[j] /\ outcome'[j] = outcome[j]
  BY <1>1
  DEF CompleteTypeOK, Begin, Send, ProviderRuns, Exhausted, ProviderRunsLate
<1>5. CASE Begin(k) \/ Send(k)
  <2>1. CompleteTypeOK'
    BY <1>1, <1>5 DEF CompleteTypeOK, Begin, Send
  <2>2. LoopInv(k)'
    BY <1>1, <1>2, <1>3, <1>5 DEF CompleteTypeOK, Begin, Send, LoopInv
  <2>3. SentInv(k)'
    BY <1>1, <1>5 DEF CompleteTypeOK, Begin, Send, SentInv
  <2>. QED  BY <1>4, <2>1, <2>2, <2>3, OnlyOneMoves
<1>6. CASE ProviderRuns(k)
  <2>1. attempt(k) = Len(log[k]) + 1 /\ attempt(k) \in Attempts
    BY <1>1, <1>2, <1>6 DEF ProviderRuns, LoopInv, attempt, Attempts
  <2>2. CompleteTypeOK'
    BY <1>1, <1>6, <2>1 DEF CompleteTypeOK, ProviderRuns
  <2>3. LoopInv(k)'
    BY <1>1, <1>6 DEF CompleteTypeOK, ProviderRuns, LoopInv
  <2>4. attempt(k)' = attempt(k) /\ ran'[k] = ran[k] \cup {attempt(k)}
        /\ pc'[k] = "ran" /\ late' = late /\ pc[k] = "sent"
    BY <1>1, <1>6 DEF CompleteTypeOK, ProviderRuns, attempt
  <2>5. SentInv(k)'
    BY <1>1, <1>2, <2>1, <2>4 DEF SentInv
  <2>. QED  BY <1>4, <2>2, <2>3, <2>5, OnlyOneMoves
<1>7. ASSUME NEW a \in Attempts, ProviderRunsLate(k, a)
      PROVE  CompleteInv'
  <2>1. CompleteTypeOK'
    BY <1>1, <1>7 DEF CompleteTypeOK, ProviderRunsLate
  <2>2. LoopInv(k)'
    BY <1>1, <1>7 DEF CompleteTypeOK, ProviderRunsLate, LoopInv
  <2>3. /\ a \in late[k] /\ late'[k] \subseteq late[k]
        /\ ran'[k] = ran[k] \cup {a} /\ pc' = pc
    BY <1>1, <1>7 DEF CompleteTypeOK, ProviderRunsLate
  <2>4. a <= Len(log[k])
    BY <1>1, <2>3 DEF SentInv
  <2>5. attempt(k)' = attempt(k) /\ pc'[k] = pc[k] /\ log'[k] = log[k]
    BY <1>1, <2>3 DEF attempt
  <2>6. SentInv(k)'
    <3>1. \A b \in late'[k] : b <= Len(log[k])
      BY <1>1, <2>3 DEF SentInv
    <3>2. \A b \in ran'[k] : b <= Len(log[k]) \/ (pc[k] = "ran" /\ b = attempt(k))
      BY <1>1, <2>3, <2>4 DEF SentInv
    <3>3. \A b \in late'[k] \cup ran'[k] : b \in late[k] \cup ran[k]
      BY <2>3
    <3>4. \A b \in late'[k] \cup ran'[k] :
            b <= Len(log[k]) =>
              log[k][b] \in InDoubt \/ (b = Len(log[k]) /\ pc[k] = "done")
      BY <1>1, <3>3 DEF SentInv
    <3>. QED  BY <2>5, <3>1, <3>2, <3>4 DEF SentInv
  <2>. QED  BY <1>4, <2>1, <2>2, <2>6, OnlyOneMoves
<1>8. CASE Exhausted(k)
  <2>1. CompleteTypeOK'
    BY <1>1, <1>8 DEF CompleteTypeOK, Exhausted
  <2>2. LoopInv(k)'
    <3>1. pc'[k] = "done"
      BY <1>1, <1>8 DEF CompleteTypeOK, Exhausted
    <3>. QED  BY <1>1, <1>2, <3>1 DEF LoopInv
  <2>3. SentInv(k)'
    BY <1>1, <1>8 DEF CompleteTypeOK, Exhausted, SentInv
  <2>. QED  BY <1>4, <2>1, <2>2, <2>3, OnlyOneMoves
<1>. QED  BY <1>5, <1>6, <1>7, <1>8

(* An attempt of call k ends, and perhaps its request is still under way. *)
Ends(k, ending) ==
  /\ More(k) /\ pc[k] \in {"loop", "sent", "ran"}
  /\ log' = [log EXCEPT ![k] = Append(@, ending)]
  /\ late' \in {late, [late EXCEPT ![k] = @ \cup {attempt(k)}]}
  /\ UNCHANGED <<ran, streaming>>
  /\ \/ /\ ending \in Transient
        /\ ending = "pool" => pc[k] = "loop" /\ UNCHANGED late
        /\ pc' = [pc EXCEPT ![k] = "loop"]
        /\ UNCHANGED outcome
     \/ /\ pc' = [pc EXCEPT ![k] = "done"]
        /\ \E given \in {"text", "the string None", "LLMError",
                         "other exception", "cancelled"} :
             outcome' = [outcome EXCEPT ![k] = given]

(* The end of an attempt, whichever way, keeps the invariant. *)
LEMMA EndKeepsInv ==
  ASSUME NEW k \in Calls, CompleteInv, NEW ending \in Endings, Ends(k, ending)
  PROVE  CompleteInv'
<1>. USE CompleteAssumption
<1>. DEFINE n == Len(log[k])
<1>1. CompleteTypeOK /\ LoopInv(k) /\ SentInv(k)
  BY DEF CompleteInv
<1>2. n \in Nat /\ late[k] \subseteq Nat /\ ran[k] \subseteq Nat
  BY <1>1, LogTypes
<1>3. n < MaxRetries /\ attempt(k) = n + 1
  <2>1. attempt(k) = n + 1 /\ attempt(k) <= MaxRetries
    BY DEF Ends, More, attempt
  <2>. QED  BY <1>2, <2>1
<1>4. /\ log' \in [Calls -> Seq(Endings)]
      /\ Len(log'[k]) = n + 1
      /\ \A i \in 1..(n + 1) : log'[k][i] = IF i <= n THEN log[k][i] ELSE ending
      /\ \A j \in Calls : j # k => log'[j] = log[j]
  BY <1>1, LogGrows DEF Ends
<1>5. CompleteTypeOK'
  <2>1. attempt(k) \in Attempts
    BY <1>2, <1>3 DEF Attempts
  <2>2. late' \in [Calls -> SUBSET Attempts] /\ ran' \in [Calls -> SUBSET Attempts]
    <3>1. CASE late' = late
      BY <1>1, <3>1 DEF CompleteTypeOK, Ends
    <3>2. CASE late' = [late EXCEPT ![k] = @ \cup {attempt(k)}]
      BY <1>1, <2>1, <3>2 DEF CompleteTypeOK, Ends
    <3>. QED  BY <3>1, <3>2 DEF Ends
  <2>3. /\ pc' \in [Calls -> {"idle", "loop", "sent", "ran", "done"}]
        /\ outcome' \in [Calls -> {"none", "text", "the string None", "LLMError",
                                   "other exception", "exhausted", "cancelled"}]
    BY <1>1 DEF CompleteTypeOK, Ends
  <2>4. streaming' \in 0..Pool
    BY <1>1 DEF CompleteTypeOK, Ends
  <2>. QED  BY <1>4, <2>2, <2>3, <2>4 DEF CompleteTypeOK, Endings
<1>6. \A i \in 1..n : log[k][i] \in Transient
  BY <1>1 DEF LoopInv, Ends
<1>7. pc'[k] \in {"loop", "done"}
  BY <1>1 DEF CompleteTypeOK, Ends, LoopInv
<1>8. pc'[k] = "loop" => ending \in Transient /\ outcome'[k] = "none"
  BY <1>1 DEF CompleteTypeOK, Ends, LoopInv
<1>. HIDE DEF n
<1>9. LoopInv(k)'
  BY <1>2, <1>3, <1>4, <1>6, <1>7, <1>8 DEF LoopInv, n
<1>10. SentInv(k)'
  <2>1. ASSUME NEW a \in late[k] \cup ran[k]
        PROVE  (a \in 1..n /\ log[k][a] \in InDoubt) \/ (a = n + 1 /\ pc[k] = "ran")
    <3>1. a \in Nat /\ a >= 1
      <4>1. late[k] \subseteq Attempts /\ ran[k] \subseteq Attempts
        BY <1>1 DEF CompleteTypeOK
      <4>2. a \in Attempts
        BY <4>1
      <4>. QED  BY <4>2 DEF Attempts
    <3>2. pc[k] # "done"
      BY DEF Ends
    <3>3. a <= n \/ (pc[k] = "ran" /\ a = n + 1)
      <4>1. CASE a \in late[k]
        BY <1>1, <4>1 DEF SentInv, n
      <4>2. CASE a \in ran[k]
        BY <1>1, <1>3, <4>2 DEF SentInv, n
      <4>. QED  BY <4>1, <4>2
    <3>4. a <= n => log[k][a] \in InDoubt
      BY <1>1, <3>2 DEF SentInv, n
    <3>. QED  BY <1>2, <3>1, <3>3, <3>4
  <2>2. late'[k] \cup ran'[k] \subseteq late[k] \cup ran[k] \cup {n + 1}
    <3>1. late'[k] \subseteq late[k] \cup {n + 1}
      <4>1. CASE late' = late
        BY <4>1
      <4>2. CASE late' = [late EXCEPT ![k] = @ \cup {attempt(k)}]
        BY <1>1, <1>3, <4>2 DEF CompleteTypeOK
      <4>. QED  BY <4>1, <4>2 DEF Ends
    <3>. QED  BY <3>1 DEF Ends
  <2>3. n + 1 \in late'[k] \cup ran'[k] => ending \in InDoubt \/ pc'[k] = "done"
    <3>1. CASE ending = "pool" /\ pc'[k] = "loop"
      <4>1. pc[k] = "loop" /\ late' = late /\ ran' = ran
        BY <1>1, <3>1 DEF CompleteTypeOK, Ends
      <4>2. n + 1 \notin 1..n
        BY <1>2
      <4>. QED  BY <2>1, <4>1, <4>2
    <3>2. CASE ending # "pool" /\ pc'[k] = "loop"
      BY <1>8, <3>2 DEF Transient, InDoubt
    <3>. QED  BY <1>7, <3>1, <3>2
  <2>4. ASSUME NEW a \in late'[k] \cup ran'[k]
        PROVE  /\ a \in 1..(n + 1)
               /\ log'[k][a] \in InDoubt \/ (a = n + 1 /\ pc'[k] = "done")
    <3>1. (a \in 1..n /\ log[k][a] \in InDoubt) \/ a = n + 1
      BY <2>1, <2>2
    <3>2. CASE a \in 1..n /\ log[k][a] \in InDoubt
      <4>1. a \in 1..(n + 1) /\ a <= n
        BY <1>2, <3>2
      <4>. QED  BY <1>4, <3>2, <4>1
    <3>3. CASE a = n + 1
      <4>1. a \in 1..(n + 1) /\ ~(a <= n)
        BY <1>2, <3>3
      <4>. QED  BY <1>4, <2>3, <3>3, <4>1
    <3>. QED  BY <3>1, <3>2, <3>3
  <2>5. Len(log'[k]) = n + 1
    BY <1>4
  <2>6. \A a \in late'[k] \cup ran'[k] : a <= n + 1
    BY <1>2, <2>4
  <2>. QED  BY <2>4, <2>5, <2>6 DEF SentInv
<1>11. \A j \in Calls : j # k =>
        /\ pc'[j] = pc[j] /\ log'[j] = log[j] /\ late'[j] = late[j]
        /\ ran'[j] = ran[j] /\ outcome'[j] = outcome[j]
  BY <1>1, <1>4 DEF CompleteTypeOK, Ends
<1>. QED  BY <1>5, <1>9, <1>10, <1>11, OnlyOneMoves

(* An attempt under way is one the loop allows. *)
LEMMA InFlightHasMore ==
  ASSUME NEW k \in Calls, CompleteInv, pc[k] \in {"sent", "ran"}
  PROVE  More(k)
<1>1. CompleteTypeOK /\ Len(log[k]) < MaxRetries
  BY DEF CompleteInv, LoopInv
<1>2. Len(log[k]) \in Nat
  BY <1>1, LogTypes
<1>. QED  BY <1>1, <1>2, CompleteAssumption DEF More, attempt

(* A step of one call keeps the invariant. *)
LEMMA CallStep ==
  ASSUME CompleteInv, NEW k \in Calls, UNCHANGED streaming,
         Begin(k) \/ Complete(k) \/ CancelCall(k) \/ Served(k)
  PROVE  CompleteInv'
<1>1. CASE PoolTimeout(k)
  <2>1. Ends(k, "pool") /\ "pool" \in Endings
    BY <1>1 DEF PoolTimeout, Retry, Ends, Endings, Transient
  <2>. QED  BY <2>1, EndKeepsInv
<1>2. ASSUME NEW ending \in InDoubt, SendFails(k, ending) \/ ReplyLost(k, ending)
      PROVE  CompleteInv'
  <2>1. More(k)
    BY <1>2, InFlightHasMore DEF SendFails, ReplyLost
  <2>2. Ends(k, ending) /\ ending \in Endings
    BY <1>2, <2>1
    DEF SendFails, ReplyLost, GivesUp, Retry, Ends, InDoubt, Endings, Transient
  <2>. QED  BY <2>2, EndKeepsInv
<1>3. CASE ReturnResponse(k)
  <2>1. More(k)
    BY <1>3, InFlightHasMore
    DEF ReturnResponse, ReturnText, ReturnNull, EscapeMalformed, ApiError
  <2>2. \E ending \in Responses : Ends(k, ending)
    BY <1>3, <2>1
    DEF ReturnResponse, ReturnText, ReturnNull, EscapeMalformed, ApiError,
        GivesUp, Leave, Ends, Responses
  <2>. QED  BY <2>2, EndKeepsInv DEF Endings
<1>4. CASE CancelCall(k)
  <2>1. More(k)
    BY <1>4, InFlightHasMore DEF CancelCall
  <2>2. Ends(k, "cancelled") /\ "cancelled" \in Endings
    BY <1>4, <2>1 DEF CancelCall, GivesUp, Leave, Ends, Endings
  <2>. QED  BY <2>2, EndKeepsInv
<1>5. CASE \/ Begin(k) \/ Send(k) \/ ProviderRuns(k) \/ Exhausted(k)
           \/ \E a \in Attempts : ProviderRunsLate(k, a)
  BY <1>5, StepKeepsLog
<1>. QED
  BY <1>1, <1>2, <1>3, <1>4, <1>5 DEF Complete, Fail, InDoubt, Served

(* Every step keeps the invariant. *)
LEMMA CompleteInvStep == CompleteInv /\ [CompleteNext]_completeVars => CompleteInv'
<1>. SUFFICES ASSUME CompleteInv, [CompleteNext]_completeVars
              PROVE  CompleteInv'
  OBVIOUS
<1>1. ASSUME UNCHANGED <<pc, log, late, ran, outcome>>, streaming' \in 0..Pool
      PROVE  CompleteInv'
  BY <1>1 DEF CompleteInv, CompleteTypeOK, LoopInv, SentInv, attempt
<1>2. streaming \in 0..Pool
  BY DEF CompleteInv, CompleteTypeOK
<1>3. CASE StreamTakes
  <2>1. Cardinality(InFlight) \in Nat
    BY CompleteAssumption, FS_Subset, FS_CardinalityType DEF InFlight
  <2>2. streaming' \in 0..Pool
    BY <1>2, <1>3, <2>1, CompleteAssumption DEF StreamTakes, Occupied
  <2>. QED  BY <1>1, <1>3, <2>2 DEF StreamTakes
<1>4. CASE StreamReturns
  <2>1. streaming' \in 0..Pool
    BY <1>2, <1>4, CompleteAssumption DEF StreamReturns
  <2>. QED  BY <1>1, <1>4, <2>1 DEF StreamReturns
<1>5. CASE UNCHANGED completeVars
  BY <1>1, <1>2, <1>5 DEF completeVars
<1>. QED  BY <1>3, <1>4, <1>5, CallStep DEF CompleteNext

(* The inductive invariant of complete() and the provider holds for ever. *)
THEOREM CompleteInvariant == CompleteSpec => []CompleteInv
BY CompleteInvInit, CompleteInvStep, PTL DEF CompleteSpec

-----------------------------------------------------------------------------
(* The results. *)

(* The values of the variables are of their types in every reachable state. *)
THEOREM CompleteTypeCorrect == CompleteSpec => []CompleteTypeOK
BY CompleteInvariant, PTL DEF CompleteInv

(* A response of any kind ends the call: only transient errors are retried. *)
THEOREM ResponsesEndTheCall == CompleteSpec => []ResponsesNotRetried
<1>1. ASSUME CompleteInv, NEW k \in Calls, NEW i \in 1..Len(log[k]), log[k][i] \notin Transient
      PROVE  i = Len(log[k]) /\ pc[k] = "done"
  <2>1. CompleteTypeOK /\ LoopInv(k)
    BY <1>1 DEF CompleteInv
  <2>2. Len(log[k]) \in Nat
    BY <2>1, LogTypes
  <2>. QED  BY <1>1, <2>1, <2>2 DEF LoopInv
<1>2. CompleteInv => ResponsesNotRetried
  BY <1>1 DEF ResponsesNotRetried
<1>. QED  BY <1>2, CompleteInvariant, PTL

(* The provider runs a completion twice only when an earlier attempt was    *)
(* left in doubt, and is asked MaxRetries times at most.                    *)
THEOREM DuplicatesComeOfDoubt == CompleteSpec => []DuplicatesInDoubt
<1>1. ASSUME CompleteInv, NEW k \in Calls
      PROVE  /\ Len(log[k]) <= MaxRetries
             /\ \A a, b \in ran[k] : a < b => log[k][a] \in {"timeout", "request"}
  <2>1. CompleteTypeOK /\ LoopInv(k) /\ SentInv(k)
    BY <1>1 DEF CompleteInv
  <2>2. Len(log[k]) \in Nat /\ ran[k] \subseteq Nat
    BY <2>1, LogTypes
  <2>3. ASSUME NEW a \in ran[k], NEW b \in ran[k], a < b
        PROVE  log[k][a] \in InDoubt
    <3>1. b <= Len(log[k]) + 1 /\ (b <= Len(log[k]) \/ pc[k] = "ran")
      BY <2>1, <2>2 DEF SentInv, attempt
    <3>2. a \in Nat /\ b \in Nat
      BY <2>2
    <3>3. a < Len(log[k]) \/ (a = Len(log[k]) /\ pc[k] = "ran")
      BY <2>2, <2>3, <3>1, <3>2
    <3>. QED  BY <2>1, <2>2, <3>2, <3>3 DEF SentInv
  <2>. QED  BY <2>1, <2>3 DEF LoopInv, InDoubt
<1>2. CompleteInv => DuplicatesInDoubt
  BY <1>1 DEF DuplicatesInDoubt
<1>. QED  BY <1>2, CompleteInvariant, PTL
=============================================================================
