----------------------------- MODULE NamingProofs -----------------------------
(***************************************************************************)
(* Proof that the names of Naming keep tenants and repositories apart, for *)
(* any ids without separators and any parts whatever, and lists of parts   *)
(* of one length apart, if no part but the last contains the separator.    *)
(*                                                                         *)
(* All three builders put an id in front of nothing or of a character that *)
(* no id contains; then the name determines the id (FirstSeparator).  What *)
(* follows plays no role.  Then what follows is the same in both names, and *)
(* its first separator ends the first part: by induction on their number   *)
(* (JoinInjective), the parts are the same.                                *)
(***************************************************************************)
EXTENDS Naming, SequenceTheorems, WellFoundedInduction, TLAPS

-----------------------------------------------------------------------------
(* Sequences. *)

(* A sequence without the character c. *)
Free(s, c) == \A i \in 1..Len(s) : s[i] # c

(* A sequence that is empty or begins with c. *)
Headed(s, c) == Len(s) > 0 => s[1] = c

(* What comes first, if it is free of c and followed by nothing or by c,    *)
(* cannot be shorter in one of two equal sequences than in the other.       *)
LEMMA NotShorter ==
  ASSUME NEW C, NEW c, NEW a \in Seq(C), NEW b \in Seq(C),
         NEW x \in Seq(C), NEW y \in Seq(C),
         Free(b, c), Headed(x, c), a \o x = b \o y
  PROVE  Len(a) >= Len(b)
<1>. SUFFICES ASSUME Len(a) < Len(b)  PROVE FALSE
  OBVIOUS
<1>. DEFINE k == Len(a) + 1
<1>1. Len(a \o x) = Len(a) + Len(x) /\ Len(b \o y) = Len(b) + Len(y)
  OBVIOUS
<1>2. Len(x) > 0
  BY <1>1
<1>3. (a \o x)[k] = x[1]
  BY <1>1, <1>2
<1>4. (b \o y)[k] = b[k]
  BY <1>1
<1>5. b[k] = c
  BY <1>2, <1>3, <1>4 DEF Headed
<1>6. k \in 1..Len(b)
  OBVIOUS
<1>. QED  BY <1>5, <1>6 DEF Free

(* ... nor if it is followed by something whose second character is c, and  *)
(* not the first one.                                                       *)
LEMMA NotShorterBySecond ==
  ASSUME NEW C, NEW c, NEW a \in Seq(C), NEW b \in Seq(C),
         NEW x \in Seq(C), NEW y \in Seq(C),
         Free(b, c), Len(x) > 1, x[2] = c, Len(y) > 0, y[1] # c, a \o x = b \o y
  PROVE  Len(a) >= Len(b)
<1>. SUFFICES ASSUME Len(a) < Len(b)  PROVE FALSE
  OBVIOUS
<1>. DEFINE k == Len(a) + 2
<1>1. Len(a \o x) = Len(a) + Len(x) /\ Len(b \o y) = Len(b) + Len(y)
  OBVIOUS
<1>2. (a \o x)[k] = c
  <2>1. Len(a) \in Nat /\ Len(x) \in Nat
    OBVIOUS
  <2>2. k \in 1..(Len(a) + Len(x)) /\ ~(k <= Len(a)) /\ k - Len(a) = 2
    BY <2>1
  <2>. HIDE DEF k
  <2>3. (a \o x)[k] = x[k - Len(a)]
    BY <2>2, ConcatProperties
  <2>. QED  BY <2>2, <2>3
<1>3. CASE k <= Len(b)
  <2>1. (b \o y)[k] = b[k] /\ k \in 1..Len(b)
    BY <1>1, <1>3
  <2>. QED  BY <1>2, <2>1 DEF Free
<1>4. CASE k = Len(b) + 1
  <2>1. (b \o y)[k] = y[1]
    BY <1>1, <1>4
  <2>. QED  BY <1>2, <2>1
<1>5. k <= Len(b) + 1
  OBVIOUS
<1>6. k <= Len(b) \/ k = Len(b) + 1
  BY <1>5
<1>. QED  BY <1>3, <1>4, <1>6

LEMMA SameLengthSame ==
  ASSUME NEW C, NEW a \in Seq(C), NEW b \in Seq(C),
         NEW x \in Seq(C), NEW y \in Seq(C),
         a \o x = b \o y, Len(a) = Len(b)
  PROVE  a = b /\ x = y
<1>1. \A i \in 1..Len(a) : a[i] = b[i]
  <2>. SUFFICES ASSUME NEW i \in 1..Len(a)  PROVE a[i] = b[i]
    OBVIOUS
  <2>1. (a \o x)[i] = a[i] /\ (b \o y)[i] = b[i]
    OBVIOUS
  <2>. QED  BY <2>1
<1>2. a = b
  BY <1>1, SeqEqual
<1>3. Len(x) = Len(y)
  <2>1. Len(a \o x) = Len(a) + Len(x) /\ Len(b \o y) = Len(b) + Len(y)
    BY ConcatProperties
  <2>2. Len(a) \in Nat /\ Len(x) \in Nat /\ Len(y) \in Nat
    OBVIOUS
  <2>. QED  BY <2>1, <2>2
<1>4. \A i \in 1..Len(x) : x[i] = y[i]
  <2>. SUFFICES ASSUME NEW i \in 1..Len(x)  PROVE x[i] = y[i]
    OBVIOUS
  <2>1. (a \o x)[Len(a) + i] = x[i] /\ (b \o y)[Len(b) + i] = y[i]
    BY <1>3
  <2>. QED  BY <2>1
<1>5. x = y
  BY <1>3, <1>4, SeqEqual
<1>. QED  BY <1>2, <1>5

LEMMA FirstSeparator ==
  ASSUME NEW C, NEW c, NEW a \in Seq(C), NEW b \in Seq(C),
         NEW x \in Seq(C), NEW y \in Seq(C),
         Free(a, c), Free(b, c), Headed(x, c), Headed(y, c),
         a \o x = b \o y
  PROVE  a = b /\ x = y
<1>1. Len(a) >= Len(b)
  BY NotShorter
<1>2. b \o y = a \o x
  OBVIOUS
<1>3. Len(b) >= Len(a)
  BY <1>2, NotShorter
<1>4. Len(a) = Len(b)
  BY <1>1, <1>3
<1>. QED  BY <1>4, SameLengthSame

(* Concatenation, in the form the steps below instantiate. *)
LEMMA Closed == \A C : \A s, t \in Seq(C) : s \o t \in Seq(C)
BY ConcatProperties

LEMMA FrontOfConcat ==
  ASSUME NEW C, NEW s \in Seq(C), NEW t \in Seq(C), NEW i \in 1..Len(s)
  PROVE  Len(s \o t) >= Len(s) /\ (s \o t)[i] = s[i]
<1>1. Len(t) \in Nat /\ Len(s) \in Nat
  OBVIOUS
<1>2. i \in 1..(Len(s) + Len(t)) /\ i <= Len(s)
  BY <1>1
<1>. QED  BY <1>1, <1>2, ConcatProperties

LEMMA LengthFromDomain ==
  ASSUME NEW C, NEW s \in Seq(C), NEW n \in Nat, DOMAIN s = 1..n
  PROVE  Len(s) = n
<1>1. Len(s) \in Nat /\ DOMAIN s = 1..Len(s)
  BY LenProperties
<1>. QED  BY <1>1

(* The first two characters of what begins with a six-letter string.       *)
LEMMA FirstTwo ==
  ASSUME NEW C, NEW m \in Seq(C), NEW s \in Seq(C), Len(m) = 6
  PROVE  /\ Len(m \o s) > 0 /\ Len(m \o s) > 1
         /\ (m \o s)[1] = m[1] /\ (m \o s)[2] = m[2]
<1>1. 1 \in 1..Len(m) /\ 2 \in 1..Len(m)
  OBVIOUS
<1>2. Len(m \o s) >= Len(m) /\ (m \o s)[1] = m[1] /\ (m \o s)[2] = m[2]
  <2>1. \A i \in 1..Len(m) : Len(m \o s) >= Len(m) /\ (m \o s)[i] = m[i]
    BY FrontOfConcat, Zenon
  <2>. QED  BY <1>1, <2>1, Zenon
<1>3. m \o s \in Seq(C)
  BY Closed, Zenon
<1>4. Len(m \o s) \in Nat
  BY <1>3, LenProperties, Zenon
<1>. DEFINE n == Len(m \o s)
<1>5. n >= 6 /\ n \in Nat
  BY <1>2, <1>4
<1>. HIDE DEF n
<1>6. n > 0 /\ n > 1
  BY <1>5
<1>7. Len(m \o s) > 0 /\ Len(m \o s) > 1
  BY <1>6 DEF n
<1>. QED  BY <1>2, <1>7, Zenon

(* What begins with "_r" does not begin with "r". *)
LEMMA FrontOfRepo ==
  ASSUME NEW C, NEW m \in Seq(C), NEW s \in Seq(C),
         Len(m) = 6, m[1] = "_", m[2] = "r"
  PROVE  /\ Len(m \o s) > 0 /\ Len(m \o s) > 1
         /\ (m \o s)[1] # "r" /\ (m \o s)[2] = "r"
<1>1. /\ Len(m \o s) > 0 /\ Len(m \o s) > 1
      /\ (m \o s)[1] = m[1] /\ (m \o s)[2] = m[2]
  BY FirstTwo, Zenon
<1>2. m[1] # "r" /\ m[2] = "r"
  OBVIOUS
<1>. QED  BY <1>1, <1>2, Zenon

LEMMA SamePrefix ==
  \A C : \A s, t, u \in Seq(C) : s \o t = s \o u => t = u
BY ConcatSimplifications

-----------------------------------------------------------------------------
(* Ids and suffixes. *)

LEMMA Letters ==
  /\ ":" \in Chars /\ "/" \in Chars /\ "_" \in Chars /\ "t" \in Chars
  /\ "e" \in Chars /\ "n" \in Chars /\ "a" \in Chars /\ "r" \in Chars
  /\ "p" \in Chars /\ "o" \in Chars
BY NamingAssumption

(* The constant pieces of the names are strings. *)
LEMMA Pieces ==
  /\ <<"t", "e", "n", "a", "n", "t", ":">> \in Seq(Chars)
  /\ <<"t", "e", "n", "a", "n", "t", "_">> \in Seq(Chars)
  /\ <<"_", "r", "e", "p", "o", "_">> \in Seq(Chars)
  /\ <<"/">> \in Seq(Chars)
<1>1. \A a \in Chars : <<a>> \in Seq(Chars)
  OBVIOUS
<1>2. \A a, b, c, d, e, f \in Chars : <<a, b, c, d, e, f>> \in Seq(Chars)
  OBVIOUS
<1>3. \A a, b, c, d, e, f, g \in Chars : <<a, b, c, d, e, f, g>> \in Seq(Chars)
  OBVIOUS
<1>. QED  BY <1>1, <1>2, <1>3, Letters, Zenon

LEMMA IdsAreStrings ==
  ASSUME NEW id \in Ids
  PROVE  /\ id \in Seq(Chars)
         /\ Free(id, ":") /\ Free(id, "/") /\ Free(id, "_") /\ Free(id, "r")
<1>1. id \in Seq(IdChars)
  BY NamingAssumption
<1>2. \A i \in 1..Len(id) : id[i] \in IdChars
  BY <1>1, ElementOfSeq
<1>3. IdChars \subseteq Chars
  BY NamingAssumption
<1>4. id \in Seq(Chars)
  BY <1>1, <1>3, SeqMonotonic
<1>5. \A c \in IdChars : c \notin {":", "/", "_", "r"}
  BY NamingAssumption
<1>. QED  BY <1>2, <1>4, <1>5 DEF Free

LEMMA SafeIsString ==
  ASSUME NEW id \in Ids
  PROVE  /\ Safe(id) \in Seq(Chars) /\ Len(Safe(id)) = Len(id)
         /\ \A i \in 1..Len(id) :
              Safe(id)[i] = IF id[i] = "-" THEN "_" ELSE id[i]
         /\ Free(Safe(id), "r")
<1>1. id \in Seq(Chars) /\ Free(id, "r")
  BY IdsAreStrings
<1>2. /\ DOMAIN id = 1..Len(id) /\ Len(id) \in Nat
      /\ \A i \in 1..Len(id) : id[i] \in Chars
  BY <1>1
<1>3. /\ Len(Safe(id)) = Len(id)
      /\ \A i \in 1..Len(id) : Safe(id)[i] = IF id[i] = "-" THEN "_" ELSE id[i]
      /\ Safe(id) \in Seq(Chars)
  <2>1. "_" \in Chars
    BY NamingAssumption
  <2>2. Safe(id) = [i \in 1..Len(id) |-> IF id[i] = "-" THEN "_" ELSE id[i]]
    BY <1>2 DEF Safe
  <2>3. Safe(id) \in [1..Len(id) -> Chars]
    BY <1>2, <2>1, <2>2
  <2>4. Safe(id) \in Seq(Chars)
    BY <1>2, <2>3, SeqDef
  <2>5. Len(Safe(id)) = Len(id)
    <3>1. DOMAIN Safe(id) = 1..Len(id)
      BY <2>2
    <3>. QED  BY <1>2, <2>4, <3>1, LengthFromDomain, Zenon
  <2>6. \A i \in 1..Len(id) : Safe(id)[i] = IF id[i] = "-" THEN "_" ELSE id[i]
    BY <2>2
  <2>. QED  BY <2>4, <2>5, <2>6
<1>. QED  BY <1>1, <1>3 DEF Free

(* Replacing hyphens makes no two ids equal. *)
LEMMA SafeInjective ==
  ASSUME NEW v \in Ids, NEW w \in Ids, Safe(v) = Safe(w)
  PROVE  v = w
<1>1. Len(v) = Len(w)
  BY SafeIsString
<1>2. \A i \in 1..Len(v) : v[i] = w[i]
  <2>. SUFFICES ASSUME NEW i \in 1..Len(v)  PROVE v[i] = w[i]
    OBVIOUS
  <2>1. v[i] # "_" /\ w[i] # "_"
    BY <1>1, IdsAreStrings DEF Free
  <2>2. /\ Safe(v)[i] = IF v[i] = "-" THEN "_" ELSE v[i]
        /\ Safe(w)[i] = IF w[i] = "-" THEN "_" ELSE w[i]
    BY <1>1, SafeIsString
  <2>. QED  BY <2>1, <2>2
<1>. QED  BY <1>1, <1>2, IdsAreStrings, SeqEqual

LEMMA SuffixHeaded ==
  ASSUME NEW parts \in PartLists, NEW sep \in {":", "/"}
  PROVE  Suffix(parts, sep) \in Seq(Chars) /\ Headed(Suffix(parts, sep), sep)
<1>1. CASE parts = <<>>
  <2>1. Suffix(parts, sep) = <<>>
    BY <1>1 DEF Suffix
  <2>. QED  BY <2>1 DEF Headed
<1>2. CASE parts # <<>>
  <2>. DEFINE j == Join(parts, <<sep>>)
  <2>1. j \in Seq(Chars) /\ sep \in Chars
    BY NamingAssumption
  <2>2. Suffix(parts, sep) = <<sep>> \o j
    BY <1>2 DEF Suffix
  <2>. HIDE DEF j
  <2>3. <<sep>> \in Seq(Chars) /\ Len(<<sep>>) = 1
    BY <2>1
  <2>4. <<sep>> \o j \in Seq(Chars) /\ (<<sep>> \o j)[1] = sep
    BY <2>1, <2>3
  <2>. QED  BY <2>2, <2>4 DEF Headed
<1>. QED  BY <1>1, <1>2

-----------------------------------------------------------------------------
(* A name determines the ids it was built from. *)

LEMMA RedisApart ==
  ASSUME NEW v \in Ids, NEW w \in Ids, NEW m \in PartLists, NEW n \in PartLists,
         tenant_key(v, m) = tenant_key(w, n)
  PROVE  v = w
<1>. DEFINE p == <<"t", "e", "n", "a", "n", "t", ":">>
            x == Suffix(m, ":")
            y == Suffix(n, ":")
<1>1. p \in Seq(Chars)
  BY Pieces, Zenon
<1>2. p \o (v \o x) = p \o (w \o y)
  BY DEF tenant_key
<1>3. /\ v \in Seq(Chars) /\ w \in Seq(Chars) /\ Free(v, ":") /\ Free(w, ":")
      /\ x \in Seq(Chars) /\ y \in Seq(Chars) /\ Headed(x, ":") /\ Headed(y, ":")
  BY IdsAreStrings, SuffixHeaded
<1>. HIDE DEF p, x, y
<1>4. v \o x \in Seq(Chars) /\ w \o y \in Seq(Chars)
  BY <1>3, Closed, Zenon
<1>5. v \o x = w \o y
  BY <1>1, <1>2, <1>4, SamePrefix, Zenon
<1>. QED  BY <1>3, <1>5, FirstSeparator, Zenon

LEMMA QdrantApart ==
  ASSUME NEW v \in Ids, NEW w \in Ids, NEW q \in Ids, NEW r \in Ids,
         collection_name(v, q) = collection_name(w, r)
  PROVE  v = w /\ q = r
<1>. DEFINE p == <<"t", "e", "n", "a", "n", "t", "_">>
            m == <<"_", "r", "e", "p", "o", "_">>
            sq == Safe(q)
            sr == Safe(r)
            sv == Safe(v)
            sw == Safe(w)
            x == m \o sq
            y == m \o sr
<1>1. p \in Seq(Chars) /\ m \in Seq(Chars)
  BY Pieces, Zenon
<1>2. /\ sv \in Seq(Chars) /\ sw \in Seq(Chars)
      /\ sq \in Seq(Chars) /\ sr \in Seq(Chars)
      /\ Free(sv, "r") /\ Free(sw, "r")
  BY SafeIsString
<1>3. Len(m) = 6
  OBVIOUS
<1>4. m[1] = "_" /\ m[2] = "r"
  OBVIOUS
<1>5. p \o (sv \o x) = p \o (sw \o y)
  BY DEF collection_name
<1>6. (sv = sw => v = w) /\ (sq = sr => q = r)
  BY SafeInjective
<1>. HIDE DEF p, m, sq, sr, sv, sw
<1>7. /\ Len(x) > 0 /\ Len(x) > 1 /\ x[1] # "r" /\ x[2] = "r"
      /\ Len(y) > 0 /\ Len(y) > 1 /\ y[1] # "r" /\ y[2] = "r"
  BY <1>1, <1>2, <1>3, <1>4, FrontOfRepo, Zenon
<1>8. x \in Seq(Chars) /\ y \in Seq(Chars)
  BY <1>1, <1>2, Closed, Zenon
<1>9. m \o sq = m \o sr => sq = sr
  BY <1>1, <1>2, SamePrefix, Zenon
<1>10. x = y => sq = sr
  BY <1>9
<1>. HIDE DEF x, y
<1>11. sv \o x \in Seq(Chars) /\ sw \o y \in Seq(Chars)
  BY <1>2, <1>8, Closed, Zenon
<1>12. sv \o x = sw \o y
  BY <1>1, <1>5, <1>11, SamePrefix, Zenon
<1>13. Len(sv) >= Len(sw) /\ Len(sw) >= Len(sv)
  <2>1. Len(sv) >= Len(sw)
    BY <1>2, <1>7, <1>8, <1>12, NotShorterBySecond, Zenon
  <2>2. sw \o y = sv \o x
    BY <1>12
  <2>3. Len(sw) >= Len(sv)
    BY <1>2, <1>7, <1>8, <2>2, NotShorterBySecond, Zenon
  <2>. QED  BY <2>1, <2>3
<1>14. Len(sv) = Len(sw)
  <2>1. Len(sv) \in Nat /\ Len(sw) \in Nat
    BY <1>2
  <2>. QED  BY <1>13, <2>1
<1>15. sv = sw /\ x = y
  BY <1>2, <1>8, <1>12, <1>14, SameLengthSame, Zenon
<1>. QED  BY <1>6, <1>10, <1>15

LEMMA BucketApart ==
  ASSUME NEW v \in Ids, NEW w \in Ids, NEW q \in Ids, NEW r \in Ids,
         NEW m \in PartLists, NEW n \in PartLists,
         storage_path(v, q, m) = storage_path(w, r, n)
  PROVE  v = w /\ q = r
<1>. DEFINE s == <<"/">>
            x == Suffix(m, "/")
            y == Suffix(n, "/")
            qx == q \o x
            ry == r \o y
            sqx == s \o qx
            sry == s \o ry
<1>1. s \in Seq(Chars) /\ Len(s) = 1 /\ s[1] = "/"
  <2>1. s \in Seq(Chars)
    BY Pieces, Zenon
  <2>2. Len(s) = 1 /\ s[1] = "/"
    OBVIOUS
  <2>. QED  BY <2>1, <2>2
<1>2. v \o sqx = w \o sry
  BY DEF storage_path
<1>3. /\ v \in Seq(Chars) /\ w \in Seq(Chars) /\ Free(v, "/") /\ Free(w, "/")
      /\ q \in Seq(Chars) /\ r \in Seq(Chars) /\ Free(q, "/") /\ Free(r, "/")
      /\ x \in Seq(Chars) /\ y \in Seq(Chars) /\ Headed(x, "/") /\ Headed(y, "/")
  BY IdsAreStrings, SuffixHeaded
<1>. HIDE DEF s, x, y
<1>4. qx \in Seq(Chars) /\ ry \in Seq(Chars)
  BY <1>3, Closed, Zenon
<1>5. qx = ry => q = r
  BY <1>3, FirstSeparator, Zenon
<1>. HIDE DEF qx, ry
<1>6. sqx \in Seq(Chars) /\ sry \in Seq(Chars)
  BY <1>1, <1>4, Closed, Zenon
<1>7. sqx = sry => qx = ry
  BY <1>1, <1>4, SamePrefix, Zenon
<1>8. Headed(sqx, "/") /\ Headed(sry, "/")
  <2>1. sqx[1] = "/" /\ sry[1] = "/"
    <3>1. 1 \in 1..Len(s)
      BY <1>1
    <3>2. (s \o qx)[1] = s[1] /\ (s \o ry)[1] = s[1]
      BY <1>1, <1>4, <3>1, FrontOfConcat, Zenon
    <3>. QED  BY <1>1, <3>2
  <2>. QED  BY <2>1 DEF Headed
<1>. HIDE DEF sqx, sry
<1>9. v = w /\ sqx = sry
  <2>1. /\ v \in Seq(Chars) /\ w \in Seq(Chars)
        /\ Free(v, "/") /\ Free(w, "/")
    BY <1>3
  <2>. QED  BY <1>2, <1>6, <1>8, <2>1, FirstSeparator, Zenon
<1>. QED  BY <1>5, <1>7, <1>9

-----------------------------------------------------------------------------
(* The names in use. *)

OfRedis(u) == \E tenant \in Ids, parts \in PartLists :
  u = Entry("redis", tenant, <<>>, parts, tenant_key(tenant, parts))

OfQdrant(u) == \E tenant, repository \in Ids :
  u = Entry("qdrant", tenant, repository, <<>>,
            collection_name(tenant, repository))

OfBucket(u) == \E tenant, repository \in Ids, parts \in PartLists :
  u = Entry("bucket", tenant, repository, parts,
            storage_path(tenant, repository, parts))

(* Every name in use was built by one of the helpers. *)
Built == \A u \in used : OfRedis(u) \/ OfQdrant(u) \/ OfBucket(u)

LEMMA BuiltInvariant == Spec => []Built
<1>1. Init => Built
  BY DEF Init, Built
<1>2. Built /\ [Next]_used => Built'
  <2>. SUFFICES ASSUME Built, [Next]_used  PROVE Built'
    OBVIOUS
  <2>1. CASE UNCHANGED used
    BY <2>1 DEF Built, OfRedis, OfQdrant, OfBucket
  <2>2. CASE Next
    <3>. PICK tenant \in Ids, repository \in Ids, parts \in PartLists :
           \/ UseRedis(tenant, parts)
           \/ UseQdrant(tenant, repository)
           \/ UseBucket(tenant, repository, parts)
      BY <2>2 DEF Next
    <3>1. CASE UseRedis(tenant, parts)
      <4>. DEFINE e == Entry("redis", tenant, <<>>, parts, tenant_key(tenant, parts))
      <4>1. OfRedis(e)
        BY DEF OfRedis
      <4>2. used' = used \cup {e}
        BY <3>1 DEF UseRedis, Use
      <4>. HIDE DEF e
      <4>. QED  BY <4>1, <4>2 DEF Built
    <3>2. CASE UseQdrant(tenant, repository)
      <4>. DEFINE e == Entry("qdrant", tenant, repository, <<>>,
                             collection_name(tenant, repository))
      <4>1. OfQdrant(e)
        BY DEF OfQdrant
      <4>2. used' = used \cup {e}
        BY <3>2 DEF UseQdrant, Use
      <4>. HIDE DEF e
      <4>. QED  BY <4>1, <4>2 DEF Built
    <3>3. CASE UseBucket(tenant, repository, parts)
      <4>. DEFINE e == Entry("bucket", tenant, repository, parts,
                             storage_path(tenant, repository, parts))
      <4>1. OfBucket(e)
        BY DEF OfBucket
      <4>2. used' = used \cup {e}
        BY <3>3 DEF UseBucket, Use
      <4>. HIDE DEF e
      <4>. QED  BY <4>1, <4>2 DEF Built
    <3>. QED  BY <3>1, <3>2, <3>3
  <2>. QED  BY <2>1, <2>2
<1>. QED  BY <1>1, <1>2, PTL DEF Spec

LEMMA BuiltApart == Built => NamespacesApart
<1>. SUFFICES ASSUME Built, NEW u \in used, NEW v \in used, Collide(u, v)
              PROVE  u.tenant = v.tenant /\ u.repository = v.repository
  BY DEF NamespacesApart
<1>1. u.store = v.store /\ u.name = v.name
  BY DEF Collide
<1>2. /\ OfRedis(u) => u.store = "redis"
      /\ OfQdrant(u) => u.store = "qdrant"
      /\ OfBucket(u) => u.store = "bucket"
      /\ OfRedis(v) => v.store = "redis"
      /\ OfQdrant(v) => v.store = "qdrant"
      /\ OfBucket(v) => v.store = "bucket"
  BY DEF OfRedis, OfQdrant, OfBucket, Entry
<1>3. /\ OfRedis(u) \/ OfQdrant(u) \/ OfBucket(u)
      /\ OfRedis(v) \/ OfQdrant(v) \/ OfBucket(v)
  BY DEF Built
<1>4. \/ OfRedis(u) /\ OfRedis(v)
      \/ OfQdrant(u) /\ OfQdrant(v)
      \/ OfBucket(u) /\ OfBucket(v)
  BY <1>1, <1>2, <1>3
<1>5. CASE OfRedis(u) /\ OfRedis(v)
  <2>. PICK tu \in Ids, mu \in PartLists :
         u = Entry("redis", tu, <<>>, mu, tenant_key(tu, mu))
    BY <1>5 DEF OfRedis
  <2>. PICK tv \in Ids, mv \in PartLists :
         v = Entry("redis", tv, <<>>, mv, tenant_key(tv, mv))
    BY <1>5 DEF OfRedis
  <2>1. tenant_key(tu, mu) = tenant_key(tv, mv)
    BY <1>1 DEF Entry
  <2>2. tu = tv
    BY <2>1, RedisApart, Zenon
  <2>. QED  BY <2>2 DEF Entry
<1>6. CASE OfQdrant(u) /\ OfQdrant(v)
  <2>. PICK tu \in Ids, ru \in Ids :
         u = Entry("qdrant", tu, ru, <<>>, collection_name(tu, ru))
    BY <1>6 DEF OfQdrant
  <2>. PICK tv \in Ids, rv \in Ids :
         v = Entry("qdrant", tv, rv, <<>>, collection_name(tv, rv))
    BY <1>6 DEF OfQdrant
  <2>1. collection_name(tu, ru) = collection_name(tv, rv)
    BY <1>1 DEF Entry
  <2>2. tu = tv /\ ru = rv
    BY <2>1, QdrantApart
  <2>. QED  BY <2>2 DEF Entry
<1>7. CASE OfBucket(u) /\ OfBucket(v)
  <2>. PICK tu \in Ids, ru \in Ids, mu \in PartLists :
         u = Entry("bucket", tu, ru, mu, storage_path(tu, ru, mu))
    BY <1>7 DEF OfBucket
  <2>. PICK tv \in Ids, rv \in Ids, mv \in PartLists :
         v = Entry("bucket", tv, rv, mv, storage_path(tv, rv, mv))
    BY <1>7 DEF OfBucket
  <2>1. storage_path(tu, ru, mu) = storage_path(tv, rv, mv)
    BY <1>1 DEF Entry
  <2>2. tu = tv /\ ru = rv
    BY <2>1, BucketApart
  <2>. QED  BY <2>2 DEF Entry
<1>. QED  BY <1>4, <1>5, <1>6, <1>7

(* A name in use belongs to one tenant, and to one of its repositories, for *)
(* any set of ids without separators and any parts, however many names are  *)
(* in use.                                                                  *)
THEOREM NamesKeepApart == Spec => []NamespacesApart
BY BuiltInvariant, BuiltApart, PTL

-----------------------------------------------------------------------------
(* The parts of a name. *)

(* A set of natural numbers that has an element has a smallest one.        *)
LEMMA SmallestIn ==
  ASSUME NEW T \in SUBSET Nat, T # {}
  PROVE  \E x \in T : \A y \in T : x <= y
<1>. DEFINE R == OpToRel(<, Nat)
<1>1. IsWellFoundedOn(R, Nat)
  BY NatLessThanWellFounded
<1>2. \A x, y \in Nat : y < x => <<y, x>> \in R
  BY DEF OpToRel
<1>. HIDE DEF R
<1>3. PICK x \in T : \A y \in T : ~(<<y, x>> \in R)
  BY <1>1, WFMin
<1>4. \A y \in T : y \in Nat
  OBVIOUS
<1>5. \A y \in T : ~(y < x)
  BY <1>2, <1>3, <1>4, Zenon
<1>. QED  BY <1>4, <1>5

(* No part but the last contains sep. *)
Separable(parts, sep) ==
  \A i \in 1..(Len(parts) - 1) : ~Includes(parts[i], sep)

(* Two different lists of n parts that join to the same string. *)
JoinAlike(sep, n, p, q) ==
  /\ Len(p) = n /\ Len(q) = n
  /\ Separable(p, sep) /\ Separable(q, sep)
  /\ Join(p, <<sep>>) = Join(q, <<sep>>)
  /\ p # q

LEMMA PartListsAreSequences ==
  ASSUME NEW p \in PartLists
  PROVE  p \in Seq(Seq(Chars)) /\ Len(p) \in Nat
BY NamingAssumption, LenProperties

LEMMA SeparatorString ==
  ASSUME NEW sep \in {":", "/"}
  PROVE  <<sep>> \in Seq(Chars) /\ Len(<<sep>>) = 1 /\ <<sep>>[1] = sep
<1>1. sep \in Chars
  BY Letters
<1>2. \A a \in Chars : <<a>> \in Seq(Chars)
  OBVIOUS
<1>. QED  BY <1>1, <1>2

LEMMA EmptyUnique ==
  ASSUME NEW p \in PartLists, Len(p) = 0
  PROVE  p = <<>>
BY PartListsAreSequences, EmptySeq

(* A list is its first part and the others. *)
LEMMA HeadAndTail ==
  ASSUME NEW p \in PartLists, NEW q \in PartLists,
         Len(p) > 0, Len(p) = Len(q), p[1] = q[1], Tail(p) = Tail(q)
  PROVE  p = q
<1>1. p \in Seq(Seq(Chars)) /\ q \in Seq(Seq(Chars))
  BY PartListsAreSequences
<1>2. \A i \in 1..Len(p) : p[i] = q[i]
  <2>. SUFFICES ASSUME NEW i \in 1..Len(p), i # 1  PROVE p[i] = q[i]
    OBVIOUS
  <2>1. i - 1 \in 1..(Len(p) - 1) /\ (i - 1) + 1 = i
    BY <1>1
  <2>2. p # <<>> /\ q # <<>>
    OBVIOUS
  <2>3. /\ \A k \in 1..(Len(p) - 1) : Tail(p)[k] = p[k + 1]
        /\ \A k \in 1..(Len(q) - 1) : Tail(q)[k] = q[k + 1]
    BY <1>1, <2>2
  <2>. QED  BY <2>1, <2>3
<1>. QED  BY <1>1, <1>2, SeqEqual

(* The tail of a list of n > 1 parts. *)
LEMMA TailOfParts ==
  ASSUME NEW p \in PartLists, NEW sep \in {":", "/"}, Len(p) > 1, Separable(p, sep)
  PROVE  /\ p[1] \in Seq(Chars) /\ Free(p[1], sep)
         /\ Tail(p) \in PartLists /\ Len(Tail(p)) = Len(p) - 1
         /\ Separable(Tail(p), sep)
<1>1. p \in Seq(Seq(Chars)) /\ Len(p) \in Nat /\ p # <<>>
  BY PartListsAreSequences
<1>2. p[1] \in Seq(Chars)
  BY <1>1
<1>3. Free(p[1], sep)
  BY <1>1, <1>2 DEF Separable, Includes, Free
<1>4. Tail(p) \in PartLists
  BY <1>1, NamingAssumption
<1>5. /\ Len(Tail(p)) = Len(p) - 1
      /\ \A i \in 1..(Len(p) - 1) : Tail(p)[i] = p[i + 1]
  BY <1>1
<1>6. Separable(Tail(p), sep)
  <2>. SUFFICES ASSUME NEW i \in 1..(Len(Tail(p)) - 1)
                PROVE  ~Includes(Tail(p)[i], sep)
    BY DEF Separable
  <2>1. i + 1 \in 1..(Len(p) - 1) /\ Tail(p)[i] = p[i + 1]
    BY <1>1, <1>5
  <2>. QED  BY <2>1 DEF Separable
<1>. QED  BY <1>2, <1>3, <1>4, <1>5, <1>6

(* The first part and the join of the others can be read off a join.        *)
LEMMA FirstPart ==
  ASSUME NEW p \in PartLists, NEW q \in PartLists, NEW sep \in {":", "/"},
         Len(p) > 1, Len(q) > 1, Separable(p, sep), Separable(q, sep),
         Join(p, <<sep>>) = Join(q, <<sep>>)
  PROVE  p[1] = q[1] /\ Join(Tail(p), <<sep>>) = Join(Tail(q), <<sep>>)
<1>. DEFINE s == <<sep>>
            a == p[1]
            b == q[1]
            jp == Join(Tail(p), s)
            jq == Join(Tail(q), s)
            x == s \o jp
            y == s \o jq
<1>1. /\ a \in Seq(Chars) /\ b \in Seq(Chars) /\ Free(a, sep) /\ Free(b, sep)
      /\ Tail(p) \in PartLists /\ Tail(q) \in PartLists
  BY TailOfParts
<1>2. jp \in Seq(Chars) /\ jq \in Seq(Chars)
  BY <1>1, NamingAssumption
<1>3. Join(p, s) = a \o x /\ Join(q, s) = b \o y
  BY NamingAssumption
<1>4. a \o x = b \o y
  BY <1>3
<1>5. s \in Seq(Chars) /\ Len(s) = 1 /\ s[1] = sep
  BY SeparatorString
<1>. HIDE DEF a, b, jp, jq, s
<1>6. x \in Seq(Chars) /\ y \in Seq(Chars)
  BY <1>2, <1>5, Closed, Zenon
<1>7. Headed(x, sep) /\ Headed(y, sep)
  <2>1. 1 \in 1..Len(s)
    BY <1>5
  <2>2. x[1] = s[1] /\ y[1] = s[1]
    BY <1>2, <1>5, <2>1, FrontOfConcat, Zenon
  <2>. QED  BY <1>5, <2>2 DEF Headed
<1>8. x = y => jp = jq
  BY <1>2, <1>5, SamePrefix, Zenon
<1>. HIDE DEF x, y
<1>9. a = b /\ x = y
  BY <1>1, <1>4, <1>6, <1>7, FirstSeparator, Zenon
<1>. QED  BY <1>8, <1>9 DEF a, b, jp, jq, s

(* The string joined determines the parts, given their number: no shortest  *)
(* pair of lists contradicts it.                                            *)
LEMMA JoinInjective ==
  ASSUME NEW sep \in {":", "/"}
  PROVE  ~\E n \in Nat : \E p, q \in PartLists : JoinAlike(sep, n, p, q)
<1>. DEFINE T == {n \in Nat : \E p, q \in PartLists : JoinAlike(sep, n, p, q)}
<1>. SUFFICES ASSUME T # {}  PROVE FALSE
  OBVIOUS
<1>1. PICK n \in T : \A m \in T : n <= m
  BY SmallestIn
<1>2. n \in Nat
  OBVIOUS
<1>3. PICK p \in PartLists, q \in PartLists : JoinAlike(sep, n, p, q)
  OBVIOUS
<1>. HIDE DEF T
<1>4. CASE n = 0
  BY <1>3, <1>4, EmptyUnique DEF JoinAlike
<1>5. CASE n = 1
  <2>1. p[1] = q[1]
    BY <1>3, <1>5, NamingAssumption DEF JoinAlike
  <2>2. p \in Seq(Seq(Chars)) /\ q \in Seq(Seq(Chars))
    BY PartListsAreSequences
  <2>3. p = q
    BY <1>3, <1>5, <2>1, <2>2, SeqEqual DEF JoinAlike
  <2>. QED  BY <1>3, <2>3 DEF JoinAlike
<1>6. CASE n > 1
  <2>1. /\ Len(p) > 1 /\ Len(q) > 1 /\ Len(p) = n /\ Len(q) = n
        /\ Separable(p, sep) /\ Separable(q, sep)
        /\ Join(p, <<sep>>) = Join(q, <<sep>>) /\ p # q
    BY <1>3, <1>6 DEF JoinAlike
  <2>2. p[1] = q[1] /\ Join(Tail(p), <<sep>>) = Join(Tail(q), <<sep>>)
    BY <2>1, FirstPart, Zenon
  <2>3. /\ Tail(p) \in PartLists /\ Len(Tail(p)) = n - 1 /\ Separable(Tail(p), sep)
        /\ Tail(q) \in PartLists /\ Len(Tail(q)) = n - 1 /\ Separable(Tail(q), sep)
    BY <2>1, TailOfParts
  <2>4. Tail(p) # Tail(q)
    BY <1>6, <2>1, <2>2, HeadAndTail
  <2>5. JoinAlike(sep, n - 1, Tail(p), Tail(q))
    BY <2>2, <2>3, <2>4 DEF JoinAlike
  <2>6. n - 1 \in Nat
    BY <1>2, <1>6
  <2>7. n - 1 \in T
    BY <2>3, <2>5, <2>6 DEF T
  <2>. QED  BY <1>1, <1>2, <2>7
<1>. QED  BY <1>2, <1>4, <1>5, <1>6

(* ... and so does a suffix. *)
LEMMA SuffixInjective ==
  ASSUME NEW sep \in {":", "/"}, NEW m \in PartLists, NEW n \in PartLists,
         Len(m) = Len(n), Separable(m, sep), Separable(n, sep),
         Suffix(m, sep) = Suffix(n, sep)
  PROVE  m = n
<1>1. CASE Len(m) = 0
  BY <1>1, EmptyUnique
<1>2. CASE Len(m) # 0
  <2>. DEFINE s == <<sep>>
              jm == Join(m, s)
              jn == Join(n, s)
  <2>1. m # <<>> /\ n # <<>>
    BY <1>2
  <2>2. s \o jm = s \o jn
    BY <2>1 DEF Suffix
  <2>3. s \in Seq(Chars) /\ jm \in Seq(Chars) /\ jn \in Seq(Chars)
    BY SeparatorString, NamingAssumption
  <2>. HIDE DEF s, jm, jn
  <2>4. jm = jn
    BY <2>2, <2>3, SamePrefix, Zenon
  <2>5. Len(m) \in Nat
    BY PartListsAreSequences
  <2>6. ~JoinAlike(sep, Len(m), m, n)
    BY <2>5, JoinInjective, Zenon
  <2>. QED  BY <2>4, <2>6 DEF JoinAlike, s, jm, jn
<1>. QED  BY <1>1, <1>2

(* A name determines its suffix. *)
LEMMA RedisSuffix ==
  ASSUME NEW v \in Ids, NEW m \in PartLists, NEW n \in PartLists,
         tenant_key(v, m) = tenant_key(v, n)
  PROVE  Suffix(m, ":") = Suffix(n, ":")
<1>. DEFINE p == <<"t", "e", "n", "a", "n", "t", ":">>
            x == Suffix(m, ":")
            y == Suffix(n, ":")
<1>1. p \in Seq(Chars)
  BY Pieces, Zenon
<1>2. p \o (v \o x) = p \o (v \o y)
  BY DEF tenant_key
<1>3. v \in Seq(Chars) /\ x \in Seq(Chars) /\ y \in Seq(Chars)
  BY IdsAreStrings, SuffixHeaded
<1>. HIDE DEF p, x, y
<1>4. v \o x \in Seq(Chars) /\ v \o y \in Seq(Chars)
  BY <1>3, Closed, Zenon
<1>5. v \o x = v \o y
  BY <1>1, <1>2, <1>4, SamePrefix, Zenon
<1>6. x = y
  BY <1>3, <1>5, SamePrefix, Zenon
<1>. QED  BY <1>6 DEF x, y

LEMMA BucketSuffix ==
  ASSUME NEW v \in Ids, NEW q \in Ids, NEW m \in PartLists, NEW n \in PartLists,
         storage_path(v, q, m) = storage_path(v, q, n)
  PROVE  Suffix(m, "/") = Suffix(n, "/")
<1>. DEFINE s == <<"/">>
            x == Suffix(m, "/")
            y == Suffix(n, "/")
            qx == q \o x
            qy == q \o y
            sqx == s \o qx
            sqy == s \o qy
<1>1. s \in Seq(Chars)
  BY Pieces, Zenon
<1>2. v \o sqx = v \o sqy
  BY DEF storage_path
<1>3. /\ v \in Seq(Chars) /\ q \in Seq(Chars)
      /\ x \in Seq(Chars) /\ y \in Seq(Chars)
  BY IdsAreStrings, SuffixHeaded
<1>. HIDE DEF s, x, y
<1>4. qx \in Seq(Chars) /\ qy \in Seq(Chars)
  BY <1>3, Closed, Zenon
<1>5. qx = qy => x = y
  BY <1>3, SamePrefix, Zenon
<1>. HIDE DEF qx, qy
<1>6. sqx \in Seq(Chars) /\ sqy \in Seq(Chars)
  BY <1>1, <1>4, Closed, Zenon
<1>7. sqx = sqy => qx = qy
  BY <1>1, <1>4, SamePrefix, Zenon
<1>. HIDE DEF sqx, sqy
<1>8. sqx = sqy
  BY <1>2, <1>3, <1>6, SamePrefix, Zenon
<1>9. x = y
  BY <1>5, <1>7, <1>8
<1>. QED  BY <1>9 DEF x, y

LEMMA BuiltPartsApart == Built => PartsApart
<1>. SUFFICES ASSUME Built, NEW u \in used, NEW v \in used, Collide(u, v),
                     Len(u.parts) = Len(v.parts), Plain(u), Plain(v)
              PROVE  u.parts = v.parts
  BY DEF PartsApart
<1>1. u.store = v.store /\ u.name = v.name
  BY DEF Collide
<1>2. /\ OfRedis(u) => u.store = "redis"
      /\ OfQdrant(u) => u.store = "qdrant"
      /\ OfBucket(u) => u.store = "bucket"
      /\ OfRedis(v) => v.store = "redis"
      /\ OfQdrant(v) => v.store = "qdrant"
      /\ OfBucket(v) => v.store = "bucket"
  BY DEF OfRedis, OfQdrant, OfBucket, Entry
<1>3. /\ OfRedis(u) \/ OfQdrant(u) \/ OfBucket(u)
      /\ OfRedis(v) \/ OfQdrant(v) \/ OfBucket(v)
  BY DEF Built
<1>4. \/ OfRedis(u) /\ OfRedis(v)
      \/ OfQdrant(u) /\ OfQdrant(v)
      \/ OfBucket(u) /\ OfBucket(v)
  BY <1>1, <1>2, <1>3
<1>5. CASE OfRedis(u) /\ OfRedis(v)
  <2>. PICK tu \in Ids, mu \in PartLists :
         u = Entry("redis", tu, <<>>, mu, tenant_key(tu, mu))
    BY <1>5 DEF OfRedis
  <2>. PICK tv \in Ids, mv \in PartLists :
         v = Entry("redis", tv, <<>>, mv, tenant_key(tv, mv))
    BY <1>5 DEF OfRedis
  <2>1. tenant_key(tu, mu) = tenant_key(tv, mv)
    BY <1>1 DEF Entry
  <2>2. tu = tv
    BY <2>1, RedisApart, Zenon
  <2>3. Suffix(mu, ":") = Suffix(mv, ":")
    BY <2>1, <2>2, RedisSuffix, Zenon
  <2>4. /\ u.parts = mu /\ v.parts = mv
        /\ Separable(mu, ":") /\ Separable(mv, ":") /\ Len(mu) = Len(mv)
    BY DEF Entry, Plain, Separable
  <2>. QED  BY <2>3, <2>4, SuffixInjective
<1>6. CASE OfQdrant(u) /\ OfQdrant(v)
  BY <1>6 DEF OfQdrant, Entry
<1>7. CASE OfBucket(u) /\ OfBucket(v)
  <2>. PICK tu \in Ids, ru \in Ids, mu \in PartLists :
         u = Entry("bucket", tu, ru, mu, storage_path(tu, ru, mu))
    BY <1>7 DEF OfBucket
  <2>. PICK tv \in Ids, rv \in Ids, mv \in PartLists :
         v = Entry("bucket", tv, rv, mv, storage_path(tv, rv, mv))
    BY <1>7 DEF OfBucket
  <2>1. storage_path(tu, ru, mu) = storage_path(tv, rv, mv)
    BY <1>1 DEF Entry
  <2>2. tu = tv /\ ru = rv
    BY <2>1, BucketApart
  <2>3. Suffix(mu, "/") = Suffix(mv, "/")
    <3>1. storage_path(tu, ru, mu) = storage_path(tu, ru, mv)
      BY <2>1, <2>2
    <3>. QED  BY <3>1, BucketSuffix
  <2>4. /\ u.parts = mu /\ v.parts = mv
        /\ Separable(mu, "/") /\ Separable(mv, "/") /\ Len(mu) = Len(mv)
    BY DEF Entry, Plain, Separable
  <2>. QED  BY <2>3, <2>4, SuffixInjective
<1>. QED  BY <1>4, <1>5, <1>6, <1>7

(* Within a namespace, names of the same number of parts are equal only if  *)
(* their parts are, for any lists of parts of which no part but the last    *)
(* contains the separator, whatever their number and length.                *)
THEOREM PartsKeepApart == Spec => []PartsApart
BY BuiltInvariant, BuiltPartsApart, PTL
=============================================================================
