-------------------------------- MODULE Naming --------------------------------
(***************************************************************************)
(* How the tenants of one Redis database, one Qdrant server and one bucket *)
(* keep apart: by the names that tenant_key(), collection_name() and       *)
(* storage_path() build.  A string is a sequence of characters.            *)
(*                                                                         *)
(* Ids are the strings of UUIDs: hexadecimal digits and hyphens.  Parts,   *)
(* which include what users type, are any strings.                         *)
(***************************************************************************)
EXTENDS Naturals, Sequences, FiniteSets

CONSTANTS
  Chars,      \* characters
  IdChars,    \* characters of tenant and repository ids
  Ids,        \* ids in use
  PartLists,  \* lists of further arguments: sequences of strings
  Join(_, _), \* Join(parts, sep): Python's sep.join(parts)
  MaxUses     \* bound on the names in use at a time

(* None of the characters that delimit an id in a name occurs in one; "r"   *)
(* is the first letter of what follows a tenant id in a collection name.    *)
(* The lists of arguments include the rest of each list after its first     *)
(* element.                                                                 *)
ASSUME NamingAssumption ==
  /\ IdChars \subseteq Chars \ {":", "/", "_", "r"}
  /\ {":", "/", "_", "t", "e", "n", "a", "r", "p", "o"} \subseteq Chars
  /\ Ids \subseteq Seq(IdChars)
  /\ PartLists \subseteq Seq(Seq(Chars))
  /\ \A parts \in PartLists : parts # <<>> => Tail(parts) \in PartLists
  /\ \A parts \in PartLists, sep \in {":", "/"} :
       /\ Join(parts, <<sep>>) \in Seq(Chars)
       /\ Len(parts) = 1 => Join(parts, <<sep>>) = parts[1]
       /\ Len(parts) > 1 =>
            Join(parts, <<sep>>) =
              parts[1] \o (<<sep>> \o Join(Tail(parts), <<sep>>))
  /\ MaxUses \in Nat

VARIABLE used  \* names in use, with what they were built from

-----------------------------------------------------------------------------
(* The helpers. *)

(* Mutants of Suffix: no separator in front of the parts, or between them. *)
SuffixUnheaded(parts, sep) == Join(parts, <<sep>>)

SuffixUnseparated(parts, sep) ==
  IF parts = <<>> THEN <<>> ELSE <<sep>> \o Join(parts, <<>>)

(* What follows the ids: nothing at all, or a separator and the parts. *)
Suffix(parts, sep) ==
  IF parts = <<>> THEN <<>> ELSE <<sep>> \o Join(parts, <<sep>>)

(* id.replace('-', '_') *)
Safe(id) == [i \in DOMAIN id |-> IF id[i] = "-" THEN "_" ELSE id[i]]

tenant_key(tenant, parts) ==
  <<"t", "e", "n", "a", "n", "t", ":">> \o (tenant \o Suffix(parts, ":"))

collection_name(tenant, repository) ==
  <<"t", "e", "n", "a", "n", "t", "_">>
    \o (Safe(tenant) \o (<<"_", "r", "e", "p", "o", "_">> \o Safe(repository)))

storage_path(tenant, repository, parts) ==
  tenant \o (<<"/">> \o (repository \o Suffix(parts, "/")))

-----------------------------------------------------------------------------
(* Tenants use names. *)

Init == used = {}

Use(entry) ==
  /\ Cardinality(used) < MaxUses
  /\ used' = used \cup {entry}

Entry(store, tenant, repository, parts, name) ==
  [store |-> store, tenant |-> tenant, repository |-> repository,
   parts |-> parts, name |-> name]

UseRedis(tenant, parts) ==
  Use(Entry("redis", tenant, <<>>, parts, tenant_key(tenant, parts)))

UseQdrant(tenant, repository) ==
  Use(Entry("qdrant", tenant, repository, <<>>,
            collection_name(tenant, repository)))

UseBucket(tenant, repository, parts) ==
  Use(Entry("bucket", tenant, repository, parts,
            storage_path(tenant, repository, parts)))

Next == \E tenant, repository \in Ids, parts \in PartLists :
          \/ UseRedis(tenant, parts)
          \/ UseQdrant(tenant, repository)
          \/ UseBucket(tenant, repository, parts)

Spec == Init /\ [][Next]_used

-----------------------------------------------------------------------------
(* Properties. *)

Collide(u, v) == u.store = v.store /\ u.name = v.name

(* "Tenant data never bleeds across namespace boundaries": a name in use    *)
(* belongs to one tenant, and to one of its repositories where there are    *)
(* any, whatever the parts contain.                                         *)
NamespacesApart ==
  \A u, v \in used :
    Collide(u, v) => u.tenant = v.tenant /\ u.repository = v.repository

Includes(string, char) == \E i \in DOMAIN string : string[i] = char

(* No part but the last contains the separator. *)
Plain(u) == LET sep == IF u.store = "redis" THEN ":" ELSE "/"
            IN \A i \in 1..(Len(u.parts) - 1) : ~Includes(u.parts[i], sep)

(* Within a namespace, names of the same number of parts differ when the    *)
(* parts do, even if the last one, such as the query of a cached embedding, *)
(* contains the separator.                                                  *)
PartsApart ==
  \A u, v \in used :
    Collide(u, v) /\ Len(u.parts) = Len(v.parts) /\ Plain(u) /\ Plain(v)
      => u.parts = v.parts
=============================================================================
