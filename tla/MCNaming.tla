------------------------------- MODULE MCNaming -------------------------------
(***************************************************************************)
(* Model-checking instance of Naming: ids of one and two characters, and   *)
(* parts that contain either separator.                                    *)
(***************************************************************************)
EXTENDS Naming, SequencesExt

MCChars == {":", "/", "_", "-", "t", "e", "n", "a", "r", "p", "o"}

MCIdChars == {"a", "-"}

MCIds == {s \in UNION {[1..n -> MCIdChars] : n \in 1..2} : s # <<"-", "-">>}

Strings == {<<"a">>, <<"a", "a">>, <<":", "a">>, <<"a", "/">>}

MCJoin(parts, sep) ==
  FoldLeftDomain(LAMBDA joined, i :
                   IF i = 1 THEN parts[1] ELSE joined \o sep \o parts[i],
                 <<>>, parts)

MCPartLists == UNION {[1..n -> Strings] : n \in 0..2}
=============================================================================
