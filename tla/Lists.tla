-------------------------------- MODULE Lists ---------------------------------
(***************************************************************************)
(* The ordered collections of the code, an OrderedDict or the entries of a *)
(* directory by mtime, as sequences: what remains when some of the         *)
(* elements are taken out.                                                 *)
(***************************************************************************)
EXTENDS Naturals, Sequences

\* s without the elements of S; the others keep their order.
Without(s, S) ==
  LET kept[k \in 0..Len(s)] ==
        IF k = 0 THEN <<>>
        ELSE IF s[k] \in S THEN kept[k - 1]
        ELSE Append(kept[k - 1], s[k])
  IN kept[Len(s)]
=============================================================================
