------------------------------ MODULE Selection ------------------------------
(***************************************************************************)
(* The filter [x for x in s if x in S], as a recursive function: unlike    *)
(* the built-in SelectSeq, its definition can be expanded in a proof.      *)
(***************************************************************************)
EXTENDS Naturals, Sequences

Selected(s, S) ==
  LET kept[i \in 0 .. Len(s)] ==
        IF i = 0 THEN <<>>
        ELSE IF s[i] \in S THEN Append(kept[i - 1], s[i]) ELSE kept[i - 1]
  IN  kept[Len(s)]
===============================================================================
