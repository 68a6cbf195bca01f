--------------------------------- MODULE Lists ---------------------------------
(***************************************************************************)
(* Comma-separated lists.  Both parsers of the repository cut a list at    *)
(* its commas and drop what is empty then: filter(Boolean) of              *)
(* src/socksPool.js, the "continue" of wireproxy/config.go.                *)
(***************************************************************************)
EXTENDS Integers, Sequences

(* The list s without the elements x, element by element as the loops go.   *)
Without(s, x) ==
    LET kept[i \in 0..Len(s)] ==
            IF i = 0 THEN <<>>
            ELSE IF s[i] = x THEN kept[i - 1]
            ELSE Append(kept[i - 1], s[i])
    IN  kept[Len(s)]
=============================================================================
