------------------------------- MODULE Lists -------------------------------
(***************************************************************************)
(* The selection of the elements of a list that are in a set, in their     *)
(* order, by the loop with which the code makes it.                        *)
(***************************************************************************)
EXTENDS Integers, Sequences

\* selected = []; for x in s: if x in S: selected.append(x)
Selected(s, S) ==
    LET upto[i \in 0 .. Len(s)] ==
            IF i = 0 THEN << >>
            ELSE IF s[i] \in S THEN Append(upto[i - 1], s[i])
            ELSE upto[i - 1]
    IN  upto[Len(s)]
=============================================================================
