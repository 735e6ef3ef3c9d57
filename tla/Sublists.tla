------------------------------ MODULE Sublists ------------------------------
(***************************************************************************)
(* The loop that collects the elements of a slice that pass a test, as a   *)
(* recursive function over its prefixes: what it returns is proved in      *)
(* Data_proofs.                                                            *)
(***************************************************************************)
EXTENDS Naturals, Sequences

(* The elements of s that are in T, in their order. *)
SelectIn(s, T) ==
  LET upTo[n \in 0..Len(s)] ==
        IF n = 0 THEN <<>>
        ELSE IF s[n] \in T THEN Append(upTo[n - 1], s[n]) ELSE upTo[n - 1]
  IN  upTo[Len(s)]
=============================================================================
