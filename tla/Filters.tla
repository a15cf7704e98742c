------------------------------ MODULE Filters ------------------------------
(***************************************************************************)
(* Vec::retain: the elements of a sequence that a test lets through, in    *)
(* their order.  The test is the set of what it lets through, and the      *)
(* definition a recursive function, so that both can be reasoned about.    *)
(***************************************************************************)
EXTENDS Naturals, Sequences

Retain(s, S) ==
  LET kept[n \in 0..Len(s)] ==
        IF n = 0 THEN << >>
        ELSE IF s[n] \in S THEN Append(kept[n - 1], s[n]) ELSE kept[n - 1]
  IN  kept[Len(s)]

=============================================================================
