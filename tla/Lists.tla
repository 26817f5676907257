------------------------------- MODULE Lists -------------------------------
(* The doubly linked lists of the pool, as sequences.                       *)
EXTENDS Integers, Sequences

(* list_remove of every entry of s that is in T. *)
Without(s, T) ==
    LET Rest[n \in 0..Len(s)] ==
          IF n = 0 THEN <<>>
          ELSE IF s[n] \in T THEN Rest[n-1] ELSE Append(Rest[n-1], s[n])
    IN Rest[Len(s)]

(* list_add_before of o, at position k of s. *)
Before(s, k, o) == SubSeq(s, 1, k - 1) \o <<o>> \o SubSeq(s, k, Len(s))
=============================================================================
