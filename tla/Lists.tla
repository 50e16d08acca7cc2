-------------------------------- MODULE Lists --------------------------------
(* What Python's lists do that several modules need, as a recursive function: *)
(* the filters of the community modules are evaluated by TLC only.            *)
EXTENDS Naturals, Sequences

\* [x for x in list if x not in S]
Excluding(list, S) ==
    LET retained[n \in 0..Len(list)] ==
            IF n = 0 THEN <<>>
            ELSE IF list[n] \in S THEN retained[n - 1]
            ELSE Append(retained[n - 1], list[n])
    IN  retained[Len(list)]
=============================================================================
