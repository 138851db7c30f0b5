--------------------------------- MODULE Totals ---------------------------------
(* The total of a sequence of numbers, for what the components add up.  *)
EXTENDS Naturals, Sequences

Total(ns) ==
    LET upto[i \in 0..Len(ns)] == IF i = 0 THEN 0 ELSE upto[i - 1] + ns[i]
    IN upto[Len(ns)]

================================================================================
