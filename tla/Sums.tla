--------------------------------- MODULE Sums ---------------------------------
(* Adding up, for the modules that count bytes.                            *)
EXTENDS Integers

(* The sum of the first n elements of f. *)
SumOfFirst(f, n) ==
    LET total[i \in Nat] == IF i = 0 THEN 0 ELSE total[i - 1] + f[i]
    IN  total[n]
=============================================================================
