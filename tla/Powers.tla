---- MODULE Powers ----
EXTENDS Naturals

\* 2^n, as a function: TLAPS has no exponentiation.
pow2[n \in Nat] == IF n = 0 THEN 1 ELSE 2 * pow2[n - 1]
====
