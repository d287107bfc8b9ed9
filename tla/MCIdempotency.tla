--------------------------- MODULE MCIdempotency ---------------------------
(* Attempts under one key: some of one request, one of another body.       *)
EXTENDS Idempotency, TLC

CONSTANTS Others, h1, h2

MCHashOf == [a \in Attempts |-> IF a \in Others THEN h2 ELSE h1]

\* Attempts of the same request differ in nothing the middleware looks at.
MCSymmetry == Permutations(Attempts \ Others)
=============================================================================
