------------------------------- MODULE MCRsa -------------------------------
EXTENDS Rsa

Inverse2(a, m) == CHOOSE x \in 1 .. m : (a * x) % m = 1 % m
Pair(p, q, e) ==
    [n |-> p * q, e |-> e, d |-> Inverse2(e, (p - 1) * (q - 1)), p |-> p, q |-> q,
     dmp1 |-> Inverse2(e, p - 1), dmq1 |-> Inverse2(e, q - 1), iqmp |-> Inverse2(q, p)]

\* The larger prime first and last, moduli of two, three and four digits,
\* public exponents of one and of two window sizes.
MCKeyPairs == {Pair(5, 3, 3), Pair(7, 5, 5), Pair(7, 11, 257), Pair(11, 7, 257)}
MCStrings == {<<>>, <<0>>, <<1>>, <<0, 1, 0>>, <<1, 1>>, <<1, 0, 0, 0, 0>>, <<1, 0, 0, 1, 1>>}
=============================================================================
