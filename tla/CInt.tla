-------------------------------- MODULE CInt --------------------------------
(* Integer division as C does it: the quotient is cut towards zero and the   *)
(* remainder has the sign of the dividend.  Divisors are positive.           *)
EXTENDS Integers

CDiv(a, b) == IF a >= 0 THEN a \div b ELSE -((-a) \div b)

CMod(a, b) == a - b * CDiv(a, b)
=============================================================================
