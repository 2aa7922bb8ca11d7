-------------------------------- MODULE Money --------------------------------
(***************************************************************************)
(* The numbers of the ledger.  Amounts arrive as decimals, and are float64 *)
(* in Go and DOUBLE PRECISION in the tables, where each addition and       *)
(* subtraction is rounded: Schema's naturals are what they stand for.      *)
(*                                                                         *)
(* A number is a multiple of 2^-Fraction, with Bits significant bits.  An  *)
(* amount is given in tenths, which binary fractions do not hold.          *)
(***************************************************************************)
EXTENDS Integers

CONSTANTS Bits,    \* 53 in the program
          Fraction \* no number in use has a bit below this one

ASSUME BitsAssumption == Bits \in Nat \ {0} /\ Fraction \in Nat

Abs(n) == IF n < 0 THEN -n ELSE n

\* Whether 2^e is the weight of the last bit of the numbers around n / d.
IsLast(n, d, e) ==
  /\ n < d * 2 ^ e * 2 ^ Bits
  /\ e = 0 \/ 2 * n >= d * 2 ^ e * 2 ^ Bits

Ulp(n, d) == 2 ^ (CHOOSE e \in 0 .. Abs(n) : IsLast(Abs(n), d, e))

\* The number nearest to n / d, of two the one that is even.
Nearest(n, d) ==
  LET u == Ulp(n, d)
      below == n \div (d * u)
      twice == 2 * (n - below * d * u)
      up == twice > d * u \/ (twice = d * u /\ below % 2 = 1)
  IN  u * (IF up THEN below + 1 ELSE below)

\* The decimal of a request or of an answer is read.
Parsed(tenths) == Nearest(tenths * 2 ^ Fraction, 10)

Plus(a, b) == Nearest(a + b, 1)
Minus(a, b) == Nearest(a - b, 1)

\* A row of users, and next to it the same row in tenths, not rounded.
Opened == [current |-> 0, withdrawn |-> 0, exact |-> 0, spent |-> 0, refused |-> FALSE]

Earn(row, tenths) ==
  [row EXCEPT !.current = Plus(@, Parsed(tenths)), !.exact = @ + tenths, !.refused = FALSE]

\* Mutant: the sum is compared with what the account has earned.
PayOnCredit(row, tenths) ==
  IF Plus(row.current, row.withdrawn) < Parsed(tenths)
    THEN [row EXCEPT !.refused = TRUE]
    ELSE [row EXCEPT !.current = Minus(@, Parsed(tenths)),
                     !.withdrawn = Plus(@, Parsed(tenths)),
                     !.exact = @ - tenths, !.spent = @ + tenths, !.refused = FALSE]

Pay(row, tenths) ==
  IF row.current < Parsed(tenths)
    THEN [row EXCEPT !.refused = TRUE]
    ELSE [row EXCEPT !.current = Minus(@, Parsed(tenths)),
                     !.withdrawn = Plus(@, Parsed(tenths)),
                     !.exact = @ - tenths, !.spent = @ + tenths, !.refused = FALSE]
=============================================================================
