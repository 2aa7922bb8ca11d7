-------------------------------- MODULE Luhn --------------------------------
(***************************************************************************)
(* The check of an order number: internal/service/luhn.go and              *)
(* normalizeOrderNumber of internal/service/loyalty.go.                    *)
(*                                                                         *)
(* A text is the sequence of its bytes; Space stands for every white      *)
(* space, and every byte that is neither a digit nor a space is treated    *)
(* alike.                                                                  *)
(***************************************************************************)
EXTENDS Integers, Sequences, SequencesExt

Space == 32
Zero == 48
Nine == 57

Empty == <<>>

IsDigit(c) == c \in Zero .. Nine

\* Mutant: a doubled digit above nine keeps its value.
DoubledAboveNine(digit) == 2 * digit

Doubled(digit) == IF 2 * digit > 9 THEN 2 * digit - 9 ELSE 2 * digit

\* One turn of the loop, which goes from the last byte to the first.
Iteration(c, loop) ==
  [sum |-> loop.sum + (IF loop.doubleDigit THEN Doubled(c - Zero) ELSE c - Zero),
   doubleDigit |-> ~loop.doubleDigit]

LuhnSum(number) ==
  FoldRight(Iteration, number, [sum |-> 0, doubleDigit |-> FALSE]).sum

ValidLuhnNumber(number) ==
  /\ number # Empty
  /\ \A i \in DOMAIN number : IsDigit(number[i])
  /\ LuhnSum(number) > 0
  /\ LuhnSum(number) % 10 = 0

\* strings.TrimSpace: what stands from the first to the last other byte.
TrimSpace(raw) ==
  LET kept == {i \in DOMAIN raw : raw[i] # Space}
  IN  IF kept = {} THEN Empty ELSE SubSeq(raw, Min(kept), Max(kept))

\* normalizeOrderNumber answers TrimSpace(raw), or an error unless it is valid.
AcceptsOrderNumber(raw) == ValidLuhnNumber(TrimSpace(raw))
=============================================================================
