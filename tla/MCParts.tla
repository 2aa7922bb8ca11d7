------------------------------- MODULE MCParts -------------------------------
(***************************************************************************)
(* The parts of the program that are functions of their input, each over   *)
(* every input of bounded length, against what it is for.  The input of    *)
(* one part is written piece by piece.                                     *)
(***************************************************************************)
EXTENDS Luhn, Money, Transport, SequencesExt, FiniteSetsExt

CONSTANTS Malformed, Unset,
          MaxText, MaxBookings, MaxSettings, MaxCalls \* bounds: the longest inputs

\* With 53 bits, up to 2^52 bookings of one user.
ASSUME BookingsAssumption == MaxBookings \in Nat /\ MaxBookings <= 2 ^ (Bits - 1)

C == INSTANCE Config
Secret == INSTANCE Password WITH HashSize <- 2

VARIABLES part, input

Init ==
  /\ part \in {"number", "ledger", "configuration", "answer", "password"}
  /\ input = <<>>

Grows(name, length, piece) ==
  /\ part = name /\ Len(input) < length
  /\ input' = Append(input, piece)
  /\ UNCHANGED part

\* The number of an order, byte by byte: digits, a space, and another sign.
Type == \E c \in (Zero .. Nine) \cup {Space, 45} : Grows("number", MaxText, c)

\* The earnings and payments of one user.
Book ==
  \E op \in {"earn", "pay"}, tenths \in {1, 2, 7, 8} :
    Grows("ledger", MaxBookings, [op |-> op, tenths |-> tenths])

\* Settings on top of the two that every start needs.
SomeTexts(source) ==
  {C!Text(source, TRUE, TRUE, 0, FALSE), C!Text(source, FALSE, FALSE, 0, TRUE),
   C!Text(source, FALSE, TRUE, 1, TRUE), C!Text(source, FALSE, FALSE, 1, FALSE)}

SomeValues(source, p) ==
  IF p \in C!Texts THEN SomeTexts(source)
  ELSE IF p \in C!Numbers THEN {Malformed, -1, 0, IF source = "flag" THEN 1 ELSE 2}
  ELSE {Malformed, TRUE, FALSE}

Configure ==
  \E source \in {"flag", "env"}, p \in C!Parameters :
    \E value \in SomeValues(source, p) :
      Grows("configuration", MaxSettings, [source |-> source, name |-> p, value |-> value])

\* A request, and the calls of a handler: the status first, if it is given.
Answer ==
  \/ /\ input = <<>>
     /\ \E accepts, encoded, valid \in BOOLEAN :
          Grows("answer", 1, [accepts |-> accepts, encoded |-> encoded, valid |-> valid])
  \/ /\ Len(input) = 1
     /\ \E status \in {200, 204, 400} : Grows("answer", MaxCalls, WriteHeader(status))
  \/ /\ Len(input) > 0
     /\ \E chunk \in {"a", "b"} : Grows("answer", MaxCalls, Write(chunk))

\* A password is stored under some parameters and another, or the same, compared
\* by a program with other parameters.
Store ==
  \E stored, given \in {Secret!Blank, "x", "y"}, salt \in {"s", "t"},
     iterations \in 1 .. 3, own \in 1 .. 2, keyLength \in 1 .. 5 :
    Grows("password", 1,
          [stored |-> stored, given |-> given, salt |-> salt,
           manager |-> [iterations |-> iterations, keyLength |-> keyLength],
           own |-> [iterations |-> own, keyLength |-> 2]])

Next == Type \/ Book \/ Configure \/ Answer \/ Store

Spec == Init /\ [][Next]_<<part, input>>

-----------------------------------------------------------------------------
(* The number *)

\* The check digit by its definition: the digits before it, every second one
\* doubled beginning with the last and the digits of what was doubled added,
\* come with it to a multiple of ten.
Weight(payload, i) ==
  LET digit == payload[i] - Zero
  IN  IF (Len(payload) - i) % 2 = 0
        THEN ((2 * digit) \div 10) + ((2 * digit) % 10)
        ELSE digit

SumOf(numbers) == FoldRight(+, numbers, 0)

Weights(payload) == SumOf([i \in DOMAIN payload |-> Weight(payload, i)])

CheckDigit(payload) == (10 - (Weights(payload) % 10)) % 10

WellFormed(number) ==
  /\ number # Empty
  /\ \A i \in DOMAIN number : IsDigit(number[i])
  /\ \E i \in DOMAIN number : number[i] # Zero

\* The loop of ValidLuhnNumber accepts a text exactly when it is digits, not all
\* zero, whose last one is the check digit of the others.
LoopIsCheckDigit ==
  part = "number" =>
    (ValidLuhnNumber(input) <=>
       /\ WellFormed(input)
       /\ input[Len(input)] - Zero = CheckDigit(Front(input)))

-----------------------------------------------------------------------------
(* The ledger's numbers *)

Booked(row, b) == IF b.op = "earn" THEN Earn(row, b.tenths) ELSE Pay(row, b.tenths)

Row(bookings) == FoldLeft(Booked, Opened, bookings)

Total(bookings) == SumOf([i \in DOMAIN bookings |-> bookings[i].tenths])

\* What a number may be off the exact one after the bookings: for each of them an
\* amount is read and a result rounded, each by at most half a last place.
Drift(bookings) == Len(bookings) * Ulp(2 * Total(bookings) * 2 ^ Fraction, 10)

Off(number, tenths) == Abs(10 * number - tenths * 2 ^ Fraction)

\* The rounded balance is never overdrawn, stays beside the exact one, as does
\* what was withdrawn, and a payment is refused only if the exact balance does
\* not exceed the sum by more than that.
RoundingIsBounded ==
  part = "ledger" =>
    LET row == Row(input)
        off == 10 * Drift(input)
    IN  /\ row.current >= 0
        /\ Off(row.current, row.exact) <= off
        /\ Off(row.withdrawn, row.spent) <= off
        /\ row.refused => (row.exact - Last(input).tenths) * 2 ^ Fraction <= off

-----------------------------------------------------------------------------
(* The configuration *)

\* The last setting of each parameter; the flags of the two that are needed.
Source(name) ==
  [p \in C!Parameters |->
     LET given == {i \in DOMAIN input : input[i].source = name /\ input[i].name = p}
     IN  IF given # {} THEN input[Max(given)].value
         ELSE IF name = "flag" /\ p \in {"DatabaseURI", "AccrualSystemAddress"}
           THEN C!Text("flag", FALSE, FALSE, 0, TRUE)
         ELSE Unset]

\* What the rest of the program takes for granted: a ticker, workers and timeouts
\* that are positive, an address with exactly one scheme, a secret.
Usable(c) ==
  /\ \A p \in {"TokenTTL", "PollInterval", "ShutdownTimeout", "AccrualConcurrency"} : c[p] > 0
  /\ \A p \in C!Texts : ~c[p].spaces
  /\ ~c["JWTSecret"].empty /\ ~c["RunAddress"].empty
  /\ ~c["AccrualSystemAddress"].empty /\ c["AccrualSystemAddress"].schemes = 1
  /\ ~c["DatabaseURI"].empty /\ c["DatabaseURI"].complete

\* A program that starts is usable and has each value from the environment if it
\* is set there, even to nothing, else from the flags, else by default.
StartIsUsable ==
  part = "configuration" =>
    LET flags == Source("flag")
        env == Source("env")
        c == C!Sourced(flags, env)
        from(p) == IF env[p] # Unset THEN "env"
                   ELSE IF flags[p] # Unset THEN "flag" ELSE "default"
    IN  C!Accepts(flags, env) =>
          /\ Usable(c)
          /\ \A p \in C!Texts : c[p].from = from(p)
          /\ \A p \in C!Numbers :
               c[p] = IF env[p] # Unset THEN 2 ELSE IF flags[p] # Unset THEN 1 ELSE 5

-----------------------------------------------------------------------------
(* The answer *)

\* The client's decoder; what is no gzip stream cannot be decoded.
Decoded(a) ==
  IF a.sent = "identity" \/ a.status = 204 THEN a.body
  ELSE IF Len(a.body) >= 2 /\ Head(a.body) = GzipHeader /\ Last(a.body) = GzipTrailer
    THEN SubSeq(a.body, 2, Len(a.body) - 1)
  ELSE <<"undecodable">>

\* The client gets the status and the bytes that the handler wrote, whether they
\* are compressed or not, and the log has the status and the size that were sent.
AnswerArrives ==
  part = "answer" /\ Len(input) > 1 =>
    LET request == Head(input)
        calls == IF request.encoded /\ ~request.valid THEN InvalidBody ELSE Tail(input)
        status == IF Head(calls).call = "WriteHeader" THEN Head(calls).status ELSE 200
        writes == IF Head(calls).call = "WriteHeader" THEN Tail(calls) ELSE calls
        chunks == [i \in DOMAIN writes |-> writes[i].chunk]
        a == Served(request, Tail(input))
    IN  /\ a.status = status /\ a.logged = status
        /\ Decoded(a) = IF status = 204 THEN <<>> ELSE chunks
        /\ a.size = Len(a.body)
        /\ a.sent = "gzip" => request.accepts

-----------------------------------------------------------------------------
(* The password *)

\* PBKDF2 by its definition (RFC 8018): the codes U of a block, of which each is
\* the code of the one before.  All are different, so none cancels another.
Codes(password, salt, iterations, block) ==
  LET u[j \in 1 .. iterations] ==
        Secret!hmacSHA256(password, IF j = 1 THEN Secret!appendBlockIndex(salt, block)
                                             ELSE u[j - 1])
  IN  {u[j] : j \in 1 .. iterations}

\* A password is accepted exactly when it is the one that was stored, whatever
\* parameters the program has had since, and the stored key is PBKDF2's.
StoredPasswordIsKnown ==
  part = "password" /\ input # <<>> =>
    LET case == Head(input)
        m == case.manager
        encoded == Secret!Hash(m, case.salt, case.stored)
    IN  IF case.stored = Secret!Blank
          THEN encoded = <<>>
          ELSE /\ Secret!Compare(case.own, encoded, case.given) <=> case.given = case.stored
               /\ Len(encoded[5]) = m.keyLength
               /\ \A i \in 1 .. m.keyLength :
                    encoded[5][i].block =
                      Codes(case.stored, case.salt, m.iterations, 1 + (i - 1) \div 2)
=============================================================================
