------------------------------- MODULE MCApi --------------------------------
(***************************************************************************)
(* Small sets of requests for LoyaltyApi.  Texts are byte sequences: the   *)
(* logins "a" and "b", the passwords "p" and "q", the numbers "18" and,    *)
(* with a wrong check digit, "17".                                          *)
(***************************************************************************)
EXTENDS LoyaltyApi, TLC

LoginA == <<97>>
LoginB == <<98>>
PasswordP == <<112>>
PasswordQ == <<113>>
Number18 == <<49, 56>>
Number17 == <<49, 55>>

Padded(text) == <<Space>> \o text \o <<Space>>

Credentials(op, login, password) ==
  [op |-> op, readable |-> TRUE, login |-> login, password |-> password]

Reading(op, cookie, header) == [op |-> op, cookie |-> cookie, header |-> header]

Uploading(cookie, header, text) ==
  [op |-> "upload", cookie |-> cookie, header |-> header,
   readable |-> TRUE, number |-> text]

Withdrawing(cookie, text, sum) ==
  [op |-> "withdraw", cookie |-> cookie, header |-> Absent,
   readable |-> TRUE, number |-> text, sum |-> sum]

Paid == {[status |-> "PROCESSED", accrual |-> 2]}

TwoUsers == {LoginA, LoginB}
OneNumber == {Number18}

\* The requests, by their place in AllRequests.
R1 == 1
R2 == 2
R3 == 3
R4 == 4
L1 == 5
L2 == 6
U1 == 7
U2 == 8
U4 == 9
O1 == 10
O2 == 11
W1 == 12
W2 == 13
B1 == 14
H1 == 15
O3 == 16
X1 == 17
X2 == 18
X3 == 19

AllRequests == <<
  Credentials("register", LoginA, PasswordP),
  Credentials("register", Padded(LoginA), Padded(PasswordQ)),
  Credentials("register", LoginA, Padded(Empty)),
  Credentials("register", LoginB, PasswordP),
  Credentials("login", LoginA, PasswordP),
  Credentials("login", LoginA, PasswordQ),
  Uploading(R1, Absent, Number18),
  Uploading(L2, R1, Padded(Number18)),
  Uploading(Absent, R4, Number18),
  Reading("orders", R1, Absent),
  Reading("orders", R1, Absent),
  Withdrawing(R1, Number18, 1),
  Withdrawing(R1, Padded(Number18), 1),
  Reading("balance", R1, Absent),
  Reading("withdrawals", R1, Absent),
  Reading("orders", Absent, BearerAlone),
  [Credentials("login", LoginA, PasswordP) EXCEPT !.readable = FALSE],
  Uploading(R1, Absent, Number17),
  Withdrawing(R1, Number18, 0) >>

AllNames == 1 .. Len(AllRequests)

\* One login is registered twice with different passwords, and both log in.
Accounts == {R1, R2, R3, L1, L2, U2}

\* Two users upload one number, and the first lists the orders.
Sharing == {R1, R4, U1, U4, O1}

\* The orders are listed twice while the result arrives.
Listing == {R1, U1, O1, O2}

\* One user pays twice with one number, and the history is read.
Paying == {R1, U1, W1, W2, H1}

\* The balance and the history are read around a withdrawal.
Reviewing == {R1, U1, W1, B1, H1}

\* Bodies that cannot be read, a wrong number, nothing to pay.
Wrong == {R1, X1, X2, X3}

OneByOne == {Accounts, Sharing, Listing, Paying, Reviewing, Wrong}

\* A client that sends the header "Bearer" and no token.
NoToken == {{R1, O3}}
=============================================================================
