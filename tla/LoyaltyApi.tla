----------------------------- MODULE LoyaltyApi -----------------------------
(***************************************************************************)
(* The HTTP API: the router and RequireAuth (cmd/gophermart/main.go,       *)
(* internal/middleware/auth.go), the handlers (internal/handler), the      *)
(* services behind them (internal/service/user.go, loyalty.go) and the     *)
(* tokens (internal/auth/jwt.go), over a repository whose operations are   *)
(* those of Ledger.  Store shows that the real ones are.                   *)
(*                                                                         *)
(* A request is received, calls the repository once, and is answered; the  *)
(* steps of different requests interleave.  The call may fail with or      *)
(* without its effect (Store has the reasons), and a token expires.  To a  *)
(* client that never gets its answer the request is as good as failed.  A  *)
(* token is named by the request that it was issued to.  Logins, passwords *)
(* and numbers are texts of module Luhn, and a password hash is the        *)
(* password it was made from.                                              *)
(***************************************************************************)
EXTENDS Schema, Luhn, Functions

CONSTANTS Requests,    \* the names of the requests that may be made
          Request,     \* what each of them asks for
          Workloads,   \* bound: the sets of requests that are made together
          Absent,      \* no cookie, or no header
          BearerAlone, \* the header "Bearer" without a token after it
          AccrualAnswers  \* the results that the accrual processor may record

L == INSTANCE Ledger

Credentialed == {"register", "login"}
Protected == {"upload", "orders", "balance", "withdraw", "withdrawals"}
Reads == {"orders", "balance", "withdrawals"}

Is(r, op) == Request[r].op = op

\* What the services take from the body of a request.
LoginOf(r) == TrimSpace(Request[r].login)
PasswordOf(r) == TrimSpace(Request[r].password)
NumberOf(r) == TrimSpace(Request[r].number)

\* The cookie if there is one, or else the header.
TokenFromRequest(r) ==
  IF Request[r].cookie # Absent THEN Request[r].cookie ELSE Request[r].header

\* A login is a user when it is not blank, an accepted number a key, and what is
\* above zero an amount.
ASSUME RequestsAssumption ==
  \A r \in Requests :
    /\ Request[r].op \in Credentialed \cup Protected
    /\ Request[r].op \in Credentialed => LoginOf(r) \in Users \cup {Empty}
    /\ Request[r].op \in Protected =>
         \A token \in {Request[r].cookie, Request[r].header} \ {Absent, BearerAlone} :
           token \in Requests /\ Request[token].op \in Credentialed
    /\ Request[r].op \in {"upload", "withdraw"} =>
         (AcceptsOrderNumber(Request[r].number) => NumberOf(r) \in Numbers)
    /\ Request[r].op = "withdraw" =>
         Request[r].sum \in Int /\ (Request[r].sum > 0 => Request[r].sum \in Sums)
ASSUME NamesAssumption ==
  /\ Absent \notin Requests \cup {BearerAlone} /\ BearerAlone \notin Requests
  /\ \A made \in Workloads : made \subseteq Requests
  /\ \A answer \in AccrualAnswers :
       answer.status \in Statuses /\ answer.accrual \in Accruals

VARIABLES passwords,  \* users.password_hash
          expired,    \* the tokens whose time is over
          user,       \* the user a handler works for: a login, or the principal
          number,     \* the order number it has normalised
          phase,      \* how far each request has come
          result,     \* what the repository told its handler
          view,       \* the rows it read, for the handlers that read
          code,       \* the status code that it was answered
          before      \* history: what was answered to the user before a read arrived

calls == <<user, number, phase, result, view, code, before>>
vars == <<tables, passwords, expired, calls>>

Phases == {"unsent", "store", "stored", "answered"}

\* Not status codes: no answer yet, none for ever, and a request passed on.
Unanswered == 0
Dropped == 1
Accepted == 2

Codes == {Unanswered, Dropped, 200, 202, 204, 400, 401, 402, 409, 422, 500}

\* The tokens that have been issued.
Issued == {t \in Requests : Request[t].op \in Credentialed /\ code[t] = 200}

Sent == {r \in Requests : phase[r] # "unsent"}

Answers(r, status) ==
  /\ phase' = [phase EXCEPT ![r] = "answered"]
  /\ code' = [code EXCEPT ![r] = status]
  /\ result' = [result EXCEPT ![r] = "none"]

-----------------------------------------------------------------------------
(* What a handler does before it calls the repository. *)

\* Mutant: the check for blanks is left out.
CredentialsUnchecked(r) == IF Request[r].readable THEN Accepted ELSE 400

\* decodeCredentials, and the check for blanks of Register and Login.
CredentialsVerdict(r) ==
  IF ~Request[r].readable THEN 400
  ELSE IF Empty \notin {LoginOf(r), PasswordOf(r)} THEN Accepted
  ELSE IF Is(r, "register") THEN 400 ELSE 401

UploadVerdict(r) ==
  IF ~Request[r].readable \/ NumberOf(r) = Empty THEN 400
  ELSE IF AcceptsOrderNumber(Request[r].number) THEN Accepted ELSE 422

WithdrawVerdict(r) ==
  IF ~Request[r].readable THEN 400
  ELSE IF ~AcceptsOrderNumber(Request[r].number) THEN 422
  ELSE IF Request[r].sum > 0 THEN Accepted ELSE 400

BodyVerdict(r) ==
  CASE Is(r, "upload") -> UploadVerdict(r)
    [] Is(r, "withdraw") -> WithdrawVerdict(r)
    [] Request[r].op \in Reads -> Accepted

\* RequireAuth.  After "Bearer" alone TokenFromRequest takes what follows the
\* seventh byte of six, and the server drops the connection.
AuthenticateRequest(r) ==
  IF TokenFromRequest(r) = BearerAlone THEN Dropped
  ELSE IF TokenFromRequest(r) \in expired \cup {Absent} THEN 401 ELSE Accepted

Verdict(r) ==
  IF Request[r].op \in Credentialed THEN CredentialsVerdict(r)
  ELSE IF AuthenticateRequest(r) # Accepted THEN AuthenticateRequest(r)
  ELSE BodyVerdict(r)

\* A client sends the tokens it was given.
HasItsToken(r) ==
  Request[r].op \in Protected =>
    \A token \in {Request[r].cookie, Request[r].header} \ {Absent, BearerAlone} :
      code[token] = 200

Refuse(r) ==
  /\ Verdict(r) # Accepted
  /\ Answers(r, Verdict(r))
  /\ UNCHANGED <<user, number, before>>

\* The user is the one that the body names, or that the claims of the token name.
UserOf(r) ==
  IF Request[r].op \in Credentialed THEN LoginOf(r) ELSE user[TokenFromRequest(r)]

\* The successful requests of a user that a read comes after.
Seen(r, u) ==
  {q \in Requests : /\ Request[r].op \in Reads
                    /\ Request[q].op \in Protected
                    /\ user[q] = u /\ code[q] \in {200, 202, 204}}

Accept(r) ==
  /\ Verdict(r) = Accepted
  /\ phase' = [phase EXCEPT ![r] = "store"]
  /\ user' = [user EXCEPT ![r] = UserOf(r)]
  /\ number' = IF Request[r].op \in {"upload", "withdraw"}
                 THEN [number EXCEPT ![r] = NumberOf(r)] ELSE number
  /\ before' = [before EXCEPT ![r] = Seen(r, UserOf(r))]
  /\ UNCHANGED <<code, result>>

\* The router calls RequireAuth and the handler, or the handler alone.
Receive(r) ==
  /\ phase[r] = "unsent"
  /\ HasItsToken(r)
  /\ Refuse(r) \/ Accept(r)
  /\ UNCHANGED <<tables, passwords, expired, view>>

-----------------------------------------------------------------------------
(* The call of the repository. *)

Calls(r, op) == phase[r] = "store" /\ Is(r, op)

Returns(r, outcome) ==
  /\ phase' = [phase EXCEPT ![r] = "stored"]
  /\ result' = [result EXCEPT ![r] = outcome]
  /\ UNCHANGED <<expired, user, number, code, before>>

\* The commit was made; an error on the way back makes it look like a failure.
Writes(r, outcome) ==
  /\ \E known \in {outcome, "failed"} : Returns(r, known)
  /\ UNCHANGED view

Finds(r, outcome) == Returns(r, outcome) /\ UNCHANGED <<tables, passwords, view>>

Shows(r, outcome, rows) ==
  /\ Returns(r, outcome)
  /\ view' = [view EXCEPT ![r] = rows]
  /\ UNCHANGED <<tables, passwords>>

StoreFails(r) == phase[r] = "store" /\ Finds(r, "failed")

\* Mutant: a registration of a known login sets a new password.
RegisterAgain(r) ==
  /\ Calls(r, "register")
  /\ passwords' = [passwords EXCEPT ![user[r]] = PasswordOf(r)]
  /\ \/ L!CreateUser(user[r])
     \/ Registered(user[r]) /\ UNCHANGED tables
  /\ Writes(r, "created")

Register(r) ==
  /\ Calls(r, "register")
  /\ \/ /\ L!CreateUser(user[r])
        /\ passwords' = [passwords EXCEPT ![user[r]] = PasswordOf(r)]
        /\ Writes(r, "created")
     \/ Registered(user[r]) /\ Finds(r, "exists")

\* The row of users, as far as a login looks at it.
UserByLogin(login) ==
  IF Registered(login) THEN [password |-> passwords[login]] ELSE NoRow

\* Compare looks at the hash that was read.
Login(r) ==
  LET found == UserByLogin(user[r])
  IN  /\ Calls(r, "login")
      /\ \/ found = NoRow /\ Finds(r, "unknown")
         \/ found # NoRow /\ found.password = PasswordOf(r) /\ Finds(r, "match")
         \/ found # NoRow /\ found.password # PasswordOf(r) /\ Finds(r, "mismatch")

\* Mutant: a retried upload takes the order over.
UploadTakesOver(r) ==
  /\ Calls(r, "upload")
  /\ \/ L!CreateOrder(user[r], number[r]) /\ Writes(r, "created") /\ UNCHANGED passwords
     \/ Uploaded(number[r]) /\ OrderCreated(user[r], number[r])
          /\ Writes(r, "own") /\ UNCHANGED passwords

UploadOrder(r) ==
  /\ Calls(r, "upload")
  /\ \/ L!CreateOrder(user[r], number[r]) /\ Writes(r, "created") /\ UNCHANGED passwords
     \/ /\ Uploaded(number[r])
        /\ Finds(r, IF orders[number[r]].user = user[r] THEN "own" ELSE "another")

\* Mutant: the row is inserted before the balance is compared, and stays.
WithdrawInsertsFirst(r) ==
  /\ Calls(r, "withdraw")
  /\ \/ /\ L!CreateWithdrawal(user[r], number[r], Request[r].sum)
        /\ Writes(r, "withdrawn") /\ UNCHANGED passwords
     \/ /\ withdrawals[number[r]] = NoRow
        /\ users[user[r]].current < Request[r].sum
        /\ withdrawals' = [withdrawals EXCEPT ![number[r]] =
                             [user |-> user[r], sum |-> Request[r].sum]]
        /\ Returns(r, "insufficient") /\ UNCHANGED <<users, orders, passwords, view>>
     \/ withdrawals[number[r]] # NoRow /\ Finds(r, "used")

Withdraw(r) ==
  /\ Calls(r, "withdraw")
  /\ \/ /\ L!CreateWithdrawal(user[r], number[r], Request[r].sum)
        /\ Writes(r, "withdrawn")
        /\ UNCHANGED passwords
     \/ users[user[r]].current < Request[r].sum /\ Finds(r, "insufficient")
     \/ /\ users[user[r]].current >= Request[r].sum
        /\ withdrawals[number[r]] # NoRow
        /\ Finds(r, "used")

OrdersOf(u) ==
  {[number |-> n, status |-> orders[n].status, accrual |-> orders[n].accrual] :
     n \in L!OrdersOf(u)}

WithdrawalsOf(u) ==
  {[order |-> n, sum |-> withdrawals[n].sum] : n \in L!WithdrawalsOf(u)}

Found(rows) == IF rows = {} THEN "nothing" ELSE "rows"

\* Mutant: orders that are final are no longer listed.
ListOpenOrders(r) ==
  LET rows == {row \in OrdersOf(user[r]) : ~IsFinal(row.status)}
  IN  Calls(r, "orders") /\ Shows(r, Found(rows), rows)

ListOrders(r) ==
  LET rows == OrdersOf(user[r])
  IN  Calls(r, "orders") /\ Shows(r, Found(rows), rows)

GetBalance(r) == Calls(r, "balance") /\ Shows(r, "rows", users[user[r]])

ListWithdrawals(r) ==
  LET rows == WithdrawalsOf(user[r])
  IN  Calls(r, "withdrawals") /\ Shows(r, Found(rows), rows)

-----------------------------------------------------------------------------
(* The answer. *)

\* Mutant: a failure of the repository is taken for success.
HopefulUploadCodes == [created |-> 202, own |-> 200, another |-> 409, failed |-> 202]

UploadCodes == [created |-> 202, own |-> 200, another |-> 409, failed |-> 500]

\* Mutant: a failure of the repository is taken for success.
HopefulWithdrawCodes ==
  [withdrawn |-> 200, insufficient |-> 402, used |-> 409, failed |-> 200]

WithdrawCodes ==
  [withdrawn |-> 200, insufficient |-> 402, used |-> 409, failed |-> 500]

ListCodes == [rows |-> 200, nothing |-> 204, failed |-> 500]

\* The switch at the end of each handler.
CodeOf ==
  [register |-> [created |-> 200, exists |-> 409, failed |-> 500],
   login |-> [match |-> 200, mismatch |-> 401, unknown |-> 401, failed |-> 500],
   upload |-> UploadCodes,
   withdraw |-> WithdrawCodes,
   orders |-> ListCodes,
   withdrawals |-> ListCodes,
   balance |-> [rows |-> 200, failed |-> 500]]

\* writeAuthResponse answers 500 when the token cannot be signed.
Respond(r) ==
  /\ phase[r] = "stored"
  /\ LET status == CodeOf[Request[r].op][result[r]]
     IN  \/ Answers(r, status)
         \/ Request[r].op \in Credentialed /\ status = 200 /\ Answers(r, 500)
  /\ UNCHANGED <<tables, passwords, expired, user, number, view, before>>

-----------------------------------------------------------------------------
\* The time to live of a token ends.
Expire(t) ==
  /\ code[t] = 200 /\ t \notin expired
  /\ expired' = expired \cup {t}
  /\ UNCHANGED <<tables, passwords, calls>>

\* The accrual processor records a result.
ApplyAccrualResult(n, status, accrual) ==
  /\ L!ApplyAccrualResult(n, status, accrual)
  /\ UNCHANGED <<passwords, expired, calls>>

Init ==
  /\ TablesInit
  /\ passwords = [u \in Users |-> Empty]
  /\ expired = {}
  /\ user = [r \in Requests |-> Empty]
  /\ number = [r \in Requests |-> Empty]
  /\ phase = [r \in Requests |-> "unsent"]
  /\ result = [r \in Requests |-> "none"]
  /\ view = [r \in Requests |-> {}]
  /\ code = [r \in Requests |-> Unanswered]
  /\ before = [r \in Requests |-> {}]

Serve(r) ==
  \/ Register(r)
  \/ Login(r)
  \/ UploadOrder(r)
  \/ ListOrders(r)
  \/ GetBalance(r)
  \/ Withdraw(r)
  \/ ListWithdrawals(r)
  \/ StoreFails(r)
  \/ Respond(r)

Next ==
  \/ \E made \in Workloads : Sent \subseteq made /\ \E r \in made : Receive(r)
  \/ \E r \in Sent : Serve(r)
  \/ \E t \in Issued : Expire(t)
  \/ \E n \in Numbers, answer \in AccrualAnswers :
       ApplyAccrualResult(n, answer.status, answer.accrual)

Spec == Init /\ [][Next]_vars

-----------------------------------------------------------------------------
(* Properties *)

Outcomes == {"none", "failed", "created", "exists", "match", "mismatch", "unknown",
             "own", "another", "withdrawn", "insufficient", "used", "rows", "nothing"}

\* Every variable has its type; a handler has an outcome once it has called.
TypeOK ==
  /\ TablesTypeOK
  /\ \A u \in Users : Registered(u) <=> passwords[u] # Empty
  /\ expired \subseteq Issued
  /\ user \in [Requests -> Users \cup {Empty}]
  /\ number \in [Requests -> Numbers \cup {Empty}]
  /\ phase \in [Requests -> Phases]
  /\ result \in [Requests -> Outcomes]
  /\ code \in [Requests -> Codes]
  /\ before \in [Requests -> SUBSET Requests]
  /\ \A r \in Sent : phase[r] = "stored" => result[r] # "none"
  /\ \A r \in Sent : code[r] # Unanswered => phase[r] = "answered"

\* A token is given only to a client that knew the password with which the
\* login was first registered, however registrations and logins overlap; so
\* everything below that is told to a principal is told to that client.
SessionsNeedThePassword ==
  \A t \in Issued : Registered(user[t]) /\ passwords[user[t]] = PasswordOf(t)

Answered(r, op, codes) == Is(r, op) /\ code[r] \in codes

\* A status code of a writing handler tells the truth about the tables, and it
\* stays the truth: 200 and 202 of an upload say that the order is the
\* client's, 409 that it is someone else's, 200 of a withdrawal that it is
\* recorded as asked for.
CodesAreTrue ==
  \A r \in Sent :
    /\ Answered(r, "upload", {200, 202}) =>
         Uploaded(number[r]) /\ orders[number[r]].user = user[r]
    /\ Answered(r, "upload", {409}) =>
         Uploaded(number[r]) /\ orders[number[r]].user # user[r]
    /\ Answered(r, "withdraw", {200}) =>
         withdrawals[number[r]] = [user |-> user[r], sum |-> Request[r].sum]

\* The number of an order is accepted, a number is paid with and a login is
\* given out by one answer only, whoever asks and however often.
AcceptedOnce ==
  \A q, r \in {p \in Sent : code[p] \in {200, 202}} : q # r =>
    /\ Answered(q, "upload", {202}) /\ Answered(r, "upload", {202})
         => number[q] # number[r]
    /\ Answered(q, "withdraw", {200}) /\ Answered(r, "withdraw", {200})
         => number[q] # number[r]
    /\ Answered(q, "register", {200}) /\ Answered(r, "register", {200})
         => user[q] # user[r]

Refusals == {400, 401, 402, 409, 422}

\* A request that is refused leaves nothing behind: every row was asked for, in
\* these very terms, by a request that is not answered or was not refused.
RefusalLeavesNothing ==
  /\ \A u \in Users : Registered(u) =>
       \E r \in Sent :
         Is(r, "register") /\ user[r] = u /\ code[r] \notin Refusals
  /\ \A n \in Numbers : Uploaded(n) =>
       \E r \in Sent :
         /\ Is(r, "upload") /\ number[r] = n /\ user[r] = orders[n].user
         /\ code[r] \notin Refusals
  /\ \A n \in Numbers : withdrawals[n] # NoRow =>
       \E r \in Sent :
         /\ Is(r, "withdraw") /\ number[r] = n
         /\ withdrawals[n] = [user |-> user[r], sum |-> Request[r].sum]
         /\ code[r] \notin Refusals

-----------------------------------------------------------------------------
\* The answered reads of a kind, and of a user.
Read(r, op) == Answered(r, op, {200, 204})

Total(rows) == SumFunction([row \in rows |-> row.sum])

\* A client that was told 200 or 202 finds what it was told in every list and
\* balance it asks for afterwards; 204 is answered to no such client.
ReadsShowWhatWasAnswered ==
  \A r \in Sent : \A q \in before[r] :
    /\ Answered(q, "upload", {200, 202}) /\ Read(r, "orders")
         => \E row \in view[r] : row.number = number[q]
    /\ Answered(q, "withdraw", {200}) /\ Read(r, "withdrawals")
         => [order |-> number[q], sum |-> Request[q].sum] \in view[r]
    /\ Answered(q, "withdraw", {200}) /\ Read(r, "balance")
         => view[r].withdrawn >= Request[q].sum

\* Two lists of one user never contradict each other: what the earlier one
\* shows is in the later one, and a final order is shown unchanged.
ListsOnlyGrow ==
  \A r \in Sent : \A q \in before[r] :
    /\ Read(q, "orders") /\ Read(r, "orders") =>
         \A old \in view[q] : \E new \in view[r] :
           new.number = old.number /\ (IsFinal(old.status) => new = old)
    /\ Read(q, "withdrawals") /\ Read(r, "withdrawals") => view[q] \subseteq view[r]

\* The balance and the history of withdrawals, read one after the other, are
\* explained by each other: what is read later covers what was read earlier.
HistoryExplainsBalance ==
  \A r \in Sent : \A q \in before[r] :
    /\ Read(q, "balance") /\ Read(r, "withdrawals")
         => view[q].withdrawn <= Total(view[r])
    /\ Read(q, "withdrawals") /\ Read(r, "balance")
         => Total(view[q]) <= view[r].withdrawn

-----------------------------------------------------------------------------
\* README.md:144 has 401 for a client that is not authenticated: no request is
\* dropped because of its header.
BearerIsAnswered ==
  \A r \in Sent : code[r] # Dropped
=============================================================================
