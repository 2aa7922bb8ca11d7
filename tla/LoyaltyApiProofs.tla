-------------------------- MODULE LoyaltyApiProofs --------------------------
(***************************************************************************)
(* The API tells its clients the truth, for any requests, users, numbers   *)
(* and amounts: the state invariants of LoyaltyApi are proved from one     *)
(* inductive invariant, IInv, and every step is shown to be one of Ledger. *)
(*                                                                         *)
(* What a client is told is decided when its handler's call returns and    *)
(* may be told much later, so IInv speaks of both moments alike (Tells).   *)
(* The first half says what a step does to the requests (the ...Effect     *)
(* lemmas) and what the handlers write and tell; the second shows each     *)
(* part of IInv to be kept, mostly from the three facts that what was      *)
(* decided stays (Kept), that nothing new is told unless a handler returns *)
(* (ToldEarlier), and that the tables only grow (TablesGrow).              *)
(***************************************************************************)
EXTENDS LoyaltyApi, TLAPS

LP == INSTANCE LedgerProofs

\* What a handler has once its request is accepted.
Ready(r) ==
  /\ user[r] \in Users
  /\ Request[r].op \in Credentialed => user[r] = LoginOf(r) /\ PasswordOf(r) # Empty
  /\ Request[r].op \in Protected => Registered(user[r])
  /\ Request[r].op \in {"upload", "withdraw"} => number[r] \in Numbers
  /\ Is(r, "withdraw") => Request[r].sum \in Sums

\* The codes that only a request that was accepted is answered.
AnswersOfAccepted == {200, 202, 204, 402, 409, 500}

\* The state of a request: what it has come to, and what is known of it then.
CallsAreFormed ==
  \A r \in Requests :
    /\ code[r] # Unanswered <=> phase[r] = "answered"
    /\ phase[r] \in {"store", "stored"} \/ code[r] \in AnswersOfAccepted => Ready(r)
    /\ phase[r] = "stored" => result[r] \in DOMAIN CodeOf[Request[r].op]

\* A handler has one of the outcomes, or its client one of the codes.
Tells(r, outcomes, codes) ==
  \/ phase[r] = "stored" /\ result[r] \in outcomes
  \/ phase[r] = "answered" /\ code[r] \in codes

\* What a request has told its client, or is about to.
SaysRegistered(r) == Is(r, "register") /\ Tells(r, {"created"}, {200})
LetsIn(r) ==
  \/ SaysRegistered(r)
  \/ Is(r, "login") /\ Tells(r, {"match"}, {200})
SaysAccepted(r) == Is(r, "upload") /\ Tells(r, {"created"}, {202})
SaysOwn(r) == Is(r, "upload") /\ Tells(r, {"created", "own"}, {200, 202})
SaysAnother(r) == Is(r, "upload") /\ Tells(r, {"another"}, {409})
SaysWithdrawn(r) == Is(r, "withdraw") /\ Tells(r, {"withdrawn"}, {200})
ShowsRows(r) == Request[r].op \in Reads /\ Tells(r, {"rows", "nothing"}, {200, 204})

\* What is told is true of the tables.
OutcomesAreTrue ==
  \A r \in Requests :
    /\ LetsIn(r) => Registered(user[r]) /\ passwords[user[r]] = PasswordOf(r)
    /\ SaysOwn(r) => Uploaded(number[r]) /\ orders[number[r]].user = user[r]
    /\ SaysAnother(r) => Uploaded(number[r]) /\ orders[number[r]].user # user[r]
    /\ SaysWithdrawn(r) =>
         withdrawals[number[r]] = [user |-> user[r], sum |-> Request[r].sum]

\* A login, an order and a payment are given out once.
OutcomesAreUnique ==
  \A q, r \in Requests : q # r =>
    /\ SaysAccepted(q) /\ SaysAccepted(r) => number[q] # number[r]
    /\ SaysWithdrawn(q) /\ SaysWithdrawn(r) => number[q] # number[r]
    /\ SaysRegistered(q) /\ SaysRegistered(r) => user[q] # user[r]

\* A failed call may have had its effect.
MayHaveWritten(r) == Tells(r, {"created", "withdrawn", "failed"}, {200, 202, 500})

\* Every row was asked for by a request that may have written it.
RowsWereAskedFor ==
  /\ \A u \in Users : Registered(u) =>
       \E r \in Requests : Is(r, "register") /\ user[r] = u /\ MayHaveWritten(r)
  /\ \A n \in Numbers : Uploaded(n) =>
       \E r \in Requests : /\ Is(r, "upload") /\ number[r] = n
                           /\ user[r] = orders[n].user /\ MayHaveWritten(r)
  /\ \A n \in Numbers : withdrawals[n] # NoRow =>
       \E r \in Requests : /\ Is(r, "withdraw") /\ number[r] = n /\ MayHaveWritten(r)
                           /\ withdrawals[n] = [user |-> user[r], sum |-> Request[r].sum]

\* Every order of one list is in the other, and a final one is unchanged.
OrdersGrew(olds, news) ==
  \A old \in olds : \E new \in news :
    new.number = old.number /\ (IsFinal(old.status) => new = old)

\* What was read is still covered by the tables, however long ago.
ViewsStayTrue ==
  \A r \in Requests : ShowsRows(r) =>
    /\ Is(r, "orders") => OrdersGrew(view[r], OrdersOf(user[r]))
    /\ Is(r, "withdrawals") => view[r] \subseteq WithdrawalsOf(user[r])
    /\ Is(r, "balance") => view[r] \in UserRow /\ view[r].withdrawn <= users[user[r]].withdrawn

\* What a read follows is answered, and of the same user.
SeenCameBefore ==
  \A r \in Requests : \A q \in before[r] :
    /\ q \in Requests /\ phase[r] # "unsent"
    /\ Request[q].op \in Protected /\ user[q] = user[r] /\ code[q] \in {200, 202, 204}

\* What r read covers what q told before it.
Covers(r, q) ==
  /\ Is(r, "orders") =>
       /\ SaysOwn(q) => \E row \in view[r] : row.number = number[q]
       /\ Is(q, "orders") /\ ShowsRows(q) => OrdersGrew(view[q], view[r])
  /\ Is(r, "withdrawals") =>
       /\ SaysWithdrawn(q) => [order |-> number[q], sum |-> Request[q].sum] \in view[r]
       /\ Is(q, "withdrawals") /\ ShowsRows(q) => view[q] \subseteq view[r]
       /\ Is(q, "balance") /\ ShowsRows(q) => view[q].withdrawn <= Total(view[r])
  /\ Is(r, "balance") =>
       /\ SaysWithdrawn(q) => view[r].withdrawn >= Request[q].sum
       /\ Is(q, "withdrawals") /\ ShowsRows(q) => Total(view[q]) <= view[r].withdrawn

ViewsCoverWhatTheyFollow ==
  \A r \in Requests : ShowsRows(r) => \A q \in before[r] : Covers(r, q)

\* The inductive invariant; view and passwords are functions on the requests
\* and the users.
IInv ==
  /\ TypeOK /\ view = [r \in Requests |-> view[r]] /\ passwords = [u \in Users |-> passwords[u]]
  /\ LP!Books
  /\ CallsAreFormed /\ OutcomesAreTrue /\ OutcomesAreUnique /\ RowsWereAskedFor
  /\ SeenCameBefore /\ ViewsStayTrue /\ ViewsCoverWhatTheyFollow

\* The call of the repository, by any handler.
Handles(r) ==
  \/ Register(r) \/ Login(r) \/ UploadOrder(r) \/ ListOrders(r) \/ GetBalance(r)
  \/ Withdraw(r) \/ ListWithdrawals(r) \/ StoreFails(r)

-----------------------------------------------------------------------------
(* What is decided about a request. *)

\* A request is accepted, dropped, or refused with one of three codes,
LEMMA VerdictIs ==
  ASSUME NEW r \in Requests
  PROVE  Verdict(r) \in {Accepted, Dropped, 400, 401, 422}
BY RequestsAssumption
DEF Verdict, CredentialsVerdict, AuthenticateRequest, BodyVerdict, UploadVerdict,
    WithdrawVerdict, Credentialed, Protected, Reads, Is, Accepted

\* and what is accepted is well formed.
LEMMA AcceptedBody ==
  ASSUME NEW r \in Requests, Verdict(r) = Accepted
  PROVE  /\ Request[r].op \in Credentialed => LoginOf(r) \in Users /\ PasswordOf(r) # Empty
         /\ Request[r].op \in Protected =>
              TokenFromRequest(r) \notin expired \cup {Absent, BearerAlone}
         /\ Request[r].op \in {"upload", "withdraw"} => NumberOf(r) \in Numbers
         /\ Is(r, "withdraw") => Request[r].sum \in Sums
<1> USE DEF Accepted, Dropped
<1>1. ASSUME Request[r].op \in Credentialed
      PROVE  LoginOf(r) \in Users /\ PasswordOf(r) # Empty
  BY <1>1, RequestsAssumption DEF Verdict, CredentialsVerdict
<1>2. ASSUME Request[r].op \in Protected
      PROVE  TokenFromRequest(r) \notin expired \cup {Absent, BearerAlone}
  BY <1>2 DEF Verdict, AuthenticateRequest, Protected, Credentialed
<1>3. ASSUME Request[r].op \in {"upload", "withdraw"}
      PROVE  NumberOf(r) \in Numbers /\ (Is(r, "withdraw") => Request[r].sum \in Sums)
  <2>1. BodyVerdict(r) = Accepted
    BY <1>3 DEF Verdict, Credentialed
  <2>2. CASE Is(r, "upload")
    <3>1. UploadVerdict(r) = Accepted
      BY <2>1, <2>2 DEF BodyVerdict, Is, Reads
    <3> QED
      BY <2>2, <3>1, RequestsAssumption DEF UploadVerdict, Is
  <2>3. CASE Is(r, "withdraw")
    <3>1. WithdrawVerdict(r) = Accepted
      BY <2>1, <2>3 DEF BodyVerdict, Is, Reads
    <3> QED
      BY <2>3, <3>1, RequestsAssumption DEF WithdrawVerdict, Is
  <2> QED
    BY <1>3, <2>2, <2>3 DEF Is
<1> QED
  BY <1>1, <1>2, <1>3 DEF Is

\* The codes that the handlers answer to the outcomes of their calls.
LEMMA CodesOfOutcomes ==
  ASSUME NEW op \in Credentialed \cup Protected, NEW o \in DOMAIN CodeOf[op]
  PROVE  /\ o \in Outcomes \ {"none"}
         /\ CodeOf[op][o] \in {200, 202, 204, 401, 402, 409, 500}
         /\ op = "register" => (CodeOf[op][o] = 200 => o = "created")
         /\ op = "login" => (CodeOf[op][o] = 200 => o = "match")
         /\ op = "upload" => /\ CodeOf[op][o] \in {200, 202} => o \in {"created", "own"}
                             /\ CodeOf[op][o] = 202 => o = "created"
                             /\ CodeOf[op][o] = 409 => o = "another"
         /\ op = "withdraw" => (CodeOf[op][o] = 200 => o = "withdrawn")
         /\ op \in Reads => (CodeOf[op][o] \in {200, 204} => o \in {"rows", "nothing"})
         /\ op \in {"register", "upload", "withdraw"} =>
              (o \in {"created", "withdrawn", "failed"} => CodeOf[op][o] \in {200, 202, 500})
<1> USE DEF CodeOf, UploadCodes, WithdrawCodes, ListCodes, Reads, Outcomes
<1>1. CASE op = "register"
  BY <1>1
<1>2. CASE op = "login"
  BY <1>2
<1>3. CASE op = "upload"
  BY <1>3
<1>4. CASE op = "withdraw"
  BY <1>4
<1>5. CASE op = "orders"
  BY <1>5
<1>6. CASE op = "withdrawals"
  BY <1>6
<1>7. CASE op = "balance"
  BY <1>7
<1> QED
  BY <1>1, <1>2, <1>3, <1>4, <1>5, <1>6, <1>7 DEF Credentialed, Protected

-----------------------------------------------------------------------------
(* What a step does to the requests. *)

\* A step leaves request q alone.
Same(q) ==
  /\ user'[q] = user[q] /\ number'[q] = number[q] /\ phase'[q] = phase[q]
  /\ result'[q] = result[q] /\ view'[q] = view[q] /\ code'[q] = code[q]
  /\ before'[q] = before[q]

\* Either one request moves, or the requests and the passwords stay.
LEMMA Steps ==
  ASSUME [Next]_vars
  PROVE  \/ \E r \in Requests : Receive(r)
         \/ \E r \in Requests : Handles(r)
         \/ \E r \in Requests : Respond(r)
         \/ UNCHANGED <<passwords, calls>>
<1>1. CASE \E made \in Workloads : Sent \subseteq made /\ \E r \in made : Receive(r)
  BY <1>1, NamesAssumption
<1>2. CASE \E r \in Sent : Serve(r)
  BY <1>2 DEF Serve, Handles, Sent
<1>3. CASE \E t \in Issued : Expire(t)
  BY <1>3 DEF Expire
<1>4. CASE \E n \in Numbers, answer \in AccrualAnswers :
             ApplyAccrualResult(n, answer.status, answer.accrual)
  BY <1>4 DEF ApplyAccrualResult
<1>5. CASE UNCHANGED vars
  BY <1>5 DEF vars
<1> QED
  BY <1>1, <1>2, <1>3, <1>4, <1>5 DEF Next

\* A request is received: refused at once, or passed to its handler.
LEMMA ReceiveEffect ==
  ASSUME IInv, NEW r \in Requests, Receive(r)
  PROVE  /\ \A q \in Requests \ {r} : Same(q)
         /\ phase[r] = "unsent" /\ code[r] = Unanswered /\ code'[r] # 200
         /\ UNCHANGED <<tables, passwords, expired, view>>
         /\ \/ /\ phase'[r] = "answered" /\ code'[r] \in {Dropped, 400, 401, 422}
               /\ result'[r] = "none" /\ UNCHANGED <<user, number, before>>
            \/ /\ Verdict(r) = Accepted /\ phase'[r] = "store"
               /\ user'[r] = UserOf(r) /\ before'[r] = Seen(r, UserOf(r))
               /\ Request[r].op \in {"upload", "withdraw"} => number'[r] = NumberOf(r)
               /\ UNCHANGED <<code, result>>
<1> USE DEF IInv, TypeOK, CallsAreFormed
<1>1. /\ phase[r] = "unsent" /\ code[r] = Unanswered
      /\ UNCHANGED <<tables, passwords, expired, view>>
  BY DEF Receive
<1>2. CASE Refuse(r)
  BY <1>1, <1>2, VerdictIs DEF Refuse, Answers, Same, Unanswered, Dropped, Accepted
<1>3. CASE Accept(r)
  BY <1>1, <1>3 DEF Accept, Same, Unanswered
<1> QED
  BY <1>1, <1>2, <1>3 DEF Receive

\* A handler calls the repository and has an outcome.
LEMMA HandleEffect ==
  ASSUME IInv, NEW r \in Requests, Handles(r)
  PROVE  /\ \A q \in Requests \ {r} : Same(q)
         /\ phase[r] = "store" /\ phase'[r] = "stored"
         /\ UNCHANGED <<expired, user, number, code, before>>
         /\ result'[r] \in DOMAIN CodeOf[Request[r].op]
<1> USE DEF IInv, TypeOK, Calls, Finds, Shows, Writes, Returns, Same, Is
<1>1. CASE Register(r)
  BY <1>1 DEF Register, CodeOf
<1>2. CASE Login(r)
  BY <1>2 DEF Login, CodeOf
<1>3. CASE UploadOrder(r)
  BY <1>3 DEF UploadOrder, CodeOf, UploadCodes
<1>4. CASE ListOrders(r)
  BY <1>4 DEF ListOrders, CodeOf, ListCodes, Found
<1>5. CASE GetBalance(r)
  BY <1>5 DEF GetBalance, CodeOf
<1>6. CASE Withdraw(r)
  BY <1>6 DEF Withdraw, CodeOf, WithdrawCodes
<1>7. CASE ListWithdrawals(r)
  BY <1>7 DEF ListWithdrawals, CodeOf, ListCodes, Found
<1>8. CASE StoreFails(r)
  <2>1. Request[r].op \in Credentialed \cup Protected
    BY RequestsAssumption
  <2>2. "failed" \in DOMAIN CodeOf[Request[r].op]
    BY <2>1 DEF Credentialed, Protected, CodeOf, UploadCodes, WithdrawCodes, ListCodes
  <2> QED
    BY <1>8, <2>2 DEF StoreFails
<1> QED
  BY <1>1, <1>2, <1>3, <1>4, <1>5, <1>6, <1>7, <1>8 DEF Handles

\* The outcome is answered with its code, or a session with 500.
LEMMA RespondEffect ==
  ASSUME IInv, NEW r \in Requests, Respond(r)
  PROVE  /\ \A q \in Requests \ {r} : Same(q)
         /\ phase[r] = "stored" /\ phase'[r] = "answered" /\ result'[r] = "none"
         /\ UNCHANGED <<tables, passwords, expired, user, number, view, before>>
         /\ \/ code'[r] = CodeOf[Request[r].op][result[r]]
            \/ /\ Request[r].op \in Credentialed /\ code'[r] = 500
               /\ CodeOf[Request[r].op][result[r]] = 200
BY DEF IInv, TypeOK, Respond, Answers, Same

\* What was decided about a request stays.
LEMMA Kept ==
  ASSUME IInv, [Next]_vars, NEW q \in Requests
  PROVE  /\ phase[q] # "unsent" =>
              /\ user'[q] = user[q] /\ number'[q] = number[q] /\ before'[q] = before[q]
              /\ phase'[q] # "unsent"
         /\ phase[q] \in {"stored", "answered"} => view'[q] = view[q]
         /\ phase[q] = "answered" => phase'[q] = "answered" /\ code'[q] = code[q]
<1>1. ASSUME NEW r \in Requests, Receive(r) \/ Handles(r) \/ Respond(r), q # r
      PROVE  Same(q)
  BY <1>1, ReceiveEffect, HandleEffect, RespondEffect
<1>2. CASE Receive(q)
  BY <1>2, ReceiveEffect
<1>3. CASE Handles(q)
  BY <1>3, HandleEffect
<1>4. CASE Respond(q)
  BY <1>4, RespondEffect
<1>5. CASE UNCHANGED calls
  BY <1>5 DEF calls
<1> QED
  BY <1>1, <1>2, <1>3, <1>4, <1>5, Steps DEF Same

\* A request tells something new when its handler returns, and nothing new when
\* it is answered.
LEMMA ToldEarlier ==
  ASSUME IInv, [Next]_vars, NEW q \in Requests, ~Handles(q)
  PROVE  /\ SaysRegistered(q)' => SaysRegistered(q)
         /\ LetsIn(q)' => LetsIn(q)
         /\ SaysAccepted(q)' => SaysAccepted(q)
         /\ SaysOwn(q)' => SaysOwn(q)
         /\ SaysAnother(q)' => SaysAnother(q)
         /\ SaysWithdrawn(q)' => SaysWithdrawn(q)
         /\ ShowsRows(q)' => ShowsRows(q)
<1> USE DEF SaysRegistered, LetsIn, SaysAccepted, SaysOwn, SaysAnother, SaysWithdrawn,
            ShowsRows, Tells
<1>1. ASSUME Same(q)
      PROVE  /\ phase'[q] = phase[q] /\ result'[q] = result[q] /\ code'[q] = code[q]
  BY <1>1 DEF Same
<1>2. ASSUME NEW r \in Requests, Receive(r) \/ Handles(r) \/ Respond(r), q # r
      PROVE  Same(q)
  BY <1>2, ReceiveEffect, HandleEffect, RespondEffect
<1>3. CASE Receive(q)
  BY <1>3, ReceiveEffect DEF Dropped
<1>4. CASE Respond(q)
  <2>1. /\ Request[q].op \in Credentialed \cup Protected
        /\ result[q] \in DOMAIN CodeOf[Request[q].op]
        /\ phase[q] = "stored" /\ phase'[q] = "answered"
    BY <1>4, RequestsAssumption, RespondEffect DEF IInv, CallsAreFormed
  <2>2. /\ Is(q, "register") /\ code'[q] = 200 => result[q] = "created"
        /\ Is(q, "login") /\ code'[q] = 200 => result[q] = "match"
        /\ Is(q, "upload") => /\ code'[q] \in {200, 202} => result[q] \in {"created", "own"}
                              /\ code'[q] = 202 => result[q] = "created"
                              /\ code'[q] = 409 => result[q] = "another"
        /\ Is(q, "withdraw") /\ code'[q] = 200 => result[q] = "withdrawn"
        /\ Request[q].op \in Reads /\ code'[q] \in {200, 204} => result[q] \in {"rows", "nothing"}
    BY <1>4, <2>1, CodesOfOutcomes, RespondEffect DEF Is, Credentialed, Reads
  <2> QED
    BY <2>1, <2>2
<1>5. CASE UNCHANGED calls
  BY <1>5 DEF calls
<1> QED
  BY <1>1, <1>2, <1>3, <1>4, <1>5, Steps

\* A request that may have written is answered as one that may have written.
LEMMA WritersStay ==
  ASSUME IInv, [Next]_vars, NEW q \in Requests, MayHaveWritten(q),
         Request[q].op \in {"register", "upload", "withdraw"}
  PROVE  MayHaveWritten(q)' /\ user'[q] = user[q] /\ number'[q] = number[q]
<1> USE DEF MayHaveWritten, Tells
<1>1. CASE phase[q] = "answered"
  BY <1>1, Kept
<1>2. CASE phase[q] = "stored" /\ result[q] \in {"created", "withdrawn", "failed"}
  <2>1. ASSUME NEW r \in Requests, Receive(r) \/ Handles(r) \/ Respond(r), q # r
        PROVE  Same(q)
    BY <2>1, ReceiveEffect, HandleEffect, RespondEffect
  <2>2. ~Receive(q) /\ ~Handles(q)
    BY <1>2, ReceiveEffect, HandleEffect
  <2>3. CASE Respond(q)
    <3>1. /\ Request[q].op \in Credentialed \cup Protected
          /\ result[q] \in DOMAIN CodeOf[Request[q].op]
      BY <1>2, RequestsAssumption DEF IInv, CallsAreFormed
    <3>2. CodeOf[Request[q].op][result[q]] \in {200, 202, 500}
      BY <1>2, <3>1, CodesOfOutcomes
    <3> QED
      BY <2>3, <3>2, RespondEffect
  <2>4. CASE UNCHANGED calls
    BY <1>2, <2>4 DEF calls
  <2> QED
    BY <1>2, <2>1, <2>2, <2>3, <2>4, Steps DEF Same
<1> QED
  BY <1>1, <1>2

-----------------------------------------------------------------------------
(* What the handlers do to the tables. *)

\* A handler that calls the repository works for a registered user.
LEMMA CallIsReady ==
  ASSUME IInv, NEW r \in Requests, phase[r] = "store"
  PROVE  Ready(r)
BY DEF IInv, CallsAreFormed

\* A new row is written by the handler of the request that asked for it.
LEMMA WhatAHandlerWrites ==
  ASSUME IInv, NEW r \in Requests, Handles(r)
  PROVE  /\ \A u \in Users : users[u] = NoRow /\ users'[u] # NoRow =>
              Is(r, "register") /\ u = user[r] /\ result'[r] \in {"created", "failed"}
         /\ \A n \in Numbers : orders[n] = NoRow /\ orders'[n] # NoRow =>
              /\ Is(r, "upload") /\ n = number[r] /\ orders'[n].user = user[r]
              /\ result'[r] \in {"created", "failed"}
         /\ \A n \in Numbers : withdrawals[n] = NoRow /\ withdrawals'[n] # NoRow =>
              /\ Is(r, "withdraw") /\ n = number[r]
              /\ withdrawals'[n] = [user |-> user[r], sum |-> Request[r].sum]
              /\ result'[r] \in {"withdrawn", "failed"}
         /\ \/ UNCHANGED passwords /\ \A u \in Users : users[u] = NoRow => users'[u] = NoRow
            \/ /\ Is(r, "register") /\ users[user[r]] = NoRow /\ users'[user[r]] # NoRow
               /\ passwords' = [passwords EXCEPT ![user[r]] = PasswordOf(r)]
<1> USE DEF IInv, TypeOK, TablesTypeOK, Calls, Finds, Shows, Writes, Returns, Is, tables
<1>0. Ready(r)
  BY HandleEffect, CallIsReady
<1>1. CASE Register(r)
  <2>1. user[r] \in Users
    BY <1>0 DEF Ready
  <2>2. [current |-> 0, withdrawn |-> 0] # NoRow
    BY NullsAssumption DEF UserRow
  <2> QED
    BY <1>1, <2>1, <2>2 DEF Register, L!CreateUser, L!Registered, L!UserCreated
<1>2. CASE Login(r)
  BY <1>2 DEF Login
<1>3. CASE UploadOrder(r)
  BY <1>3 DEF UploadOrder, L!CreateOrder, L!OrderCreated
<1>4. CASE ListOrders(r)
  BY <1>4 DEF ListOrders
<1>5. CASE GetBalance(r)
  BY <1>5 DEF GetBalance
<1>6. CASE Withdraw(r)
  <2>1. CASE L!CreateWithdrawal(user[r], number[r], Request[r].sum) /\ Writes(r, "withdrawn")
             /\ UNCHANGED passwords
    BY <1>6, <2>1 DEF Withdraw, L!CreateWithdrawal, L!WithdrawalCreated, L!Registered
  <2> QED
    BY <1>6, <2>1 DEF Withdraw
<1>7. CASE ListWithdrawals(r)
  BY <1>7 DEF ListWithdrawals
<1>8. CASE StoreFails(r)
  BY <1>8 DEF StoreFails
<1> QED
  BY <1>1, <1>2, <1>3, <1>4, <1>5, <1>6, <1>7, <1>8 DEF Handles

\* An outcome is true when the call returns, and new where it says so.
LEMMA WhatAHandlerTells ==
  ASSUME IInv, NEW r \in Requests, Handles(r)
  PROVE  /\ SaysRegistered(r)' => users[user[r]] = NoRow
         /\ LetsIn(r)' => users'[user[r]] # NoRow /\ passwords'[user[r]] = PasswordOf(r)
         /\ SaysAccepted(r)' => orders[number[r]] = NoRow
         /\ SaysOwn(r)' => orders'[number[r]] # NoRow /\ orders'[number[r]].user = user[r]
         /\ SaysAnother(r)' => orders'[number[r]] # NoRow /\ orders'[number[r]].user # user[r]
         /\ SaysWithdrawn(r)' =>
              /\ withdrawals[number[r]] = NoRow
              /\ withdrawals'[number[r]] = [user |-> user[r], sum |-> Request[r].sum]
         /\ ShowsRows(r)' =>
              /\ UNCHANGED tables
              /\ Is(r, "orders") => view'[r] = OrdersOf(user[r])
              /\ Is(r, "withdrawals") => view'[r] = WithdrawalsOf(user[r])
              /\ Is(r, "balance") => view'[r] = users[user[r]]
<1>0. Ready(r) /\ phase'[r] = "stored"
  BY HandleEffect, CallIsReady
<1> USE DEF IInv, TypeOK, TablesTypeOK, Calls, Finds, Shows, Writes, Returns, Is, tables
<1> USE DEF SaysRegistered, LetsIn, SaysAccepted, SaysOwn, SaysAnother, SaysWithdrawn,
            ShowsRows, Tells
<1>1. CASE Register(r)
  <2>1. user[r] \in Users
    BY <1>0 DEF Ready
  <2>2. [current |-> 0, withdrawn |-> 0] # NoRow
    BY NullsAssumption DEF UserRow
  <2> QED
    BY <1>0, <1>1, <2>1, <2>2 DEF Register, L!CreateUser, L!Registered, L!UserCreated, Reads
<1>2. CASE Login(r)
  BY <1>0, <1>2 DEF Login, UserByLogin, Registered, Reads
<1>3. CASE UploadOrder(r)
  <2>1. number[r] \in Numbers /\ user[r] \in Users
    BY <1>0, <1>3 DEF Ready, UploadOrder
  <2>2. [user |-> user[r], status |-> "NEW", accrual |-> NoAccrual] # NoRow
    BY <2>1, NullsAssumption DEF OrderRow, Statuses, Accruals
  <2>3. CASE L!CreateOrder(user[r], number[r]) /\ Writes(r, "created")
    BY <1>0, <1>3, <2>1, <2>2, <2>3 DEF UploadOrder, L!CreateOrder, L!Uploaded, L!OrderCreated, Reads
  <2>4. CASE /\ Uploaded(number[r])
             /\ Finds(r, IF orders[number[r]].user = user[r] THEN "own" ELSE "another")
    BY <1>0, <1>3, <2>1, <2>4 DEF UploadOrder, Uploaded, Reads
  <2> QED
    BY <1>3, <2>3, <2>4 DEF UploadOrder
<1>4. CASE ListOrders(r)
  BY <1>0, <1>4 DEF ListOrders, Reads
<1>5. CASE GetBalance(r)
  BY <1>0, <1>5 DEF GetBalance, Reads
<1>6. CASE Withdraw(r)
  <2>1. number[r] \in Numbers
    BY <1>0, <1>6 DEF Ready, Withdraw
  <2>2. CASE L!CreateWithdrawal(user[r], number[r], Request[r].sum) /\ Writes(r, "withdrawn")
    BY <1>0, <1>6, <2>1, <2>2 DEF Withdraw, L!CreateWithdrawal, L!WithdrawalCreated, Reads
  <2>3. CASE Finds(r, "insufficient") \/ Finds(r, "used")
    BY <1>0, <1>6, <2>3 DEF Withdraw, Reads
  <2> QED
    BY <1>6, <2>2, <2>3 DEF Withdraw
<1>7. CASE ListWithdrawals(r)
  BY <1>0, <1>7 DEF ListWithdrawals, Reads
<1>8. CASE StoreFails(r)
  BY <1>0, <1>8 DEF StoreFails, Reads
<1> QED
  BY <1>1, <1>2, <1>3, <1>4, <1>5, <1>6, <1>7, <1>8 DEF Handles

-----------------------------------------------------------------------------
(* Every step is one of the ledger. *)

\* The ledger's assumptions about the constants are those of the API.
LEMMA LedgerAssumptions ==
  LP!AmountsAssumption /\ LP!KeysAssumption /\ LP!NullsAssumption
BY AmountsAssumption, KeysAssumption, NullsAssumption
DEF LP!AmountsAssumption, LP!KeysAssumption, LP!NullsAssumption, LP!UserRow, UserRow,
    LP!OrderRow, OrderRow, LP!WithdrawalRow, WithdrawalRow, LP!Sums, Sums,
    LP!Statuses, Statuses, LP!Accruals, Accruals

\* L and LP are the same ledger.
LEMMA SameLedgerStep == L!Next => LP!Next
BY DEF L!Next, L!CreateUser, L!CreateOrder, L!ApplyAccrualResult, L!CreateWithdrawal,
       L!UserCreated, L!OrderCreated, L!AccrualApplied, L!WithdrawalCreated,
       L!Registered, L!Uploaded, L!IsFinal, L!AccrualValue, L!Credited, L!Debited,
       L!Statuses, L!Accruals, L!Sums,
       LP!Next, LP!CreateUser, LP!CreateOrder, LP!ApplyAccrualResult,
       LP!CreateWithdrawal, LP!UserCreated, LP!OrderCreated, LP!AccrualApplied,
       LP!WithdrawalCreated, LP!Registered, LP!Uploaded, LP!IsFinal, LP!AccrualValue,
       LP!Credited, LP!Debited, LP!Statuses, LP!Accruals, LP!Sums

\* A handler that writes takes the step of the ledger that it names.
LEMMA LedgerStep ==
  ASSUME IInv, [Next]_vars
  PROVE  L!Next \/ UNCHANGED tables
<1>1. ASSUME NEW r \in Requests, Handles(r)
      PROVE  L!Next \/ UNCHANGED tables
  <2>1. Ready(r)
    BY <1>1, HandleEffect, CallIsReady
  <2> USE DEF Finds, Shows, Calls, Ready, Is
  <2>2. CASE Register(r)
    BY <2>1, <2>2 DEF Register, L!Next
  <2>3. CASE Login(r)
    BY <2>3 DEF Login
  <2>4. CASE UploadOrder(r)
    BY <2>1, <2>4 DEF UploadOrder, L!Next
  <2>5. CASE ListOrders(r)
    BY <2>5 DEF ListOrders
  <2>6. CASE GetBalance(r)
    BY <2>6 DEF GetBalance
  <2>7. CASE Withdraw(r)
    <3>1. Request[r].sum \in L!Sums
      BY <2>1, <2>7 DEF Withdraw, L!Sums, Sums
    <3> QED
      BY <2>1, <2>7, <3>1 DEF Withdraw, L!Next
  <2>8. CASE ListWithdrawals(r)
    BY <2>8 DEF ListWithdrawals
  <2>9. CASE StoreFails(r)
    BY <2>9 DEF StoreFails
  <2> QED
    BY <1>1, <2>2, <2>3, <2>4, <2>5, <2>6, <2>7, <2>8, <2>9 DEF Handles
<1>2. ASSUME NEW n \in Numbers, NEW answer \in AccrualAnswers,
             ApplyAccrualResult(n, answer.status, answer.accrual)
      PROVE  L!Next
  <2>1. answer.status \in L!Statuses /\ answer.accrual \in L!Accruals
    BY NamesAssumption DEF L!Statuses, L!Accruals, Statuses, Accruals
  <2> QED
    BY <1>2, <2>1 DEF ApplyAccrualResult, L!Next
<1>3. CASE \E made \in Workloads : Sent \subseteq made /\ \E r \in made : Receive(r)
  BY <1>3 DEF Receive
<1>4. CASE \E r \in Sent : Serve(r)
  BY <1>1, <1>4, RespondEffect DEF Serve, Handles, Sent
<1>5. CASE \E t \in Issued : Expire(t)
  BY <1>5 DEF Expire
<1>6. CASE UNCHANGED vars
  BY <1>6 DEF vars
<1> QED
  BY <1>2, <1>3, <1>4, <1>5, <1>6 DEF Next

\* So the books of the ledger (LedgerProofs) stay balanced under the API.
LEMMA BooksStay == ASSUME IInv, [Next]_vars PROVE LP!Books' /\ TablesTypeOK'
<1>1. [LP!Next]_(LP!tables)
  BY LedgerStep, SameLedgerStep DEF tables, LP!tables
<1>2. LP!Books'
  BY <1>1, LP!NextKeepsBooks, LedgerAssumptions DEF IInv
<1>3. TablesTypeOK'
  BY <1>2
  DEF LP!Books, LP!TablesTypeOK, TablesTypeOK, LP!UserRow, UserRow, LP!OrderRow, OrderRow,
      LP!WithdrawalRow, WithdrawalRow, LP!Sums, Sums, LP!Statuses, Statuses,
      LP!Accruals, Accruals
<1> QED
  BY <1>2, <1>3

\* No step takes back a row, an owner, a final result or a debit.
LEMMA TablesGrow ==
  ASSUME IInv, [Next]_vars
  PROVE  /\ \A u \in Users : Registered(u) =>
              Registered(u)' /\ users[u].withdrawn <= users'[u].withdrawn
         /\ \A n \in Numbers : Uploaded(n) =>
              /\ Uploaded(n)' /\ orders'[n].user = orders[n].user
              /\ IsFinal(orders[n].status) => orders'[n] = orders[n]
         /\ \A n \in Numbers : withdrawals[n] # NoRow => withdrawals'[n] = withdrawals[n]
<1>1. [LP!Next]_(LP!tables)
  BY LedgerStep, SameLedgerStep DEF tables, LP!tables
<1>2. LP!Books
  BY DEF IInv
<1> QED
  BY <1>1, <1>2, LP!RowsAreKept, LedgerAssumptions
  DEF LP!Registered, LP!Uploaded, LP!IsFinal, Registered, Uploaded, IsFinal

\* Rows appear only when a handler calls the repository.
LEMMA NoNewRows ==
  ASSUME IInv, [Next]_vars, \A r \in Requests : ~Handles(r)
  PROVE  /\ \A u \in Users : users[u] = NoRow => users'[u] = NoRow
         /\ \A n \in Numbers : orders[n] = NoRow => orders'[n] = NoRow
         /\ UNCHANGED <<passwords, withdrawals>>
<1>1. ASSUME NEW n \in Numbers, NEW answer \in AccrualAnswers,
             ApplyAccrualResult(n, answer.status, answer.accrual)
      PROVE  /\ \A u \in Users : users[u] = NoRow => users'[u] = NoRow
             /\ \A m \in Numbers : orders[m] = NoRow => orders'[m] = NoRow
             /\ UNCHANGED <<passwords, withdrawals>>
  <2>1. /\ UNCHANGED <<passwords, withdrawals>>
        /\ orders[n] # NoRow /\ \A m \in Numbers \ {n} : orders'[m] = orders[m]
    BY <1>1 DEF ApplyAccrualResult, L!ApplyAccrualResult, L!AccrualApplied, L!Uploaded,
                IInv, TypeOK, TablesTypeOK
  <2>2. users[orders[n].user] # NoRow
    BY <2>1 DEF IInv, LP!Books, LP!RowsHaveOwners, LP!Uploaded, LP!Registered
  <2>3. \A u \in Users \ {orders[n].user} : users'[u] = users[u]
    BY <1>1 DEF ApplyAccrualResult, L!ApplyAccrualResult, L!AccrualApplied,
                IInv, TypeOK, TablesTypeOK
  <2> QED
    BY <2>1, <2>2, <2>3
<1>2. CASE \E made \in Workloads : Sent \subseteq made /\ \E r \in made : Receive(r)
  BY <1>2 DEF Receive, tables
<1>3. CASE \E r \in Sent : Serve(r)
  BY <1>3, RespondEffect DEF Serve, Handles, Sent, tables
<1>4. CASE \E t \in Issued : Expire(t)
  BY <1>4 DEF Expire, tables
<1>5. CASE UNCHANGED vars
  BY <1>5 DEF vars, tables
<1> QED
  BY <1>1, <1>2, <1>3, <1>4, <1>5 DEF Next

\* A password is set when its login is registered, and never again.
LEMMA PasswordsStay ==
  ASSUME IInv, [Next]_vars, NEW u \in Users, Registered(u)
  PROVE  passwords'[u] = passwords[u]
<1>1. CASE \A r \in Requests : ~Handles(r)
  BY <1>1, NoNewRows
<1>2. ASSUME NEW r \in Requests, Handles(r)
      PROVE  passwords'[u] = passwords[u]
  BY <1>2, WhatAHandlerWrites DEF Registered, IInv
<1> QED
  BY <1>1, <1>2

\* A request that tells anything was Ready.
LEMMA TellersAreReady ==
  ASSUME IInv, NEW q \in Requests,
         \/ SaysRegistered(q) \/ LetsIn(q) \/ SaysAccepted(q) \/ SaysOwn(q) \/ SaysAnother(q)
         \/ SaysWithdrawn(q) \/ ShowsRows(q) \/ MayHaveWritten(q)
  PROVE  Ready(q) /\ phase[q] \in {"stored", "answered"}
BY DEF IInv, CallsAreFormed, SaysRegistered, LetsIn, SaysAccepted, SaysOwn, SaysAnother,
       SaysWithdrawn, ShowsRows, MayHaveWritten, Tells, AnswersOfAccepted

\* A request that is Ready stays so: its user remains registered.
LEMMA ReadyStays ==
  ASSUME IInv, [Next]_vars, NEW q \in Requests, Ready(q), phase[q] # "unsent"
  PROVE  Ready(q)'
<1>1. user'[q] = user[q] /\ number'[q] = number[q]
  BY Kept
<1>2. Registered(user[q]) => users'[user[q]] # NoRow
  BY TablesGrow DEF Ready, Registered
<1> QED
  BY <1>1, <1>2 DEF Ready, Registered

-----------------------------------------------------------------------------
(* The parts of the invariant. *)

\* A received request is Ready: its token was given to a registered user.
LEMMA CallsStayFormed == ASSUME IInv, [Next]_vars PROVE CallsAreFormed'
<1> SUFFICES ASSUME NEW q \in Requests
             PROVE  /\ code'[q] # Unanswered <=> phase'[q] = "answered"
                    /\ phase'[q] \in {"store", "stored"} \/ code'[q] \in AnswersOfAccepted
                         => Ready(q)'
                    /\ phase'[q] = "stored" => result'[q] \in DOMAIN CodeOf[Request[q].op]
  BY DEF CallsAreFormed
<1>1. /\ code[q] # Unanswered <=> phase[q] = "answered"
      /\ phase[q] \in {"store", "stored"} \/ code[q] \in AnswersOfAccepted => Ready(q)
      /\ phase[q] = "stored" => result[q] \in DOMAIN CodeOf[Request[q].op]
  BY DEF IInv, CallsAreFormed
<1>2. Unanswered \notin AnswersOfAccepted
  BY DEF Unanswered, AnswersOfAccepted
<1>3. CASE Same(q)
  <2>1. phase'[q] = phase[q] /\ code'[q] = code[q] /\ result'[q] = result[q]
    BY <1>3 DEF Same
  <2>2. phase[q] \in {"store", "stored"} \/ code[q] \in AnswersOfAccepted
          => phase[q] # "unsent"
    BY <1>1, <1>2
  <2> QED
    BY <1>1, <2>1, <2>2, ReadyStays
<1>4. CASE Receive(q)
  <2>1. CASE /\ phase'[q] = "answered" /\ code'[q] \in {Dropped, 400, 401, 422}
    BY <2>1 DEF Dropped, Unanswered, AnswersOfAccepted
  <2>2. CASE /\ Verdict(q) = Accepted /\ phase'[q] = "store" /\ user'[q] = UserOf(q)
             /\ Request[q].op \in {"upload", "withdraw"} => number'[q] = NumberOf(q)
             /\ UNCHANGED <<code, result>>
    <3>1. code'[q] = Unanswered
      BY <1>4, <2>2, ReceiveEffect
    <3>2. Ready(q)'
      <4>1. UNCHANGED <<tables, passwords, expired, view>>
        BY <1>4, ReceiveEffect
      <4>2. CASE Request[q].op \in Credentialed
        BY <2>2, <4>2, AcceptedBody
        DEF Ready, UserOf, Is, Credentialed, Protected
      <4>3. CASE Request[q].op \in Protected
        <5> DEFINE token == TokenFromRequest(q)
        <5>1. token \in {Request[q].cookie, Request[q].header} \ {Absent, BearerAlone}
          BY <2>2, <4>3, AcceptedBody DEF TokenFromRequest
        <5>2. token \in Requests /\ Request[token].op \in Credentialed
          BY <4>3, <5>1, RequestsAssumption
        <5>3. code[token] = 200
          BY <1>4, <4>3, <5>1 DEF Receive, HasItsToken
        <5>4. LetsIn(token)
          BY <5>2, <5>3 DEF LetsIn, SaysRegistered, Tells, Is, Credentialed, IInv,
                            CallsAreFormed, Unanswered
        <5>5. Registered(user[token]) /\ user[token] \in Users
          BY <5>2, <5>4, TellersAreReady DEF IInv, OutcomesAreTrue, Ready
        <5>6. user'[q] = user[token]
          BY <2>2, <4>3 DEF UserOf, Credentialed, Protected
        <5> HIDE DEF token
        <5> QED
          BY <2>2, <4>1, <4>3, <5>5, <5>6, AcceptedBody
          DEF Ready, Is, Registered, tables, Credentialed, Protected
      <4> QED
        BY <4>2, <4>3, RequestsAssumption
    <3> QED
      BY <2>2, <3>1, <3>2
  <2> QED
    BY <1>4, <2>1, <2>2, ReceiveEffect
<1>5. CASE Handles(q)
  BY <1>1, <1>2, <1>5, HandleEffect, ReadyStays
<1>6. CASE Respond(q)
  <2>1. Ready(q)'
    BY <1>1, <1>6, RespondEffect, ReadyStays
  <2>2. code'[q] # Unanswered
    <3>1. CodeOf[Request[q].op][result[q]] \in {200, 202, 204, 401, 402, 409, 500}
      BY <1>1, <1>6, RespondEffect, CodesOfOutcomes, RequestsAssumption
    <3> QED
      BY <1>6, <3>1, RespondEffect DEF Unanswered
  <2> QED
    BY <1>6, <2>1, <2>2, RespondEffect
<1>7. ASSUME NEW r \in Requests, Receive(r) \/ Handles(r) \/ Respond(r), q # r
      PROVE  Same(q)
  BY <1>7, ReceiveEffect, HandleEffect, RespondEffect
<1>8. CASE UNCHANGED calls
  BY <1>3, <1>8 DEF calls, Same
<1> QED
  BY <1>3, <1>4, <1>5, <1>6, <1>7, <1>8, Steps

\* What was told stays true, as the rows it is about stay.
LEMMA OutcomesStayTrue == ASSUME IInv, [Next]_vars PROVE OutcomesAreTrue'
<1> SUFFICES ASSUME NEW q \in Requests
    PROVE  /\ LetsIn(q)' => users'[user'[q]] # NoRow /\ passwords'[user'[q]] = PasswordOf(q)
           /\ SaysOwn(q)' => orders'[number'[q]] # NoRow /\ orders'[number'[q]].user = user'[q]
           /\ SaysAnother(q)' =>
                orders'[number'[q]] # NoRow /\ orders'[number'[q]].user # user'[q]
           /\ SaysWithdrawn(q)' =>
                withdrawals'[number'[q]] = [user |-> user'[q], sum |-> Request[q].sum]
  BY DEF OutcomesAreTrue, Registered, Uploaded
<1>1. CASE Handles(q)
  BY <1>1, HandleEffect, WhatAHandlerTells
<1>2. CASE ~Handles(q)
  <2>1. ASSUME LetsIn(q) \/ SaysOwn(q) \/ SaysAnother(q) \/ SaysWithdrawn(q)
        PROVE  /\ Ready(q) /\ user'[q] = user[q] /\ number'[q] = number[q]
    BY <2>1, TellersAreReady, Kept
  <2>2. /\ LetsIn(q) => Registered(user[q]) /\ passwords[user[q]] = PasswordOf(q)
        /\ SaysOwn(q) => Uploaded(number[q]) /\ orders[number[q]].user = user[q]
        /\ SaysAnother(q) => Uploaded(number[q]) /\ orders[number[q]].user # user[q]
        /\ SaysWithdrawn(q) =>
             withdrawals[number[q]] = [user |-> user[q], sum |-> Request[q].sum]
    BY DEF IInv, OutcomesAreTrue
  <2>3. ASSUME LetsIn(q)
        PROVE  users'[user[q]] # NoRow /\ passwords'[user[q]] = PasswordOf(q)
    BY <2>1, <2>2, <2>3, TablesGrow, PasswordsStay DEF Ready, Registered
  <2>4. ASSUME SaysOwn(q) \/ SaysAnother(q)
        PROVE  orders'[number[q]] # NoRow /\ orders'[number[q]].user = orders[number[q]].user
    BY <2>1, <2>2, <2>4, TablesGrow DEF Ready, Uploaded, SaysOwn, SaysAnother, Is
  <2>5. ASSUME SaysWithdrawn(q)
        PROVE  withdrawals'[number[q]] = withdrawals[number[q]]
    <3>1. number[q] \in Numbers /\ user[q] \in Users /\ Request[q].sum \in Sums
      BY <2>1, <2>5 DEF Ready, SaysWithdrawn, Is
    <3>2. withdrawals[number[q]] # NoRow
      BY <2>2, <2>5, <3>1, NullsAssumption DEF WithdrawalRow
    <3> QED
      BY <3>1, <3>2, TablesGrow
  <2> QED
    BY <1>2, <2>1, <2>2, <2>3, <2>4, <2>5, ToldEarlier
<1> QED
  BY <1>1, <1>2

\* What one request was given, no handler gives to another one.
LEMMA OutcomesStayUnique == ASSUME IInv, [Next]_vars PROVE OutcomesAreUnique'
<1>1. ASSUME NEW q \in Requests, NEW r \in Requests, q # r, ~Handles(q)
      PROVE  /\ SaysAccepted(q)' /\ SaysAccepted(r)' => number'[q] # number'[r]
             /\ SaysWithdrawn(q)' /\ SaysWithdrawn(r)' => number'[q] # number'[r]
             /\ SaysRegistered(q)' /\ SaysRegistered(r)' => user'[q] # user'[r]
  <2>1. /\ SaysAccepted(q)' => SaysAccepted(q)
        /\ SaysWithdrawn(q)' => SaysWithdrawn(q)
        /\ SaysRegistered(q)' => SaysRegistered(q)
    BY <1>1, ToldEarlier
  <2>2. SaysAccepted(q) \/ SaysWithdrawn(q) \/ SaysRegistered(q) =>
          Ready(q) /\ user'[q] = user[q] /\ number'[q] = number[q]
    BY TellersAreReady, Kept
  <2>3. CASE Handles(r)
    <3>1. /\ SaysAccepted(r)' => orders[number[r]] = NoRow
          /\ SaysWithdrawn(r)' => withdrawals[number[r]] = NoRow
          /\ SaysRegistered(r)' => users[user[r]] = NoRow
          /\ user'[r] = user[r] /\ number'[r] = number[r]
      BY <2>3, WhatAHandlerTells, HandleEffect
    <3>2. /\ SaysAccepted(q) => orders[number[q]] # NoRow
          /\ SaysRegistered(q) => users[user[q]] # NoRow
          /\ SaysWithdrawn(q) =>
               withdrawals[number[q]] = [user |-> user[q], sum |-> Request[q].sum]
      BY DEF IInv, OutcomesAreTrue, SaysAccepted, SaysOwn, LetsIn, Tells, Registered, Uploaded
    <3>3. SaysWithdrawn(q) => withdrawals[number[q]] # NoRow
      <4>1. SaysWithdrawn(q) => user[q] \in Users /\ Request[q].sum \in Sums
        BY <2>2 DEF Ready, SaysWithdrawn, Is
      <4> QED
        BY <3>2, <4>1, NullsAssumption DEF WithdrawalRow
    <3> QED
      BY <2>1, <2>2, <3>1, <3>2, <3>3
  <2>4. CASE ~Handles(r)
    <3>1. /\ SaysAccepted(r)' => SaysAccepted(r)
          /\ SaysWithdrawn(r)' => SaysWithdrawn(r)
          /\ SaysRegistered(r)' => SaysRegistered(r)
      BY <2>4, ToldEarlier
    <3>2. SaysAccepted(r) \/ SaysWithdrawn(r) \/ SaysRegistered(r) =>
            user'[r] = user[r] /\ number'[r] = number[r]
      BY TellersAreReady, Kept
    <3> QED
      BY <1>1, <2>1, <2>2, <3>1, <3>2 DEF IInv, OutcomesAreUnique
  <2> QED
    BY <2>3, <2>4
<1>2. ASSUME NEW q \in Requests, NEW r \in Requests, q # r
      PROVE  ~Handles(q) \/ ~Handles(r)
  BY <1>2, HandleEffect DEF Same
<1> QED
  BY <1>1, <1>2 DEF OutcomesAreUnique

\* Rows keep their owners and terms, and new rows come from handlers.
LEMMA RowsStayAskedFor == ASSUME IInv, [Next]_vars PROVE RowsWereAskedFor'
<1>1. ASSUME NEW u \in Users, users'[u] # NoRow
      PROVE  \E r \in Requests : Is(r, "register") /\ user'[r] = u /\ MayHaveWritten(r)'
  <2>1. CASE users[u] # NoRow
    <3>1. PICK r \in Requests : Is(r, "register") /\ user[r] = u /\ MayHaveWritten(r)
      BY <2>1 DEF IInv, RowsWereAskedFor, Registered
    <3> QED
      BY <3>1, WritersStay DEF Is
  <2>2. CASE users[u] = NoRow
    <3>1. PICK r \in Requests : Handles(r)
      BY <1>1, <2>2, NoNewRows
    <3>2. Is(r, "register") /\ u = user[r] /\ result'[r] \in {"created", "failed"}
      BY <1>1, <2>2, <3>1, WhatAHandlerWrites
    <3> QED
      BY <3>1, <3>2, HandleEffect DEF MayHaveWritten, Tells
  <2> QED
    BY <2>1, <2>2
<1>2. ASSUME NEW n \in Numbers, orders'[n] # NoRow
      PROVE  \E r \in Requests : /\ Is(r, "upload") /\ number'[r] = n
                                 /\ user'[r] = orders'[n].user /\ MayHaveWritten(r)'
  <2>1. CASE orders[n] # NoRow
    <3>1. PICK r \in Requests : /\ Is(r, "upload") /\ number[r] = n
                                /\ user[r] = orders[n].user /\ MayHaveWritten(r)
      BY <2>1 DEF IInv, RowsWereAskedFor, Uploaded
    <3>2. orders'[n].user = orders[n].user
      BY <2>1, TablesGrow DEF Uploaded
    <3> QED
      BY <3>1, <3>2, WritersStay DEF Is
  <2>2. CASE orders[n] = NoRow
    <3>1. PICK r \in Requests : Handles(r)
      BY <1>2, <2>2, NoNewRows
    <3>2. /\ Is(r, "upload") /\ n = number[r] /\ orders'[n].user = user[r]
          /\ result'[r] \in {"created", "failed"}
      BY <1>2, <2>2, <3>1, WhatAHandlerWrites
    <3> QED
      BY <3>1, <3>2, HandleEffect DEF MayHaveWritten, Tells
  <2> QED
    BY <2>1, <2>2
<1>3. ASSUME NEW n \in Numbers, withdrawals'[n] # NoRow
      PROVE  \E r \in Requests :
               /\ Is(r, "withdraw") /\ number'[r] = n /\ MayHaveWritten(r)'
               /\ withdrawals'[n] = [user |-> user'[r], sum |-> Request[r].sum]
  <2>1. CASE withdrawals[n] # NoRow
    <3>1. PICK r \in Requests :
            /\ Is(r, "withdraw") /\ number[r] = n /\ MayHaveWritten(r)
            /\ withdrawals[n] = [user |-> user[r], sum |-> Request[r].sum]
      BY <2>1 DEF IInv, RowsWereAskedFor
    <3>2. withdrawals'[n] = withdrawals[n]
      BY <2>1, TablesGrow
    <3>3. MayHaveWritten(r)' /\ user'[r] = user[r] /\ number'[r] = number[r]
      BY <3>1, WritersStay DEF Is
    <3> QED
      BY <3>1, <3>2, <3>3
  <2>2. CASE withdrawals[n] = NoRow
    <3>1. PICK r \in Requests : Handles(r)
      BY <1>3, <2>2, NoNewRows
    <3>2. /\ Is(r, "withdraw") /\ n = number[r]
          /\ withdrawals'[n] = [user |-> user[r], sum |-> Request[r].sum]
          /\ result'[r] \in {"withdrawn", "failed"}
      BY <1>3, <2>2, <3>1, WhatAHandlerWrites
    <3>3. MayHaveWritten(r)' /\ user'[r] = user[r] /\ number'[r] = number[r]
      BY <3>1, <3>2, HandleEffect DEF MayHaveWritten, Tells
    <3> QED
      BY <3>2, <3>3
  <2> QED
    BY <2>1, <2>2
<1> QED
  BY <1>1, <1>2, <1>3 DEF RowsWereAskedFor, Registered, Uploaded

\* What a read follows is fixed when it is received.
LEMMA SeenStillCameBefore == ASSUME IInv, [Next]_vars PROVE SeenCameBefore'
<1> SUFFICES ASSUME NEW r \in Requests, NEW q \in before'[r]
             PROVE  /\ q \in Requests /\ phase'[r] # "unsent"
                    /\ Request[q].op \in Protected /\ user'[q] = user'[r]
                    /\ code'[q] \in {200, 202, 204}
  BY DEF SeenCameBefore
<1>1. ASSUME NEW p \in Requests, code[p] \in {200, 202, 204}
      PROVE  user'[p] = user[p] /\ code'[p] = code[p]
  BY <1>1, Kept DEF IInv, CallsAreFormed, Unanswered
<1>2. CASE Receive(r)
  <2>1. CASE UNCHANGED before
    BY <1>2, <2>1, ReceiveEffect DEF IInv, SeenCameBefore
  <2>2. CASE /\ phase'[r] = "store" /\ user'[r] = UserOf(r) /\ before'[r] = Seen(r, UserOf(r))
    BY <1>1, <2>2 DEF Seen
  <2> QED
    BY <1>2, <2>1, <2>2, ReceiveEffect
<1>3. CASE ~Receive(r)
  <2>1. before'[r] = before[r]
    <3>1. ASSUME NEW p \in Requests, Receive(p)
          PROVE  before'[r] = before[r]
      BY <1>3, <3>1, ReceiveEffect DEF Same
    <3> QED
      BY <3>1, HandleEffect, RespondEffect, Steps DEF calls
  <2> QED
    BY <1>1, <2>1, Kept DEF IInv, SeenCameBefore
<1> QED
  BY <1>2, <1>3

-----------------------------------------------------------------------------
(* What is read. *)

\* OrdersGrew is transitive.
LEMMA OrdersGrewTwice ==
  ASSUME NEW a, NEW b, NEW c, OrdersGrew(a, b), OrdersGrew(b, c)
  PROVE  OrdersGrew(a, c)
BY DEF OrdersGrew

\* The lists of a user only grow.
LEMMA ListsGrow ==
  ASSUME IInv, [Next]_vars, NEW u \in Users
  PROVE  /\ OrdersGrew(OrdersOf(u), OrdersOf(u)')
         /\ WithdrawalsOf(u) \subseteq WithdrawalsOf(u)'
<1>1. OrdersGrew(OrdersOf(u), OrdersOf(u)')
  <2> SUFFICES ASSUME NEW n \in Numbers, orders[n] # NoRow, orders[n].user = u
      PROVE  \E new \in OrdersOf(u)' :
               /\ new.number = n
               /\ IsFinal(orders[n].status) =>
                    new = [number |-> n, status |-> orders[n].status,
                           accrual |-> orders[n].accrual]
    BY DEF OrdersGrew, OrdersOf, L!OrdersOf, L!Uploaded
  <2>1. /\ orders'[n] # NoRow /\ orders'[n].user = u
        /\ IsFinal(orders[n].status) => orders'[n] = orders[n]
    BY TablesGrow DEF Uploaded
  <2>2. [number |-> n, status |-> orders'[n].status, accrual |-> orders'[n].accrual]
          \in OrdersOf(u)'
    BY <2>1 DEF OrdersOf, L!OrdersOf, L!Uploaded
  <2> QED
    BY <2>1, <2>2
<1>2. WithdrawalsOf(u) \subseteq WithdrawalsOf(u)'
  <2>1. \A n \in L!WithdrawalsOf(u) : n \in L!WithdrawalsOf(u)' /\ withdrawals'[n] = withdrawals[n]
    BY TablesGrow DEF L!WithdrawalsOf
  <2> QED
    BY <2>1 DEF WithdrawalsOf
<1> QED
  BY <1>1, <1>2

\* A view is the truth when it is read, and the tables grow from there.
LEMMA ViewsRemainTrue == ASSUME IInv, [Next]_vars PROVE ViewsStayTrue'
<1> SUFFICES ASSUME NEW r \in Requests, ShowsRows(r)'
             PROVE  (/\ Is(r, "orders") => OrdersGrew(view[r], OrdersOf(user[r]))
                     /\ Is(r, "withdrawals") => view[r] \subseteq WithdrawalsOf(user[r])
                     /\ Is(r, "balance") =>
                          view[r] \in UserRow /\ view[r].withdrawn <= users[user[r]].withdrawn)'
  BY DEF ViewsStayTrue
<1> DEFINE True(u, v) ==
       /\ Is(r, "orders") => OrdersGrew(v, OrdersOf(u))
       /\ Is(r, "withdrawals") => v \subseteq WithdrawalsOf(u)
       /\ Is(r, "balance") => v \in UserRow /\ v.withdrawn <= users[u].withdrawn
<1>1. Ready(r)' /\ (Handles(r) => phase[r] = "store") /\ (~Handles(r) => ShowsRows(r))
  <2>1. Handles(r) => Ready(r) /\ phase[r] = "store"
    BY HandleEffect, CallIsReady
  <2>2. ~Handles(r) => ShowsRows(r) /\ Ready(r) /\ phase[r] \in {"stored", "answered"}
    BY ToldEarlier, TellersAreReady
  <2> QED
    BY <2>1, <2>2, ReadyStays
<1>2. PICK u \in Users : u = user[r] /\ u = user'[r] /\ Registered(u)
  <2>1. user'[r] = user[r] /\ Ready(r)
    BY <1>1, HandleEffect, Kept, TellersAreReady, CallIsReady
  <2> QED
    BY <1>1, <2>1 DEF Ready, ShowsRows, Reads, Protected
<1>3. PICK v : v = view'[r]
  OBVIOUS
<1>4. True(u, v)
  <2>1. CASE Handles(r)
    <3>1. /\ Is(r, "orders") => v = OrdersOf(u)
          /\ Is(r, "withdrawals") => v = WithdrawalsOf(u)
          /\ Is(r, "balance") => v = users[u]
      BY <1>2, <1>3, <2>1, WhatAHandlerTells
    <3>2. OrdersGrew(OrdersOf(u), OrdersOf(u))
      BY DEF OrdersGrew
    <3>3. users[u] \in UserRow /\ users[u].withdrawn <= users[u].withdrawn
      BY <1>2 DEF IInv, TypeOK, TablesTypeOK, Registered, UserRow
    <3> QED
      BY <3>1, <3>2, <3>3
  <2>2. CASE ~Handles(r)
    <3>1. ShowsRows(r) /\ view'[r] = view[r]
      BY <1>1, <2>2, TellersAreReady, Kept
    <3> QED
      BY <1>2, <1>3, <3>1 DEF IInv, ViewsStayTrue
  <2> QED
    BY <2>1, <2>2
<1>5. Is(r, "orders") => OrdersGrew(v, OrdersOf(u)')
  BY <1>4, ListsGrow, OrdersGrewTwice
<1>6. Is(r, "withdrawals") => v \subseteq WithdrawalsOf(u)'
  BY <1>4, ListsGrow
<1>7. Is(r, "balance") => v \in UserRow /\ v.withdrawn <= users'[u].withdrawn
  <2>1. users[u].withdrawn <= users'[u].withdrawn /\ users[u] \in UserRow /\ users'[u] \in UserRow
    BY <1>2, TablesGrow, BooksStay DEF IInv, TypeOK, TablesTypeOK, Registered
  <2>2. users[u].withdrawn \in Int /\ users'[u].withdrawn \in Int
    BY <2>1 DEF UserRow
  <2>3. v \in UserRow => v.withdrawn \in Int
    BY DEF UserRow
  <2> QED
    BY <1>4, <2>1, <2>2, <2>3
<1> QED
  BY <1>2, <1>3, <1>5, <1>6, <1>7

\* A client that adds up a list of its withdrawals, or of some of them, comes to
\* what it has spent, or to less.
LEMMA TotalIsSpent ==
  ASSUME IInv, NEW u
  PROVE  /\ Total(WithdrawalsOf(u)) = LP!Spent(u)
         /\ \A rows \in SUBSET WithdrawalsOf(u) : Total(rows) <= LP!Spent(u)
<1> DEFINE list == {[order |-> n, sum |-> withdrawals[n].sum] : n \in LP!WithdrawalsOf(u)}
<1>1. /\ LP!SumFunction([row \in list |-> row.sum]) = LP!Spent(u)
      /\ \A part \in SUBSET list : LP!SumFunction([row \in part |-> row.sum]) <= LP!Spent(u)
  BY LP!ListAddsUp, LedgerAssumptions DEF IInv, LP!Books
<1>2. list = WithdrawalsOf(u)
  BY DEF WithdrawalsOf, L!WithdrawalsOf, LP!WithdrawalsOf
<1>3. ASSUME NEW f PROVE SumFunction(f) = LP!SumFunction(f)
  BY DEF SumFunction, SumFunctionOnSet, FoldFunctionOnSet, MapThenFoldSet,
         LP!SumFunction, LP!SumFunctionOnSet, LP!FoldFunctionOnSet, LP!MapThenFoldSet
<1> HIDE DEF list
<1> QED
  BY <1>1, <1>2, <1>3 DEF Total

\* What a read shows when its handler returns covers what was answered before.
LEMMA FreshViewCovers ==
  ASSUME IInv, [Next]_vars, NEW r \in Requests, Handles(r), ShowsRows(r)', NEW q \in before[r]
  PROVE  Covers(r, q)'
<1>0. /\ q \in Requests /\ q # r /\ user[q] = user[r] /\ phase[q] = "answered"
      /\ phase[r] = "store"
  BY HandleEffect DEF IInv, SeenCameBefore, CallsAreFormed, Unanswered
<1>1. PICK u \in Users : u = user[r] /\ u = user[q] /\ Registered(u)
  BY <1>0, CallIsReady DEF Ready, ShowsRows, Reads, Protected
<1>2. Same(q)
  BY <1>0, HandleEffect
<1>3. /\ SaysOwn(q)' => SaysOwn(q)
      /\ SaysWithdrawn(q)' => SaysWithdrawn(q)
      /\ ShowsRows(q)' => ShowsRows(q)
      /\ number'[q] = number[q] /\ view'[q] = view[q]
  BY <1>2 DEF Same, SaysOwn, SaysWithdrawn, ShowsRows, Tells
<1>4. /\ Is(r, "orders") => view'[r] = OrdersOf(u)
      /\ Is(r, "withdrawals") => view'[r] = WithdrawalsOf(u)
      /\ Is(r, "balance") => view'[r] = users[u]
  BY <1>1, WhatAHandlerTells
<1>5. SaysOwn(q) => \E row \in OrdersOf(u) : row.number = number[q]
  <2> SUFFICES ASSUME SaysOwn(q)
               PROVE  \E row \in OrdersOf(u) : row.number = number[q]
    OBVIOUS
  <2>1. number[q] \in Numbers
    BY <1>0, TellersAreReady DEF Ready, SaysOwn, Is
  <2>2. orders[number[q]] # NoRow /\ orders[number[q]].user = u
    BY <1>0, <1>1 DEF IInv, OutcomesAreTrue, Uploaded
  <2>3. PICK n \in L!OrdersOf(u) : n = number[q]
    BY <2>1, <2>2 DEF L!OrdersOf, L!Uploaded
  <2>4. [number |-> n, status |-> orders[n].status, accrual |-> orders[n].accrual]
          \in OrdersOf(u)
    BY <2>3 DEF OrdersOf
  <2> QED
    BY <2>3, <2>4
<1>6. ASSUME SaysWithdrawn(q)
      PROVE  /\ number[q] \in L!WithdrawalsOf(u)
             /\ withdrawals[number[q]].sum = Request[q].sum
  <2>1. number[q] \in Numbers /\ Request[q].sum \in Sums
    BY <1>0, <1>6, TellersAreReady DEF Ready, SaysWithdrawn, Is
  <2>2. withdrawals[number[q]] = [user |-> u, sum |-> Request[q].sum]
    BY <1>0, <1>1, <1>6 DEF IInv, OutcomesAreTrue
  <2>3. withdrawals[number[q]] # NoRow
    BY <2>1, <2>2, NullsAssumption DEF WithdrawalRow
  <2> QED
    BY <2>1, <2>2, <2>3 DEF L!WithdrawalsOf
<1>7. SaysWithdrawn(q) => [order |-> number[q], sum |-> Request[q].sum] \in WithdrawalsOf(u)
  BY <1>6 DEF WithdrawalsOf
<1>8. users[u].withdrawn = LP!Spent(u)
  BY <1>1 DEF IInv, LP!Books, LP!Conservation, LP!Registered, Registered
<1>9. SaysWithdrawn(q) => users[u].withdrawn >= Request[q].sum
  <2> SUFFICES ASSUME SaysWithdrawn(q)
               PROVE  users[u].withdrawn >= Request[q].sum
    OBVIOUS
  <2>1. PICK n \in LP!WithdrawalsOf(u) : n = number[q]
    BY <1>6 DEF LP!WithdrawalsOf, L!WithdrawalsOf
  <2>2. LP!TablesTypeOK /\ LP!FinitelyManyRows
    BY DEF IInv, LP!Books
  <2>3. withdrawals[n].sum <= LP!Spent(u)
    BY <2>2, LP!SpentCoversEach, LedgerAssumptions
  <2>4. \A sum \in Sums : sum \in Int
    BY AmountsAssumption DEF Sums
  <2>5. Request[q].sum \in Int
    BY <1>0, <2>4, TellersAreReady DEF Ready, SaysWithdrawn
  <2>6. users[u].withdrawn \in Int
    BY <1>1 DEF IInv, TypeOK, TablesTypeOK, Registered, UserRow
  <2> QED
    BY <1>6, <1>8, <2>1, <2>3, <2>5, <2>6
<1>10. ShowsRows(q) =>
         /\ Is(q, "orders") => OrdersGrew(view[q], OrdersOf(u))
         /\ Is(q, "withdrawals") => view[q] \subseteq WithdrawalsOf(u)
         /\ Is(q, "balance") => view[q].withdrawn <= users[u].withdrawn
  BY <1>0, <1>1 DEF IInv, ViewsStayTrue
<1>11. Total(WithdrawalsOf(u)) = users[u].withdrawn
  BY <1>8, TotalIsSpent
<1>12. ShowsRows(q) =>
         /\ Is(q, "withdrawals") => Total(view[q]) <= users[u].withdrawn
         /\ Is(q, "balance") => view[q].withdrawn <= Total(WithdrawalsOf(u))
  BY <1>8, <1>10, <1>11, TotalIsSpent
<1>13. Total(view[q])' = Total(view[q])
  BY <1>3 DEF Total
<1> QED
  BY <1>3, <1>4, <1>5, <1>7, <1>9, <1>10, <1>12, <1>13 DEF Covers, Total

\* Later steps change neither of the two views that are compared.
LEMMA ViewsStillCover == ASSUME IInv, [Next]_vars PROVE ViewsCoverWhatTheyFollow'
<1> SUFFICES ASSUME NEW r \in Requests, ShowsRows(r)', NEW q \in before'[r]
             PROVE  Covers(r, q)'
  BY DEF ViewsCoverWhatTheyFollow
<1>1. CASE Handles(r)
  BY <1>1, HandleEffect, FreshViewCovers
<1>2. CASE ~Handles(r)
  <2>1. ShowsRows(r) /\ before'[r] = before[r] /\ view'[r] = view[r]
    BY <1>2, ToldEarlier, TellersAreReady, Kept
  <2>2. q \in Requests /\ phase[q] = "answered"
    BY <2>1 DEF IInv, SeenCameBefore, CallsAreFormed, Unanswered
  <2>3. Covers(r, q)
    BY <2>1 DEF IInv, ViewsCoverWhatTheyFollow
  <2>4. /\ SaysOwn(q)' => SaysOwn(q)
        /\ SaysWithdrawn(q)' => SaysWithdrawn(q)
        /\ ShowsRows(q)' => ShowsRows(q)
        /\ number'[q] = number[q] /\ view'[q] = view[q]
    BY <2>2, ToldEarlier, HandleEffect, Kept
  <2> QED
    BY <2>1, <2>3, <2>4 DEF Covers, Total
<1> QED
  BY <1>1, <1>2

-----------------------------------------------------------------------------
(* The invariant. *)

\* The variables of the requests keep their types.
LEMMA CallsStayTyped ==
  ASSUME IInv, [Next]_vars
  PROVE  /\ user' \in [Requests -> Users \cup {Empty}]
         /\ number' \in [Requests -> Numbers \cup {Empty}]
         /\ phase' \in [Requests -> Phases]
         /\ result' \in [Requests -> Outcomes]
         /\ code' \in [Requests -> Codes]
         /\ before' \in [Requests -> SUBSET Requests]
         /\ view' = [r \in Requests |-> view'[r]]
         /\ passwords' = [u \in Users |-> passwords'[u]]
<1> USE DEF IInv, TypeOK
<1>1. ASSUME NEW r \in Requests, Receive(r), Refuse(r)
      PROVE  /\ UNCHANGED <<user, number, before, view, passwords>>
             /\ phase' \in [Requests -> Phases] /\ result' \in [Requests -> Outcomes]
             /\ code' \in [Requests -> Codes]
  BY <1>1, VerdictIs DEF Receive, Refuse, Answers, Phases, Outcomes, Codes, Dropped, Accepted
<1>2. ASSUME NEW r \in Requests, Receive(r), Accept(r)
      PROVE  /\ UNCHANGED <<code, result, view, passwords>>
             /\ phase' \in [Requests -> Phases]
             /\ user' \in [Requests -> Users \cup {Empty}]
             /\ number' \in [Requests -> Numbers \cup {Empty}]
             /\ before' \in [Requests -> SUBSET Requests]
  <2>1. UserOf(r) \in Users \cup {Empty}
    <3>1. Ready(r)'
      BY <1>2, CallsStayFormed DEF Accept, CallsAreFormed
    <3>2. user'[r] = UserOf(r)
      BY <1>2 DEF Accept
    <3> QED
      BY <3>1, <3>2 DEF Ready
  <2>2. Request[r].op \in {"upload", "withdraw"} => NumberOf(r) \in Numbers
    BY <1>2, AcceptedBody DEF Accept
  <2>3. Seen(r, UserOf(r)) \in SUBSET Requests
    BY DEF Seen
  <2> QED
    BY <1>2, <2>1, <2>2, <2>3 DEF Receive, Accept, Phases
<1>3. ASSUME NEW r \in Requests, Handles(r)
      PROVE  /\ UNCHANGED <<user, number, code, before>>
             /\ phase' \in [Requests -> Phases]
             /\ result' \in [Requests -> Outcomes]
             /\ view' = [q \in Requests |-> view'[q]]
             /\ passwords' = [u \in Users |-> passwords'[u]]
  <2>1. /\ UNCHANGED <<user, number, code, before>>
        /\ result'[r] \in Outcomes
    BY <1>3, HandleEffect, CodesOfOutcomes, RequestsAssumption
  <2>2. \E o : Returns(r, o)
    BY <1>3 DEF Handles, Register, Login, UploadOrder, ListOrders, GetBalance, Withdraw,
                ListWithdrawals, StoreFails, Writes, Finds, Shows
  <2>3. phase' \in [Requests -> Phases] /\ result' \in [Requests -> Outcomes]
    BY <2>1, <2>2 DEF Returns, Phases
  <2>4. view' = [q \in Requests |-> view'[q]]
    <3>1. view' = view \/ \E rows : view' = [view EXCEPT ![r] = rows]
      BY <1>3 DEF Handles, Register, Login, UploadOrder, ListOrders, GetBalance, Withdraw,
                  ListWithdrawals, StoreFails, Writes, Finds, Shows
    <3> QED
      BY <3>1
  <2>5. passwords' = [u \in Users |-> passwords'[u]]
    BY <1>3, WhatAHandlerWrites
  <2> QED
    BY <2>1, <2>3, <2>4, <2>5
<1>4. ASSUME NEW r \in Requests, Respond(r)
      PROVE  /\ UNCHANGED <<user, number, before, view, passwords>>
             /\ phase' \in [Requests -> Phases]
             /\ result' \in [Requests -> Outcomes]
             /\ code' \in [Requests -> Codes]
  <2>1. CodeOf[Request[r].op][result[r]] \in Codes
    BY <1>4, CodesOfOutcomes, RequestsAssumption DEF CallsAreFormed, Respond, Codes
  <2> QED
    BY <1>4, <2>1 DEF Respond, Answers, Phases, Outcomes, Codes
<1>5. CASE UNCHANGED <<passwords, calls>>
  BY <1>5 DEF calls
<1>6. CASE \E r \in Requests : Receive(r)
  BY <1>1, <1>2, <1>6 DEF Receive
<1>7. CASE \E r \in Requests : Handles(r)
  BY <1>3, <1>7
<1>8. CASE \E r \in Requests : Respond(r)
  BY <1>4, <1>8
<1> QED
  BY <1>5, <1>6, <1>7, <1>8, Steps

\* A registered user has a password, and only issued tokens expire.
LEMMA TypesStay == ASSUME IInv, [Next]_vars PROVE TypeOK'
<1>1. ASSUME NEW u \in Users
      PROVE  users'[u] # NoRow <=> passwords'[u] # Empty
  <2>1. users[u] # NoRow <=> passwords[u] # Empty
    BY DEF IInv, TypeOK, Registered
  <2>2. CASE users[u] # NoRow
    BY <2>1, <2>2, TablesGrow, PasswordsStay DEF Registered
  <2>3. CASE users[u] = NoRow /\ \A r \in Requests : ~Handles(r)
    BY <2>1, <2>3, NoNewRows
  <2>4. ASSUME users[u] = NoRow, NEW r \in Requests, Handles(r)
        PROVE  users'[u] # NoRow <=> passwords'[u] # Empty
    <3>1. CASE UNCHANGED passwords /\ users'[u] = NoRow
      BY <2>1, <2>4, <3>1
    <3>2. CASE /\ Is(r, "register") /\ users'[user[r]] # NoRow
               /\ passwords' = [passwords EXCEPT ![user[r]] = PasswordOf(r)]
      <4>1. u = user[r] => passwords'[u] = PasswordOf(r) /\ PasswordOf(r) # Empty
        BY <2>4, <3>2, HandleEffect, CallIsReady DEF Ready, Is, Credentialed, IInv
      <4>2. u # user[r] => passwords'[u] = passwords[u] /\ users'[u] = NoRow
        BY <2>4, <3>2, WhatAHandlerWrites DEF IInv
      <4> QED
        BY <2>1, <2>4, <3>2, <4>1, <4>2
    <3> QED
      BY <2>4, <3>1, <3>2, WhatAHandlerWrites
  <2> QED
    BY <2>2, <2>3, <2>4
<1>2. expired' \subseteq Issued'
  <2>1. Issued \subseteq Issued'
    BY Kept DEF Issued, IInv, CallsAreFormed, Unanswered
  <2>2. expired' = expired \/ \E t \in Issued : expired' = expired \cup {t}
    <3>1. CASE \E made \in Workloads : Sent \subseteq made /\ \E r \in made : Receive(r)
      BY <3>1 DEF Receive
    <3>2. CASE \E r \in Sent : Serve(r)
      BY <3>2, HandleEffect, RespondEffect DEF Serve, Handles, Sent
    <3>3. CASE \E t \in Issued : Expire(t)
      BY <3>3 DEF Expire
    <3>4. CASE \E n \in Numbers, answer \in AccrualAnswers :
                 ApplyAccrualResult(n, answer.status, answer.accrual)
      BY <3>4 DEF ApplyAccrualResult
    <3> QED
      BY <3>1, <3>2, <3>3, <3>4 DEF Next, vars
  <2> QED
    BY <2>1, <2>2 DEF IInv, TypeOK
<1>3. /\ \A r \in Requests : phase'[r] = "stored" => result'[r] # "none"
      /\ \A r \in Requests : code'[r] # Unanswered => phase'[r] = "answered"
  <2>1. \A r \in Requests : phase'[r] = "stored" => result'[r] \in DOMAIN CodeOf[Request[r].op]
    BY CallsStayFormed DEF CallsAreFormed
  <2>2. \A r \in Requests : phase'[r] = "stored" => result'[r] # "none"
    BY <2>1, CodesOfOutcomes, RequestsAssumption
  <2> QED
    BY <2>2, CallsStayFormed DEF CallsAreFormed
<1> QED
  BY <1>1, <1>2, <1>3, BooksStay, CallsStayTyped DEF TypeOK, Registered, Sent

\* All parts together: IInv is inductive.
LEMMA InvStays == ASSUME IInv, [Next]_vars PROVE IInv'
BY BooksStay, CallsStayTyped, TypesStay, CallsStayFormed, OutcomesStayTrue,
   OutcomesStayUnique, RowsStayAskedFor, SeenStillCameBefore, ViewsRemainTrue,
   ViewsStillCover
DEF IInv

\* Before the first request there is nothing to be told.
LEMMA InvInit == ASSUME Init PROVE IInv
<1>1. LP!Books
  <2>1. LP!TablesInit
    BY DEF Init, TablesInit, LP!TablesInit
  <2> QED
    BY <2>1, LP!InitBooks, LedgerAssumptions
<1>2. \A r \in Requests : /\ phase[r] = "unsent" /\ code[r] = Unanswered
                          /\ before[r] = {} /\ result[r] = "none"
  BY DEF Init
<1>3. TypeOK
  BY DEF Init, TypeOK, TablesInit, TablesTypeOK, Registered, Phases, Outcomes, Codes, Sent
<1>4. CallsAreFormed
  BY <1>2 DEF CallsAreFormed, Unanswered, AnswersOfAccepted
<1>5. \A r \in Requests : ~ (\/ SaysRegistered(r) \/ LetsIn(r) \/ SaysAccepted(r) \/ SaysOwn(r)
                             \/ SaysAnother(r) \/ SaysWithdrawn(r) \/ ShowsRows(r))
  BY <1>2 DEF SaysRegistered, LetsIn, SaysAccepted, SaysOwn, SaysAnother, SaysWithdrawn,
              ShowsRows, Tells
<1>6. RowsWereAskedFor
  BY DEF Init, TablesInit, RowsWereAskedFor, Registered, Uploaded
<1>7. SeenCameBefore
  BY <1>2 DEF SeenCameBefore
<1>8. /\ view = [r \in Requests |-> view[r]]
      /\ passwords = [u \in Users |-> passwords[u]]
  BY DEF Init
<1> QED
  BY <1>1, <1>3, <1>4, <1>5, <1>6, <1>7, <1>8
  DEF IInv, OutcomesAreTrue, OutcomesAreUnique, ViewsStayTrue, ViewsCoverWhatTheyFollow

\* The inductive invariant holds in every run of the API.
THEOREM InvHolds == Spec => []IInv
<1>1. Init => IInv
  BY InvInit
<1>2. IInv /\ [Next]_vars => IInv'
  BY InvStays
<1> QED
  BY <1>1, <1>2, PTL DEF Spec

-----------------------------------------------------------------------------
(* What it says. *)

\* Every variable has its type; a user is registered if and only if it has a
\* password, and a token expires only after it was issued.
THEOREM TypeCorrect == Spec => []TypeOK
<1>1. IInv => TypeOK
  BY DEF IInv
<1> QED
  BY <1>1, InvHolds, PTL

\* A status code tells what the outcome behind it told.
LEMMA Told ==
  ASSUME IInv, NEW r \in Requests, code[r] # Unanswered
  PROVE  /\ phase[r] = "answered"
         /\ Request[r].op \in Credentialed /\ code[r] = 200 => LetsIn(r)
         /\ Answered(r, "register", {200}) => SaysRegistered(r)
         /\ Answered(r, "upload", {200, 202}) => SaysOwn(r)
         /\ Answered(r, "upload", {202}) => SaysAccepted(r)
         /\ Answered(r, "upload", {409}) => SaysAnother(r)
         /\ Answered(r, "withdraw", {200}) => SaysWithdrawn(r)
         /\ \A op \in Reads : Read(r, op) => ShowsRows(r) /\ Is(r, op)
BY DEF IInv, CallsAreFormed, Answered, Read, Is, Credentialed, Tells, SaysRegistered, LetsIn,
       SaysAccepted, SaysOwn, SaysAnother, SaysWithdrawn, ShowsRows

\* Register and Login give a token only for the password that the login was
\* registered with, however registrations and logins overlap.
THEOREM SessionsHold == Spec => []SessionsNeedThePassword
<1>1. ASSUME IInv, NEW t \in Issued
      PROVE  Registered(user[t]) /\ passwords[user[t]] = PasswordOf(t)
  <2>1. t \in Requests /\ LetsIn(t)
    BY <1>1, Told DEF Issued, Unanswered
  <2> QED
    BY <1>1, <2>1 DEF IInv, OutcomesAreTrue
<1>2. IInv => SessionsNeedThePassword
  BY <1>1 DEF SessionsNeedThePassword
<1> QED
  BY <1>2, InvHolds, PTL

\* The codes of UploadOrder and Withdraw tell the truth about the tables, then and
\* ever after.
THEOREM CodesHold == Spec => []CodesAreTrue
<1>1. ASSUME IInv, NEW r \in Requests, code[r] # Unanswered
      PROVE  /\ Answered(r, "upload", {200, 202}) =>
                  Uploaded(number[r]) /\ orders[number[r]].user = user[r]
             /\ Answered(r, "upload", {409}) =>
                  Uploaded(number[r]) /\ orders[number[r]].user # user[r]
             /\ Answered(r, "withdraw", {200}) =>
                  withdrawals[number[r]] = [user |-> user[r], sum |-> Request[r].sum]
  BY <1>1, Told DEF IInv, OutcomesAreTrue
<1>2. IInv => CodesAreTrue
  BY <1>1 DEF CodesAreTrue, Sent, Answered, Unanswered
<1> QED
  BY <1>2, InvHolds, PTL

\* An order, a payment and a login are each given out by one answer only, among
\* any number of requests in flight.
THEOREM AcceptedOnceHolds == Spec => []AcceptedOnce
<1>1. IInv => AcceptedOnce
  <2> SUFFICES ASSUME IInv, NEW q \in Requests, NEW r \in Requests, q # r,
                      code[q] # Unanswered, code[r] # Unanswered
      PROVE  /\ Answered(q, "upload", {202}) /\ Answered(r, "upload", {202})
                  => number[q] # number[r]
             /\ Answered(q, "withdraw", {200}) /\ Answered(r, "withdraw", {200})
                  => number[q] # number[r]
             /\ Answered(q, "register", {200}) /\ Answered(r, "register", {200})
                  => user[q] # user[r]
    BY DEF AcceptedOnce, Sent, Unanswered
  <2> QED
    BY Told DEF IInv, OutcomesAreUnique
<1> QED
  BY <1>1, InvHolds, PTL

\* A refused request leaves nothing behind: every row is owed to a request that was
\* not refused.
THEOREM RefusalsHold == Spec => []RefusalLeavesNothing
<1>1. ASSUME IInv, NEW r \in Requests, MayHaveWritten(r)
      PROVE  r \in Sent /\ code[r] \notin Refusals
  BY <1>1 DEF IInv, CallsAreFormed, MayHaveWritten, Tells, Sent, Refusals, Unanswered
<1>2. IInv => RefusalLeavesNothing
  BY <1>1 DEF RefusalLeavesNothing, IInv, RowsWereAskedFor
<1> QED
  BY <1>2, InvHolds, PTL

\* An answered read covers what was answered before it.
LEMMA AnsweredReadCovers ==
  ASSUME IInv, NEW r \in Requests, NEW op \in Reads, Read(r, op), NEW q \in before[r]
  PROVE  /\ q \in Requests /\ code[q] # Unanswered /\ code[r] # Unanswered
         /\ Covers(r, q) /\ Is(r, op)
<1>1. code[r] # Unanswered
  BY DEF Read, Answered, Unanswered
<1>2. ShowsRows(r) /\ Is(r, op)
  BY <1>1, Told
<1>3. q \in Requests /\ code[q] # Unanswered
  BY DEF IInv, SeenCameBefore, Unanswered
<1>4. Covers(r, q)
  BY <1>2 DEF IInv, ViewsCoverWhatTheyFollow
<1> QED
  BY <1>1, <1>2, <1>3, <1>4

\* ListOrders, ListWithdrawals and GetBalance show what the client was told before.
THEOREM ReadsHold == Spec => []ReadsShowWhatWasAnswered
<1>1. IInv => ReadsShowWhatWasAnswered
  <2> SUFFICES ASSUME IInv, NEW r \in Requests, NEW q \in before[r]
      PROVE  /\ Answered(q, "upload", {200, 202}) /\ Read(r, "orders")
                  => \E row \in view[r] : row.number = number[q]
             /\ Answered(q, "withdraw", {200}) /\ Read(r, "withdrawals")
                  => [order |-> number[q], sum |-> Request[q].sum] \in view[r]
             /\ Answered(q, "withdraw", {200}) /\ Read(r, "balance")
                  => view[r].withdrawn >= Request[q].sum
    BY DEF ReadsShowWhatWasAnswered, Sent
  <2> QED
    BY AnsweredReadCovers, Told DEF Covers, Reads
<1> QED
  BY <1>1, InvHolds, PTL

\* Two lists that a client reads one after the other never contradict each other.
THEOREM ListsHold == Spec => []ListsOnlyGrow
<1>1. IInv => ListsOnlyGrow
  <2> SUFFICES ASSUME IInv, NEW r \in Requests, NEW q \in before[r]
      PROVE  /\ Read(q, "orders") /\ Read(r, "orders") =>
                  \A old \in view[q] : \E new \in view[r] :
                    new.number = old.number /\ (IsFinal(old.status) => new = old)
             /\ Read(q, "withdrawals") /\ Read(r, "withdrawals") => view[q] \subseteq view[r]
    BY DEF ListsOnlyGrow, Sent
  <2> QED
    BY AnsweredReadCovers, Told DEF Covers, OrdersGrew, Reads
<1> QED
  BY <1>1, InvHolds, PTL

\* The balance and the history of withdrawals explain each other, whichever of
\* them is read first: the sum of the rows is the column of the balance.
THEOREM HistoryHolds == Spec => []HistoryExplainsBalance
<1>1. IInv => HistoryExplainsBalance
  <2> SUFFICES ASSUME IInv, NEW r \in Requests, NEW q \in before[r]
      PROVE  /\ Read(q, "balance") /\ Read(r, "withdrawals")
                  => view[q].withdrawn <= Total(view[r])
             /\ Read(q, "withdrawals") /\ Read(r, "balance")
                  => Total(view[q]) <= view[r].withdrawn
    BY DEF HistoryExplainsBalance, Sent
  <2> QED
    BY AnsweredReadCovers, Told DEF Covers, Reads
<1> QED
  BY <1>1, InvHolds, PTL

\* The API makes no step on the tables that the ledger does not have.
THEOREM ImplementsLedger == Spec => L!Spec
<1>1. Init => L!TablesInit
  BY DEF Init, TablesInit, L!TablesInit
<1>2. IInv /\ [Next]_vars => [L!Next]_(L!tables)
  BY LedgerStep DEF tables, L!tables
<1> QED
  BY <1>1, <1>2, InvHolds, PTL DEF Spec, L!Spec
=============================================================================
