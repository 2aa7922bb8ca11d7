------------------------------- MODULE Config -------------------------------
(***************************************************************************)
(* internal/config/config.go: defaults, then flags, then the environment,  *)
(* normalized and validated.                                               *)
(*                                                                         *)
(* A text is a record: who set it, whether nothing is left of it when the  *)
(* spaces around it are trimmed, whether there are spaces, how many times  *)
(* it has a scheme in front, and whether pgx finds a host, a database, a   *)
(* user and a password in it.  A number or a duration is its value.  What  *)
(* cannot be parsed is Malformed, and what is not given is Unset.          *)
(***************************************************************************)
EXTENDS Integers

CONSTANTS Malformed, Unset \* two values

Texts == {"RunAddress", "DatabaseURI", "AccrualSystemAddress", "LogLevel",
          "LogFilename", "JWTSecret"}
Durations == {"TokenTTL", "PollInterval", "ShutdownTimeout"}
Numbers == Durations \cup {"AccrualConcurrency"}
Parameters == Texts \cup Numbers \cup {"Local"}

Text(from, empty, spaces, schemes, complete) ==
  [from |-> from, empty |-> empty, spaces |-> spaces, schemes |-> schemes,
   complete |-> complete]

NoText == Text("default", TRUE, FALSE, 0, FALSE)

defaultConfig ==
  [p \in Parameters |->
     CASE p \in {"DatabaseURI", "AccrualSystemAddress", "LogFilename"} -> NoText
       [] p \in Texts \ {"DatabaseURI", "AccrualSystemAddress", "LogFilename"} ->
            Text("default", FALSE, FALSE, 0, FALSE)
       [] p \in Numbers -> 5
       [] p = "Local" -> FALSE]

\* strings.TrimSpace
TrimSpace(text) == [text EXCEPT !.spaces = FALSE]

\* flags: the value of each, or Unset.  One that cannot be parsed ends the parsing.
parseFlags(c, flags) ==
  [p \in Parameters |-> IF flags[p] = Unset THEN c[p] ELSE flags[p]]

\* Mutant: a variable that is empty does not count.
ApplyEnvUnlessEmpty(c, env) ==
  [p \in Parameters |->
     IF env[p] = Unset THEN c[p]
     ELSE IF p \in Texts THEN IF env[p].empty THEN c[p] ELSE TrimSpace(env[p])
     ELSE env[p]]

applyEnv(c, env) ==
  [p \in Parameters |->
     IF env[p] = Unset THEN c[p]
     ELSE IF p \in Texts THEN TrimSpace(env[p]) ELSE env[p]]

\* strings.HasPrefix: the spaces hide what comes after them.
HasScheme(address) == address.schemes > 0 /\ ~address.spaces

normalizeHTTPAddress(address) ==
  IF address.empty \/ HasScheme(address) THEN address
  ELSE [address EXCEPT !.schemes = @ + 1, !.spaces = FALSE]

\* Mutant: the scheme is looked for before the spaces are trimmed.
NormalizeUntrimmed(c) ==
  [p \in Parameters |->
     IF p = "AccrualSystemAddress" THEN normalizeHTTPAddress(c[p])
     ELSE IF p \in Texts THEN TrimSpace(c[p]) ELSE c[p]]

normalize(c) ==
  [p \in Parameters |->
     IF p = "AccrualSystemAddress" THEN normalizeHTTPAddress(TrimSpace(c[p]))
     ELSE IF p \in Texts THEN TrimSpace(c[p]) ELSE c[p]]

\* Mutant: zero is taken for a duration.
ValidateNotNegative(c) ==
  /\ \A p \in Texts \ {"LogFilename"} : ~c[p].empty
  /\ c["DatabaseURI"].complete
  /\ \A p \in Numbers : c[p] >= 0

validate(c) ==
  /\ \A p \in Texts \ {"LogFilename"} : ~c[p].empty
  /\ c["DatabaseURI"].complete
  /\ \A p \in Numbers : c[p] > 0

Parsable(source) == \A p \in Parameters : source[p] # Malformed

Sourced(flags, env) == normalize(applyEnv(parseFlags(defaultConfig, flags), env))

\* New returns Sourced, or an error.
Accepts(flags, env) ==
  Parsable(flags) /\ Parsable(env) /\ validate(Sourced(flags, env))
=============================================================================
