------------------------------ MODULE Password ------------------------------
(***************************************************************************)
(* internal/auth/password.go.  HMAC-SHA256 is a free constructor: two      *)
(* codes are equal only if their keys and their data are.  The exclusive   *)
(* or of codes is the set of those that occur in it an odd number of times.*)
(***************************************************************************)
EXTENDS Integers, Sequences, FiniteSetsExt

CONSTANT HashSize \* sha256.Size, positive

\* What strings.TrimSpace leaves nothing of.
Blank == "blank"

hmacSHA256(key, data) == [hmac |-> key, of |-> data]

appendBlockIndex(salt, block) == [salt |-> salt, block |-> block]

Xor(s, t) == (s \ t) \cup (t \ s)

\* One turn of the inner loop.
Iterated(password, loop) ==
  LET u == hmacSHA256(password, loop.u) IN [u |-> u, t |-> Xor(loop.t, {u})]

\* The loop over so many turns, from the first code.
Chained(password, first, turns) ==
  FoldSet(LAMBDA i, loop : Iterated(password, loop), [u |-> first, t |-> {first}],
          1 .. turns)

\* Mutant: the loop makes one turn more.
BlockTooLong(password, salt, iterations, block) ==
  Chained(password, hmacSHA256(password, appendBlockIndex(salt, block)), iterations).t

Block(password, salt, iterations, block) ==
  Chained(password, hmacSHA256(password, appendBlockIndex(salt, block)), iterations - 1).t

\* The first keyLength bytes of the blocks; a byte is its block and its place.
derivePBKDF2SHA256(password, salt, iterations, keyLength) ==
  [i \in 1 .. keyLength |->
     [block |-> Block(password, salt, iterations, 1 + (i - 1) \div HashSize),
      byte |-> (i - 1) % HashSize]]

\* manager: iterations and keyLength; the salt is read from crypto/rand.
Hash(manager, salt, password) ==
  IF password = Blank
    THEN <<>>
    ELSE <<"pbkdf2", "sha256", manager.iterations, salt,
           derivePBKDF2SHA256(password, salt, manager.iterations, manager.keyLength)>>

\* Mutant: the manager's own parameters are used.
CompareWithOwn(manager, encoded, password) ==
  /\ Len(encoded) = 5 /\ encoded[1] = "pbkdf2" /\ encoded[2] = "sha256"
  /\ encoded[3] > 0
  /\ derivePBKDF2SHA256(password, encoded[4], manager.iterations, Len(encoded[5]))
       = encoded[5]

\* TRUE for (true, nil).  The parameters are those of the stored text.
Compare(manager, encoded, password) ==
  /\ Len(encoded) = 5 /\ encoded[1] = "pbkdf2" /\ encoded[2] = "sha256"
  /\ encoded[3] > 0
  /\ derivePBKDF2SHA256(password, encoded[4], encoded[3], Len(encoded[5])) = encoded[5]
=============================================================================
