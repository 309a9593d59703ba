--------------------------- MODULE HashingProofs ----------------------------
(***************************************************************************)
(* What the randomness, the proof of work and the commitments make of      *)
(* hashes.                                                                 *)
(*                                                                         *)
(* For any digest size, any sizes of requests and any data mixed into the  *)
(* seed: the buffer of spare bytes never overflows, no byte is delivered   *)
(* twice, and what is delivered depends on everything mixed in before.     *)
(*                                                                         *)
(* The nonce that ProofOfWorkProver::Prove returns is the smallest one the *)
(* search can reach, for any width of the nonces, any chunk size and any   *)
(* number of tasks.                                                        *)
(*                                                                         *)
(* The root of a table is the same for any way to cut it into segments and *)
(* tasks, any order in which these are added and any number of levels kept *)
(* in memory, and cutting it never makes a table fail.                     *)
(*                                                                         *)
(* And for any queries into such a table, the verifier reads what was sent *)
(* as what it was sent, accepts the committed rows and nothing else, and   *)
(* is sent nothing that it has or can compute.                             *)
(***************************************************************************)
EXTENDS HashChain, ProofOfWork, CommitmentScheme, Foundations
-----------------------------------------------------------------------------
(* The stream of random bytes. *)

Delivered == used \union RangeOf(out)

(* A byte comes from the current seed and an earlier block, or from a seed *)
(* with less mixed into it.                                                *)
Past(b) == /\ Len(b[1]) <= Len(digest)
           /\ b[1] = digest => b[2] < counter

PastInv == \A b \in Delivered : Past(b)

(* The spare bytes are of the current seed, and not delivered yet. *)
SpareInv ==
  /\ \A i \in 1..numSpare : /\ spare[i] \in Bytes
                            /\ spare[i][1] = digest
                            /\ spare[i][2] < counter
                            /\ spare[i] \notin Delivered
  /\ \A i, j \in 1..numSpare : spare[i] = spare[j] => i = j

(* The last thing hashed into the seed was mixed with the increment. *)
SeedInv == digest # <<>> => digest[Len(digest)][1] = 1

IInv == /\ TypeOK /\ SpareFits /\ PastInv /\ SpareInv /\ SeedInv
        /\ NoByteTwice /\ FreshAfterMix
-----------------------------------------------------------------------------
LEMMA Division ==
  ASSUME NEW n \in Nat
  PROVE  /\ n \div D \in Nat /\ n % D \in 0..(D - 1)
         /\ n = D * (n \div D) + (n % D)
BY DigestAssumption

LEMMA Product ==
  ASSUME NEW a \in Nat, NEW b \in Nat
  PROVE  /\ a * D \in Nat
         /\ a <= b => D * a <= D * b
         /\ a * D = D * a
BY DigestAssumption

(* The whole blocks are new bytes, and all different. *)
LEMMA Whole ==
  ASSUME TypeOK, NEW n \in Nat
  PROVE  /\ FullBlocks(n) * D \in Nat /\ FullBlocks(n) \in Nat
         /\ TailBytes(n) \in 0..(D - 1)
         /\ WholeBlocks(n) \in Seq(Bytes)
         /\ Len(WholeBlocks(n)) = FullBlocks(n) * D
         /\ \A i \in 1..(FullBlocks(n) * D) :
              /\ WholeBlocks(n)[i] \in Bytes
              /\ WholeBlocks(n)[i][1] = digest
              /\ counter <= WholeBlocks(n)[i][2]
              /\ WholeBlocks(n)[i][2] < counter + FullBlocks(n)
         /\ \A i, j \in 1..(FullBlocks(n) * D) :
              WholeBlocks(n)[i] = WholeBlocks(n)[j] => i = j
<1>. DEFINE F == FullBlocks(n)
<1>0. F \in Nat /\ TailBytes(n) \in 0..(D - 1) /\ F * D \in Nat
  BY Division, Product DEF FullBlocks, TailBytes
<1>1. ASSUME NEW i \in 1..(F * D)
      PROVE  /\ i - 1 \in Nat /\ (i - 1) \div D \in Nat
             /\ (i - 1) \div D < F
             /\ ((i - 1) % D) + 1 \in 1..D
             /\ i - 1 = D * ((i - 1) \div D) + ((i - 1) % D)
  <2>1. i - 1 \in Nat /\ i - 1 < F * D
    BY <1>0
  <2>2. /\ (i - 1) \div D \in Nat /\ (i - 1) % D \in 0..(D - 1)
        /\ i - 1 = D * ((i - 1) \div D) + ((i - 1) % D)
    BY <2>1, Division
  <2>3. F <= (i - 1) \div D => D * F <= D * ((i - 1) \div D)
    BY <2>2, <1>0, Product
  <2>4. F * D = D * F
    BY <1>0, Product
  <2>5. D * ((i - 1) \div D) \in Nat /\ D * F \in Nat
    BY <2>2, <1>0, Product
  <2>6. (i - 1) \div D < F
    BY <2>1, <2>2, <2>3, <2>4, <2>5, <1>0
  <2>. QED BY <2>1, <2>2, <2>6, DigestAssumption
<1>2. \A i \in 1..(F * D) :
        WholeBlocks(n)[i] = <<digest, counter + ((i - 1) \div D), ((i - 1) % D) + 1>>
  BY <1>0 DEF WholeBlocks
<1>3. \A i \in 1..(F * D) :
        /\ WholeBlocks(n)[i] \in Bytes
        /\ WholeBlocks(n)[i][1] = digest
        /\ counter <= WholeBlocks(n)[i][2]
        /\ WholeBlocks(n)[i][2] < counter + F
  <2>1. TAKE i \in 1..(F * D)
  <2>. DEFINE q == (i - 1) \div D
              r == ((i - 1) % D) + 1
  <2>2. WholeBlocks(n)[i] = <<digest, counter + q, r>>
    BY <1>2
  <2>3. q \in Nat /\ q < F /\ r \in 1..D
    BY <1>1
  <2>4. digest \in Digests /\ counter \in Nat
    BY DEF TypeOK
  <2>5. counter + q \in Nat /\ counter <= counter + q /\ counter + q < counter + F
    BY <2>3, <2>4, <1>0
  <2>. HIDE DEF q, r
  <2>6. <<digest, counter + q, r>> \in Bytes
    BY <2>3, <2>4, <2>5 DEF Bytes
  <2>. QED BY <2>2, <2>5, <2>6
<1>4. ASSUME NEW i \in 1..(F * D), NEW j \in 1..(F * D),
             WholeBlocks(n)[i] = WholeBlocks(n)[j]
      PROVE  i = j
  <2>1. /\ counter + ((i - 1) \div D) = counter + ((j - 1) \div D)
        /\ ((i - 1) % D) + 1 = ((j - 1) % D) + 1
    BY <1>2, <1>4
  <2>2. (i - 1) \div D = (j - 1) \div D
    BY <2>1, <1>1 DEF TypeOK
  <2>3. (i - 1) % D = (j - 1) % D
    BY <2>1, <1>1, DigestAssumption
  <2>4. i - 1 = j - 1
    BY <2>2, <2>3, <1>1
  <2>. QED BY <2>4, <1>0
<1>5. WholeBlocks(n) \in Seq(Bytes) /\ Len(WholeBlocks(n)) = F * D
  <2>1. WholeBlocks(n) \in [1..(F * D) -> Bytes]
    BY <1>3 DEF WholeBlocks
  <2>. QED BY <2>1, <1>0
<1>. QED BY <1>0, <1>3, <1>4, <1>5

(* What a request delivers: the whole blocks, then the tail. *)
LEMMA Concatenation ==
  ASSUME NEW W \in Seq(Bytes), NEW S \in Seq(Bytes)
  PROVE  /\ W \o S \in Seq(Bytes)
         /\ DOMAIN (W \o S) = 1..(Len(W) + Len(S))
         /\ \A i \in DOMAIN (W \o S) :
              \/ i \in 1..Len(W) /\ (W \o S)[i] = W[i]
              \/ i - Len(W) \in 1..Len(S) /\ (W \o S)[i] = S[i - Len(W)]
<1>1. /\ W \o S \in Seq(Bytes) /\ Len(W \o S) = Len(W) + Len(S)
      /\ Len(W) \in Nat /\ Len(S) \in Nat
  OBVIOUS
<1>2. DOMAIN (W \o S) = 1..(Len(W) + Len(S))
  BY <1>1
<1>3. \A i \in 1..(Len(W) + Len(S)) :
        (W \o S)[i] = IF i <= Len(W) THEN W[i] ELSE S[i - Len(W)]
  OBVIOUS
<1>. QED BY <1>1, <1>2, <1>3

(* The bytes of one request are new and different from each other when     *)
(* those of the tail are, and when the tail comes from the spare bytes or  *)
(* from a block above the whole ones.                                      *)
LEMMA NewBytes ==
  ASSUME IInv, NEW n \in Nat, NEW S \in Seq(Bytes),
         out' = WholeBlocks(n) \o S, digest' = digest,
         \A i \in 1..Len(S) : S[i][1] = digest /\ S[i] \notin Delivered,
         \A i \in 1..Len(S) : S[i][2] < counter \/ S[i][2] = counter + FullBlocks(n),
         \A i, j \in 1..Len(S) : S[i] = S[j] => i = j
  PROVE  /\ out' \in Seq(Bytes)
         /\ \A i \in DOMAIN out' : out'[i] \notin Delivered /\ out'[i][1] = digest
         /\ \A i, j \in DOMAIN out' : out'[i] = out'[j] => i = j
         /\ \A b \in RangeOf(out)' : \/ \E i \in 1..Len(S) : b = S[i]
                                     \/ /\ counter <= b[2] /\ b[2] < counter + FullBlocks(n)
                                        /\ b[1] = digest
<1>. DEFINE W == WholeBlocks(n)
            w == Len(W)
<1>0. TypeOK /\ PastInv
  BY DEF IInv
<1>1. /\ W \in Seq(Bytes) /\ w \in Nat
      /\ \A i \in 1..w : /\ W[i] \in Bytes /\ W[i][1] = digest
                         /\ counter <= W[i][2] /\ W[i][2] < counter + FullBlocks(n)
      /\ \A i, j \in 1..w : W[i] = W[j] => i = j
  BY <1>0, Whole
<1>2. counter \in Nat /\ FullBlocks(n) \in Nat
  BY <1>0, Whole DEF TypeOK
<1>3. \A b \in Bytes : b[2] \in Nat
  BY DEF Bytes
<1>4. \A i \in 1..w : W[i] \notin Delivered
  <2>1. TAKE i \in 1..w
  <2>2. SUFFICES ASSUME W[i] \in Delivered PROVE FALSE
    OBVIOUS
  <2>3. W[i][2] < counter
    BY <2>2, <1>0, <1>1 DEF PastInv, Past
  <2>4. counter <= W[i][2] /\ W[i] \in Bytes
    BY <1>1
  <2>5. W[i][2] \in Nat
    BY <1>3, <2>4
  <2>. HIDE DEF W
  <2>. QED BY <2>3, <2>4, <2>5, <1>2
<1>. HIDE DEF W
<1>5. /\ out' \in Seq(Bytes)
      /\ DOMAIN out' = 1..(w + Len(S))
      /\ \A i \in DOMAIN out' : \/ i \in 1..w /\ out'[i] = W[i]
                                \/ i - w \in 1..Len(S) /\ out'[i] = S[i - w]
  <2>1. out' = W \o S
    BY DEF W
  <2>. QED BY <2>1, <1>1, Concatenation
<1>6. \A i \in DOMAIN out' : out'[i] \notin Delivered /\ out'[i][1] = digest
  <2>1. ASSUME NEW i \in DOMAIN out' PROVE out'[i] \notin Delivered /\ out'[i][1] = digest
    <3>1. CASE i \in 1..w /\ out'[i] = W[i]
      BY <1>1, <1>4, <3>1
    <3>2. CASE i - w \in 1..Len(S) /\ out'[i] = S[i - w]
      BY <3>2
    <3>. QED BY <1>5, <3>1, <3>2
  <2>. QED BY <2>1
<1>7. ASSUME NEW i \in 1..w, NEW j \in 1..Len(S)
      PROVE  W[i] # S[j]
  <2>1. /\ counter <= W[i][2] /\ W[i][2] < counter + FullBlocks(n)
        /\ W[i][2] \in Nat
    BY <1>1, <1>3
  <2>2. S[j][2] < counter \/ S[j][2] = counter + FullBlocks(n)
    OBVIOUS
  <2>3. S[j][2] \in Nat
    BY <1>3
  <2>4. PICK a, b, c, d \in Nat :
          a = W[i][2] /\ b = S[j][2] /\ c = counter /\ d = FullBlocks(n)
    BY <2>1, <2>3, <1>2
  <2>5. c <= a /\ a < c + d /\ (b < c \/ b = c + d)
    BY ONLY <2>1, <2>2, <2>4
  <2>6. a # b
    BY ONLY <2>5, a \in Nat, b \in Nat, c \in Nat, d \in Nat
  <2>. QED BY ONLY <2>4, <2>6
<1>8. ASSUME NEW i \in DOMAIN out', NEW j \in DOMAIN out', out'[i] = out'[j]
      PROVE  i = j
  <2>0. i \in Int /\ j \in Int /\ Len(S) \in Nat
    BY <1>1, <1>5
  <2>1. CASE i \in 1..w /\ out'[i] = W[i]
    <3>1. CASE j \in 1..w /\ out'[j] = W[j]
      BY <2>1, <3>1, <1>1, <1>8
    <3>2. CASE j - w \in 1..Len(S) /\ out'[j] = S[j - w]
      BY <2>1, <3>2, <1>7, <1>8
    <3>. QED BY <3>1, <3>2, <1>5
  <2>2. CASE i - w \in 1..Len(S) /\ out'[i] = S[i - w]
    <3>1. CASE j \in 1..w /\ out'[j] = W[j]
      BY <2>2, <3>1, <1>7, <1>8
    <3>2. CASE j - w \in 1..Len(S) /\ out'[j] = S[j - w]
      <4>1. i - w = j - w
        BY <2>2, <3>2, <1>8
      <4>. QED BY <4>1, <2>0, <1>1
    <3>. QED BY <3>1, <3>2, <1>5
  <2>. QED BY <2>1, <2>2, <1>5
<1>9. \A b \in RangeOf(out)' : \/ \E i \in 1..Len(S) : b = S[i]
                               \/ /\ counter <= b[2] /\ b[2] < counter + FullBlocks(n)
                                  /\ b[1] = digest
  <2>1. TAKE b \in RangeOf(out)'
  <2>2. PICK i \in DOMAIN out' : b = out'[i]
    BY DEF RangeOf
  <2>. QED BY <2>2, <1>1, <1>5
<1>. QED BY <1>5, <1>6, <1>8, <1>9

LEMMA InitInv == Init => IInv
<1>. SUFFICES ASSUME Init PROVE IInv
  OBVIOUS
<1>1. TypeOK
  BY DigestAssumption DEF Init, TypeOK, Digests
<1>2. Delivered = {} /\ RangeOf(out) = {} /\ DOMAIN out = {}
  BY DEF Init, Delivered, RangeOf
<1>3. SpareFits /\ SpareInv
  BY DigestAssumption DEF Init, SpareFits, SpareInv
<1>4. PastInv /\ NoByteTwice /\ FreshAfterMix
  BY <1>2 DEF PastInv, NoByteTwice, FreshAfterMix
<1>5. SeedInv
  BY DEF Init, SeedInv
<1>. QED BY <1>1, <1>3, <1>4, <1>5 DEF IInv

(* The part of the invariant that a request preserves whatever its tail is *)
(* made of.                                                                *)
LEMMA RequestStep ==
  ASSUME IInv, NEW n \in Nat, digest' = digest, used' = used \union RangeOf(out),
         counter' \in Nat, counter <= counter', counter + FullBlocks(n) <= counter',
         out' \in Seq(Bytes),
         \A i \in DOMAIN out' : out'[i] \notin Delivered /\ out'[i][1] = digest,
         \A i, j \in DOMAIN out' : out'[i] = out'[j] => i = j,
         \A b \in RangeOf(out)' : b[2] < counter'
  PROVE  /\ PastInv' /\ SeedInv' /\ NoByteTwice' /\ FreshAfterMix'
         /\ used' \subseteq Bytes
         /\ Delivered' = Delivered \union RangeOf(out)'
<1>0. TypeOK /\ PastInv /\ SeedInv
  BY DEF IInv
<1>1. RangeOf(out) \subseteq Bytes
  BY <1>0 DEF RangeOf, TypeOK
<1>2. used' = Delivered /\ used' \subseteq Bytes
  BY <1>0, <1>1 DEF Delivered, TypeOK
<1>3. Delivered' = Delivered \union RangeOf(out)'
  BY <1>2 DEF Delivered
<1>4. RangeOf(out)' \subseteq Bytes /\ \A b \in RangeOf(out)' : b[1] = digest /\ b \notin Delivered
  BY DEF RangeOf
<1>5. Len(digest) \in Nat /\ counter \in Nat
  BY <1>0 DEF TypeOK, Digests
<1>6. ASSUME NEW b \in Delivered'
      PROVE  Past(b)'
  <2>1. CASE b \in Delivered
    <3>1. b \in Bytes /\ b[2] \in Nat
      BY <2>1, <1>2 DEF Bytes
    <3>2. Len(b[1]) <= Len(digest) /\ (b[1] = digest => b[2] < counter)
      BY <2>1, <1>0 DEF PastInv, Past
    <3>. QED BY <3>1, <3>2, <1>5 DEF Past
  <2>2. CASE b \in RangeOf(out)'
    BY <2>2, <1>4, <1>5 DEF Past
  <2>. QED BY <2>1, <2>2, <1>3
<1>7. PastInv'
  BY <1>6 DEF PastInv
<1>8. SeedInv'
  BY <1>0 DEF SeedInv
<1>9. NoByteTwice'
  BY <1>2, <1>4 DEF NoByteTwice
<1>10. FreshAfterMix'
  BY DEF FreshAfterMix
<1>. QED BY <1>2, <1>3, <1>7, <1>8, <1>9, <1>10

(* The tail of a request comes from the buffer. *)
LEMMA SpareStep ==
  ASSUME IInv, NEW n \in Nat, FromSpare(n), used' = used \union RangeOf(out), digest' = digest
  PROVE  IInv'
<1>. DEFINE t == TailBytes(n)
            S == [i \in 1..t |-> spare[i]]
<1>0. TypeOK /\ SpareInv /\ SpareFits
  BY DEF IInv
<1>1. /\ t \in Nat /\ t <= numSpare /\ numSpare \in Nat /\ numSpare < D /\ D \in Nat
      /\ FullBlocks(n) \in Nat /\ counter \in Nat
  BY <1>0, Whole, DigestAssumption DEF FromSpare, EnoughSpare, TypeOK, SpareFits
<1>2. /\ S \in Seq(Bytes) /\ Len(S) = t
      /\ \A i \in 1..t : S[i] = spare[i] /\ i \in 1..numSpare
  <2>1. \A i \in 1..t : i \in 1..numSpare /\ spare[i] \in Bytes
    BY <1>0, <1>1 DEF SpareInv
  <2>. QED BY <2>1, <1>1
<1>3. /\ out' = WholeBlocks(n) \o S
      /\ spare' = Shifted(t)
      /\ numSpare' = numSpare - t
      /\ counter' = counter + FullBlocks(n)
  BY DEF FromSpare
<1>. HIDE DEF S, t
<1>4. \A i \in 1..Len(S) : /\ S[i][1] = digest /\ S[i] \notin Delivered
                           /\ S[i][2] < counter
  BY <1>2, <1>0 DEF SpareInv
<1>5. \A i, j \in 1..Len(S) : S[i] = S[j] => i = j
  BY <1>2, <1>0 DEF SpareInv
<1>6. /\ out' \in Seq(Bytes)
      /\ \A i \in DOMAIN out' : out'[i] \notin Delivered /\ out'[i][1] = digest
      /\ \A i, j \in DOMAIN out' : out'[i] = out'[j] => i = j
      /\ \A b \in RangeOf(out)' : \/ \E i \in 1..Len(S) : b = S[i]
                                  \/ /\ counter <= b[2] /\ b[2] < counter + FullBlocks(n)
                                     /\ b[1] = digest
  BY <1>2, <1>3, <1>4, <1>5, NewBytes
<1>7. counter' \in Nat /\ counter <= counter' /\ counter + FullBlocks(n) <= counter'
  BY <1>1, <1>3
<1>8. \A i \in 1..Len(S) : S[i][2] \in Nat
  BY <1>2 DEF Bytes
<1>9. \A b \in RangeOf(out)' : b[2] < counter'
  <2>1. ASSUME NEW b \in RangeOf(out)', NEW i \in 1..Len(S), b = S[i] PROVE b[2] < counter'
    <3>1. b[2] < counter /\ b[2] \in Nat
      BY <1>4, <1>8, <2>1
    <3>. QED BY <1>1, <1>3, <3>1
  <2>2. ASSUME NEW b \in RangeOf(out)', b[2] < counter + FullBlocks(n) PROVE b[2] < counter'
    BY <1>3, <2>2
  <2>. QED BY <1>6, <2>1, <2>2
<1>10. /\ PastInv' /\ SeedInv' /\ NoByteTwice' /\ FreshAfterMix'
       /\ used' \subseteq Bytes
       /\ Delivered' = Delivered \union RangeOf(out)'
  BY <1>6, <1>7, <1>9, RequestStep
<1>11. /\ numSpare' \in Nat /\ numSpare' <= numSpare /\ numSpare' < D
  BY <1>1, <1>3
<1>12. spare' \in [1..(2 * D) -> Bytes \union {Zero}]
  BY <1>0, <1>1, <1>3 DEF Shifted, TypeOK
<1>13. TypeOK'
  BY <1>0, <1>6, <1>7, <1>10, <1>11, <1>12 DEF TypeOK
<1>14. \A i \in 1..numSpare' : spare'[i] = spare[i + t] /\ i + t \in 1..numSpare
  BY <1>1, <1>3 DEF Shifted
<1>15. ASSUME NEW i \in 1..numSpare'
       PROVE  /\ spare'[i] \in Bytes /\ spare'[i][1] = digest'
              /\ spare'[i][2] < counter' /\ spare'[i] \notin Delivered'
  <2>1. /\ spare'[i] \in Bytes /\ spare'[i][1] = digest
        /\ spare'[i][2] < counter /\ spare'[i] \notin Delivered
    BY <1>0, <1>14 DEF SpareInv
  <2>2. spare'[i][2] \in Nat
    BY <2>1 DEF Bytes
  <2>3. ASSUME spare'[i] \in RangeOf(out)' PROVE FALSE
    <3>1. PICK j \in 1..Len(S) : spare'[i] = S[j]
      <4>1. PICK b : b = spare'[i] /\ b \in RangeOf(out)' /\ b[2] \in Nat /\ b[2] < counter
        BY <2>1, <2>2, <2>3
      <4>2. (\E j \in 1..Len(S) : b = S[j]) \/ (counter <= b[2])
        BY <1>6, <4>1
      <4>3. ~(counter <= b[2])
        BY <1>1, <4>1
      <4> QED BY <4>1, <4>2, <4>3
    <3>2. spare[i + t] = spare[j] /\ j \in 1..numSpare /\ i + t \in 1..numSpare
      BY <3>1, <1>2, <1>14
    <3>3. i + t = j
      BY <3>2, <1>0 DEF SpareInv
    <3>. QED BY <3>3, <1>2, <1>1
  <2>. QED BY <2>1, <2>2, <2>3, <1>1, <1>7, <1>10
<1>16. ASSUME NEW i \in 1..numSpare', NEW j \in 1..numSpare', spare'[i] = spare'[j]
       PROVE  i = j
  <2>1. i + t = j + t
    BY <1>0, <1>14, <1>16 DEF SpareInv
  <2>. QED BY <2>1, <1>1, <1>11
<1>17. SpareInv' /\ SpareFits'
  BY <1>11, <1>15, <1>16 DEF SpareInv, SpareFits
<1>. QED BY <1>10, <1>13, <1>17 DEF IInv

(* The tail of a request comes from a new block. *)
LEMMA BlockStep ==
  ASSUME IInv, NEW n \in Nat, FromBlock(n), used' = used \union RangeOf(out), digest' = digest
  PROVE  IInv'
<1>. DEFINE t == TailBytes(n)
            block == counter + FullBlocks(n)
            S == [i \in 1..t |-> <<digest, block, i>>]
<1>0. TypeOK /\ SpareInv /\ SpareFits /\ PastInv
  BY DEF IInv
<1>1. /\ t \in Nat /\ numSpare < t /\ t < D /\ numSpare \in Nat /\ D \in Nat
      /\ FullBlocks(n) \in Nat /\ counter \in Nat /\ block \in Nat
  <2>1. t \in 0..(D - 1) /\ FullBlocks(n) \in Nat
    BY <1>0, Whole
  <2>2. D \in Nat /\ counter \in Nat /\ numSpare \in Nat
    BY <1>0, DigestAssumption DEF TypeOK
  <2>3. ~(t <= numSpare)
    BY DEF FromBlock, EnoughSpare
  <2>. HIDE DEF t
  <2>. QED BY <2>1, <2>2, <2>3
<1>2. \A i \in 1..D : <<digest, block, i>> \in Bytes
  BY <1>0, <1>1 DEF Bytes, TypeOK
<1>3. /\ out' = WholeBlocks(n) \o S
      /\ spare' = [i \in 1..(2 * D) |-> IF i \in (numSpare + 1)..(numSpare + D - t)
                                        THEN <<digest, block, i - numSpare + t>>
                                        ELSE spare[i]]
      /\ numSpare' = numSpare + (D - t)
      /\ counter' = block + 1
  BY DEF FromBlock
<1>4. S \in Seq(Bytes) /\ Len(S) = t /\ \A i \in 1..t : S[i] = <<digest, block, i>>
  <2>1. \A i \in 1..t : i \in 1..D
    BY <1>1
  <2>. QED BY <2>1, <1>1, <1>2
<1>5. ASSUME NEW i \in 1..D
      PROVE  <<digest, block, i>> \notin Delivered
  <2>1. SUFFICES ASSUME <<digest, block, i>> \in Delivered PROVE FALSE
    OBVIOUS
  <2>2. block < counter
    BY <2>1, <1>0 DEF PastInv, Past
  <2>. QED BY <2>2, <1>1
<1>6. block = counter + FullBlocks(n) /\ counter <= block
  BY <1>1
<1>. HIDE DEF S, t, block
<1>7. \A i \in 1..Len(S) : /\ S[i][1] = digest /\ S[i] \notin Delivered
                           /\ S[i][2] = counter + FullBlocks(n)
  <2>1. TAKE i \in 1..Len(S)
  <2>2. i \in 1..D /\ S[i] = <<digest, block, i>>
    BY <1>1, <1>4
  <2>3. S[i][1] = digest /\ S[i][2] = block
    BY <2>2
  <2>4. S[i] \notin Delivered
    BY <2>2, <1>5
  <2>. QED BY <2>3, <2>4, <1>6
<1>8. \A i, j \in 1..Len(S) : S[i] = S[j] => i = j
  BY <1>4
<1>9. /\ out' \in Seq(Bytes)
      /\ \A i \in DOMAIN out' : out'[i] \notin Delivered /\ out'[i][1] = digest
      /\ \A i, j \in DOMAIN out' : out'[i] = out'[j] => i = j
      /\ \A b \in RangeOf(out)' : \/ \E i \in 1..Len(S) : b = S[i]
                                  \/ /\ counter <= b[2] /\ b[2] < counter + FullBlocks(n)
                                     /\ b[1] = digest
  BY <1>3, <1>4, <1>7, <1>8, NewBytes
<1>10. counter' \in Nat /\ counter <= counter' /\ counter + FullBlocks(n) <= counter'
  BY <1>1, <1>3, <1>6
<1>11. \A b \in Bytes : b[2] \in Nat
  BY DEF Bytes
<1>12. \A b \in RangeOf(out)' : b \in Bytes
  BY <1>9 DEF RangeOf
<1>13. \A b \in RangeOf(out)' : b[2] < counter'
  <2>1. TAKE b \in RangeOf(out)'
  <2>2. b[2] \in Nat
    BY <1>11, <1>12
  <2>3. b[2] = block \/ b[2] < block
    BY <1>6, <1>7, <1>9
  <2>4. counter' = block + 1
    BY <1>3
  <2>. QED BY <2>2, <2>3, <2>4, <1>1
<1>14. /\ PastInv' /\ SeedInv' /\ NoByteTwice' /\ FreshAfterMix'
       /\ used' \subseteq Bytes
       /\ Delivered' = Delivered \union RangeOf(out)'
  BY <1>9, <1>10, <1>13, RequestStep
<1>15. /\ numSpare' \in Nat /\ numSpare' = numSpare + D - t /\ numSpare' < D
  BY <1>1, <1>3
<1>16. \A i \in 1..numSpare' :
         \/ i \in 1..numSpare /\ spare'[i] = spare[i]
         \/ /\ i - numSpare + t \in (t + 1)..D
            /\ i > numSpare
            /\ spare'[i] = <<digest, block, i - numSpare + t>>
  BY <1>1, <1>3, <1>15
<1>17. spare' \in [1..(2 * D) -> Bytes \union {Zero}]
  <2>1. \A i \in (numSpare + 1)..(numSpare + D - t) : i - numSpare + t \in 1..D
    BY <1>1
  <2>2. \A i \in (numSpare + 1)..(numSpare + D - t) :
          <<digest, block, i - numSpare + t>> \in Bytes
    BY <2>1, <1>2
  <2>. QED BY <2>2, <1>0, <1>3 DEF TypeOK
<1>18. TypeOK'
  BY <1>0, <1>9, <1>10, <1>14, <1>15, <1>17 DEF TypeOK
<1>19. ASSUME NEW i \in 1..numSpare'
       PROVE  /\ spare'[i] \in Bytes /\ spare'[i][1] = digest'
              /\ spare'[i][2] < counter' /\ spare'[i] \notin Delivered'
  <2>1. CASE i \in 1..numSpare /\ spare'[i] = spare[i]
    <3>1. /\ spare[i] \in Bytes /\ spare[i][1] = digest
          /\ spare[i][2] < counter /\ spare[i] \notin Delivered
      BY <2>1, <1>0 DEF SpareInv
    <3>2. spare[i][2] \in Nat
      BY <3>1, <1>11
    <3>3. \A b \in RangeOf(out)' : b[2] = block \/ counter <= b[2]
      BY <1>6, <1>7, <1>9
    <3>4. ~(spare[i][2] = block \/ counter <= spare[i][2])
      BY <3>1, <3>2, <1>1, <1>6
    <3>5. spare[i] \notin RangeOf(out)'
      BY <3>3, <3>4
    <3>. QED BY <2>1, <3>1, <3>2, <3>5, <1>1, <1>10, <1>14
  <2>2. CASE /\ i - numSpare + t \in (t + 1)..D
             /\ spare'[i] = <<digest, block, i - numSpare + t>>
    <3>. DEFINE m == i - numSpare + t
    <3>1. m \in 1..D /\ m > t
      BY <2>2, <1>1
    <3>2. spare'[i] = <<digest, block, m>>
      BY <2>2
    <3>. HIDE DEF m
    <3>3. /\ <<digest, block, m>> \in Bytes /\ <<digest, block, m>> \notin Delivered
          /\ block < counter'
      BY <3>1, <1>1, <1>2, <1>3, <1>5
    <3>4. ASSUME <<digest, block, m>> \in RangeOf(out)' PROVE FALSE
      <4>1. PICK j \in 1..Len(S) : <<digest, block, m>> = S[j]
        <5>0. PICK b : b = <<digest, block, m>>
          OBVIOUS
        <5>1. b = <<digest, block, m>> /\ b[2] = block
          BY ONLY <5>0
        <5>2. b[2] < counter + FullBlocks(n) => FALSE
          BY <1>1, <1>6, <5>1
        <5>3. \/ \E j \in 1..Len(S) : b = S[j]
              \/ b[2] < counter + FullBlocks(n)
          BY <1>9, <3>4, <5>1
        <5>. QED BY <5>1, <5>2, <5>3
      <4>2. m = j /\ j <= t
        BY <4>1, <1>4, <1>1
      <4>. QED BY <4>2, <3>1, <1>1
    <3>. QED BY <3>2, <3>3, <3>4, <1>14
  <2>. QED BY <2>1, <2>2, <1>16
<1>20. ASSUME NEW i \in 1..numSpare', NEW j \in 1..numSpare', spare'[i] = spare'[j]
       PROVE  i = j
  <2>1. \A k \in 1..numSpare : spare[k][2] < counter /\ spare[k][2] \in Nat
    BY <1>0, <1>11 DEF SpareInv
  <2>2. \A k \in 1..numSpare, m \in Int : spare[k] # <<digest, block, m>>
    BY <2>1, <1>1, <1>6
  <2>3. CASE i \in 1..numSpare /\ j \in 1..numSpare
    <3>1. spare'[i] = spare[i] /\ spare'[j] = spare[j]
      BY <2>3, <1>16, <1>1
    <3>2. spare[i] = spare[j]
      BY <3>1, <1>20
    <3>3. \A k, l \in 1..numSpare : spare[k] = spare[l] => k = l
      BY <1>0 DEF SpareInv
    <3>. QED BY <3>2, <3>3, <2>3
  <2>4. CASE i > numSpare /\ j > numSpare
    <3>1. /\ spare'[i] = <<digest, block, i - numSpare + t>>
          /\ spare'[j] = <<digest, block, j - numSpare + t>>
      BY <2>4, <1>16, <1>1, <1>15
    <3>2. i - numSpare + t = j - numSpare + t
      BY <3>1, <1>20
    <3>. QED BY <3>2, <1>1, <1>15
  <2>5. CASE i \in 1..numSpare /\ j > numSpare
    <3>1. spare'[i] = spare[i] /\ spare'[j] = <<digest, block, j - numSpare + t>>
      BY <2>5, <1>16, <1>1, <1>15
    <3>2. j - numSpare + t \in Int
      BY <1>1, <1>15
    <3>3. spare[i] # <<digest, block, j - numSpare + t>>
      BY <3>2, <2>2, <2>5
    <3>. QED BY <3>1, <3>3, <1>20
  <2>6. CASE j \in 1..numSpare /\ i > numSpare
    <3>1. spare'[j] = spare[j] /\ spare'[i] = <<digest, block, i - numSpare + t>>
      BY <2>6, <1>16, <1>1, <1>15
    <3>2. i - numSpare + t \in Int
      BY <1>1, <1>15
    <3>3. spare[j] # <<digest, block, i - numSpare + t>>
      BY <3>2, <2>2, <2>6
    <3>. QED BY <3>1, <3>3, <1>20
  <2>. QED BY <2>3, <2>4, <2>5, <2>6, <1>1, <1>15
<1>21. SpareInv' /\ SpareFits'
  BY <1>15, <1>19, <1>20 DEF SpareInv, SpareFits
<1>. QED BY <1>14, <1>18, <1>21 DEF IInv

LEMMA MixStep ==
  ASSUME IInv, NEW m \in Messages, MixSeedWithBytes(m)
  PROVE  IInv'
<1>0. TypeOK /\ PastInv
  BY DEF IInv
<1>1. /\ digest' = Append(digest, <<1, m>>)
      /\ numSpare' = 0 /\ counter' = 0 /\ out' = <<>> /\ spare' = spare
      /\ used' = used \union RangeOf(out)
  BY DEF MixSeedWithBytes, Restart, SeedIncrement
<1>2. /\ digest' \in Digests
      /\ Len(digest') = Len(digest) + 1
      /\ digest'[Len(digest')] = <<1, m>>
      /\ Len(digest) \in Nat
  <2>1. <<1, m>> \in {0, 1} \X Nat
    BY MessagesAssumption
  <2>2. digest \in Seq({0, 1} \X Nat)
    BY <1>0 DEF TypeOK, Digests
  <2>. QED BY <2>1, <2>2, <1>1 DEF Digests
<1>3. RangeOf(out)' = {} /\ DOMAIN out' = {}
  BY <1>1 DEF RangeOf
<1>4. Delivered' = Delivered /\ Delivered \subseteq Bytes
  <2>1. RangeOf(out) \subseteq Bytes
    BY <1>0 DEF RangeOf, TypeOK
  <2>. QED BY <2>1, <1>0, <1>1, <1>3 DEF Delivered, TypeOK
<1>5. TypeOK'
  BY <1>0, <1>1, <1>2, <1>4, <1>3 DEF TypeOK, Delivered
<1>6. ASSUME NEW b \in Delivered
      PROVE  Past(b)'
  <2>1. Len(b[1]) <= Len(digest)
    BY <1>0 DEF PastInv, Past
  <2>2. Len(b[1]) \in Nat
    BY <1>4 DEF Bytes, Digests
  <2>3. Len(b[1]) <= Len(digest') /\ b[1] # digest'
    BY <2>1, <2>2, <1>2
  <2>. QED BY <2>3 DEF Past
<1>7. PastInv'
  BY <1>4, <1>6 DEF PastInv
<1>8. SpareFits' /\ SpareInv'
  BY <1>1, DigestAssumption DEF SpareFits, SpareInv
<1>9. SeedInv'
  BY <1>2 DEF SeedInv
<1>10. NoByteTwice' /\ FreshAfterMix'
  BY <1>3 DEF NoByteTwice, FreshAfterMix
<1>. QED BY <1>5, <1>7, <1>8, <1>9, <1>10 DEF IInv

LEMMA NextInv == IInv /\ [Next]_vars => IInv'
<1>. SUFFICES ASSUME IInv, [Next]_vars PROVE IInv'
  OBVIOUS
<1>1. ASSUME NEW n \in 0..MaxRequest, GetRandomBytes(n)
      PROVE  IInv'
  <2>1. n \in Nat
    BY BoundsAssumption
  <2>. QED BY <2>1, <1>1, SpareStep, BlockStep DEF GetRandomBytes
<1>2. ASSUME NEW m \in Messages, MixSeedWithBytes(m)
      PROVE  IInv'
  BY <1>2, MixStep
<1>3. CASE UNCHANGED vars
  BY <1>3 DEF vars, IInv, TypeOK, SpareFits, PastInv, Past, Delivered, SpareInv, SeedInv,
              NoByteTwice, FreshAfterMix, RangeOf
<1>. QED BY <1>1, <1>2, <1>3 DEF Next

LEMMA Inductive == Spec => []IInv
BY InitInv, NextInv, PTL DEF Spec
-----------------------------------------------------------------------------
(* The check for room in the buffer of spare bytes never fails             *)
(* (hash_chain.cc:101-105).                                                *)
THEOREM BufferNeverOverflows == Spec => []SpareFits
<1>1. IInv => SpareFits
  BY DEF IInv
<1>. QED BY <1>1, Inductive, PTL

(* The stream never repeats a byte, through any sequence of requests and   *)
(* changes of the seed (hash_chain.cc:46-92).                              *)
THEOREM StreamNeverRepeats == Spec => []NoByteTwice
<1>1. IInv => NoByteTwice
  BY DEF IInv
<1>. QED BY <1>1, Inductive, PTL

(* Randomness depends on all the data mixed in before it is drawn          *)
(* (hash_chain.cc:79-92).                                                  *)
THEOREM RandomnessIsBound == Spec => []FreshAfterMix
<1>1. IInv => FreshAfterMix
  BY DEF IInv
<1>. QED BY <1>1, Inductive, PTL

(* The increment keeps the seeds apart from the blocks, whatever is mixed  *)
(* in, a padded counter included (hash_chain.h:46-50).                     *)
THEOREM SeedsAreNoBlocks == Spec => []DomainSeparation
<1>1. ASSUME IInv PROVE DomainSeparation
  <2>1. TypeOK /\ SeedInv
    BY <1>1 DEF IInv
  <2>2. used \union RangeOf(out) \subseteq Bytes
    BY <2>1 DEF TypeOK, RangeOf
  <2>3. ASSUME NEW b \in used \union RangeOf(out), digest = HashWithCounter(b[1], b[2])
        PROVE  FALSE
    <3>1. b[1] \in Seq({0, 1} \X Nat) /\ b[2] \in Nat
      BY <2>2 DEF Bytes, Digests
    <3>2. digest = Append(b[1], <<0, b[2]>>)
      BY <2>3 DEF HashWithCounter
    <3>3. digest # <<>> /\ digest[Len(digest)] = <<0, b[2]>>
      <4>1. PICK T, s, e : T = {0, 1} \X Nat /\ s = b[1] /\ e = <<0, b[2]>>
        OBVIOUS
      <4>2. s \in Seq(T) /\ e \in T /\ digest = Append(s, e)
        BY <3>1, <3>2, <4>1
      <4>3. Len(digest) = Len(s) + 1 /\ digest[Len(s) + 1] = e /\ Len(s) \in Nat
        BY ONLY <4>2, AppendProperties, LenProperties
      <4>4. digest # <<>>
        BY <4>3
      <4>. QED BY <4>1, <4>3, <4>4
    <3>. QED BY <3>3, <2>1 DEF SeedInv
  <2>. QED BY <2>3 DEF DomainSeparation
<1>. QED BY <1>1, Inductive, PTL
-----------------------------------------------------------------------------
(* The search for a nonce. *)

(* The lowest nonce found is a valid one or the initial value. *)
LowestInv == \/ lowest = MaxNonce
             \/ lowest \in valid /\ lowest < Start(Chunks - 1)

(* A task that has found a nonce compares it with one that is not below    *)
(* the lowest.                                                             *)
FoundInv ==
  \A i \in Ids : /\ pc[i] \in {"load", "exchange"} =>
                      nonce[i] \in valid /\ nonce[i] < Start(Chunks - 1)
                 /\ pc[i] = "exchange" => lowest <= curr[i]

(* Before the wrap-around chunks are handed out in order. *)
OrderInv ==
  ~wrapped => /\ next >= ThreadCount
              /\ \A i \in Ids : /\ chunk[i] < next
                                /\ pc[i] = "check" => chunk[i] >= ThreadCount
                                /\ pc[i] = "done" => lowest <= Start(next)

SearchInv == /\ SearchTypeOK /\ LowestInv /\ FoundInv /\ OrderInv
        /\ NothingMissed
-----------------------------------------------------------------------------
LEMMA StartMonotonic ==
  ASSUME NEW c \in Nat, NEW d \in Nat, c <= d
  PROVE  Start(c) \in Nat /\ Start(c) <= Start(d)
BY SizesAssumption DEF Start

LEMMA StartNext ==
  ASSUME NEW c \in Nat
  PROVE  Start(c + 1) = Start(c) + ChunkSize
BY SizesAssumption DEF Start

LEMMA SearchSizes ==
  /\ Start(Chunks - 1) \in Nat /\ MaxNonce \in Nat /\ NonceCount \in Nat \ {0}
  /\ Start(Chunks - 1) <= MaxNonce
  /\ NonceCount = Start(Chunks - 1) + ChunkSize
  /\ ThreadCount \in ChunkNumbers /\ Chunks - 1 \in Nat
<1>1. Chunks - 1 \in Nat /\ Chunks = (Chunks - 1) + 1 /\ ThreadCount \in ChunkNumbers
  BY SizesAssumption DEF ChunkNumbers
<1>2. NonceCount = Start(Chunks - 1) + ChunkSize
  BY <1>1, StartNext DEF NonceCount
<1>3. Start(Chunks - 1) \in Nat
  BY <1>1, StartMonotonic
<1>. QED BY <1>1, <1>2, <1>3, SizesAssumption DEF MaxNonce

(* SearchChunk sees every valid nonce of a chunk, and none of the last one.*)
LEMMA FoundIs ==
  ASSUME NEW c \in ChunkNumbers, valid \subseteq Nonces
  PROVE  /\ c # Chunks - 1 =>
              Found(c) = {n \in valid : Start(c) <= n /\ n < Start(c) + ChunkSize}
         /\ \A n \in Found(c) : n \in valid /\ n < Start(Chunks - 1)
<1>0. c \in Nat /\ Chunks - 1 \in Nat /\ c <= Chunks - 1
  BY SizesAssumption DEF ChunkNumbers
<1>3. \A n \in valid : n \in Nat
  BY SearchSizes DEF Nonces
<1>1. CASE c # Chunks - 1
  <2>1. c + 1 <= Chunks - 1 /\ c + 1 \in Nat
    BY <1>0, <1>1
  <2>2. Start(c) + ChunkSize \in Nat /\ Start(c) + ChunkSize <= Start(Chunks - 1)
    BY <1>0, <2>1, StartNext, StartMonotonic
  <2>3. (Start(c) + ChunkSize) % NonceCount = Start(c) + ChunkSize
    BY <2>2, SearchSizes, SizesAssumption
  <2>4. Found(c) = {n \in valid : Start(c) <= n /\ n < Start(c) + ChunkSize}
    BY <2>3 DEF Found
  <2>5. \A n \in Found(c) : n \in valid /\ n < Start(Chunks - 1)
    BY <1>0, <1>3, <2>2, <2>4, SearchSizes
  <2>. QED BY <2>4, <2>5
<1>2. CASE c = Chunks - 1
  <2>1. (Start(c) + ChunkSize) % NonceCount = 0
    BY <1>2, SearchSizes
  <2>2. Found(c) = {n \in valid : Start(c) <= n /\ n < 0}
    BY <2>1 DEF Found
  <2>3. Found(c) = {}
    BY <1>3, <2>2
  <2>. QED BY <1>2, <2>3
<1>. QED BY <1>1, <1>2

LEMMA SearchInitInv == SearchInit => SearchInv
<1> SUFFICES ASSUME SearchInit PROVE SearchInv
  OBVIOUS
<1>1. SearchTypeOK
  <2>1. MaxNonce \in Nonces /\ 0 \in Nonces /\ Ids \subseteq ChunkNumbers
    BY SearchSizes, SizesAssumption DEF Nonces, Ids, ChunkNumbers
  <2>. QED BY <2>1, SearchSizes DEF SearchInit, SearchTypeOK
<1>2. LowestInv /\ FoundInv
  <2>1. \A i \in Ids : pc[i] = "search"
    BY DEF SearchInit
  <2>2. FoundInv
    BY <2>1 DEF FoundInv
  <2>3. LowestInv
    BY DEF SearchInit, LowestInv
  <2>. QED BY <2>2, <2>3
<1>3. OrderInv
  BY SearchSizes, SizesAssumption DEF SearchInit, OrderInv, Ids
<1>4. NothingMissed
  <2> SUFFICES ASSUME NEW c \in 0..(Chunks - 2), NEW n \in valid PROVE OnItsWay(n, c)
    BY DEF NothingMissed
  <2>1. CASE c >= ThreadCount
    BY <2>1 DEF SearchInit, OnItsWay
  <2>2. CASE c < ThreadCount
    <3>1. c \in Ids
      BY <2>2, SizesAssumption DEF Ids
    <3>. QED BY <3>1 DEF SearchInit, OnItsWay
  <2>. QED BY <2>1, <2>2, SizesAssumption
<1>. QED BY <1>1, <1>2, <1>3, <1>4 DEF SearchInv

LEMMA TypeStep == SearchTypeOK /\ [SearchNext]_search_vars => SearchTypeOK'
<1> SUFFICES ASSUME SearchTypeOK, [SearchNext]_search_vars PROVE SearchTypeOK'
  OBVIOUS
<1>1. ASSUME NEW i \in Ids, Search(i) PROVE SearchTypeOK'
  <2>1. Found(chunk[i]) \subseteq Nonces
    BY DEF SearchTypeOK, Found
  <2>. QED BY <1>1, <2>1 DEF Search, SearchTypeOK
<1>2. ASSUME NEW i \in Ids, Load(i) PROVE SearchTypeOK'
  BY <1>2 DEF Load, SearchTypeOK
<1>3. ASSUME NEW i \in Ids, Exchange(i) PROVE SearchTypeOK'
  BY <1>3 DEF Exchange, SearchTypeOK
<1>4. ASSUME NEW i \in Ids, Fetch(i) PROVE SearchTypeOK'
  <2>1. next' \in ChunkNumbers
    BY <1>4, SizesAssumption DEF Fetch, After, SearchTypeOK, ChunkNumbers
  <2>2. wrapped' \in BOOLEAN
    BY <1>4 DEF Fetch, SearchTypeOK
  <2>. QED BY <1>4, <2>1, <2>2 DEF Fetch, SearchTypeOK
<1>5. ASSUME NEW i \in Ids, Check(i) PROVE SearchTypeOK'
  BY <1>5 DEF Check, SearchTypeOK
<1>6. CASE UNCHANGED search_vars
  BY <1>6 DEF search_vars, SearchTypeOK
<1>. QED BY <1>1, <1>2, <1>3, <1>4, <1>5, <1>6 DEF SearchNext, Step, Terminated

(* What the lowest nonce and the nonces found are. *)
LEMMA FoundStep == SearchInv /\ [SearchNext]_search_vars => LowestInv' /\ FoundInv'
<1> SUFFICES ASSUME SearchInv, [SearchNext]_search_vars PROVE LowestInv' /\ FoundInv'
  OBVIOUS
<1>0. SearchTypeOK /\ LowestInv /\ FoundInv
  BY DEF SearchInv
<1>n. Nonces \subseteq Nat
  BY DEF Nonces
<1>1. ASSUME NEW i \in Ids, Search(i) PROVE LowestInv' /\ FoundInv'
  <2>1. \A n \in Found(chunk[i]) : n \in valid /\ n < Start(Chunks - 1)
    BY <1>0, FoundIs DEF SearchTypeOK
  <2>2. UNCHANGED <<valid, lowest, curr>>
    BY <1>1 DEF Search
  <2>3. \A j \in Ids \ {i} : pc'[j] = pc[j] /\ nonce'[j] = nonce[j]
    BY <1>0, <1>1 DEF Search, SearchTypeOK
  <2>4. \/ pc'[i] = "fetch"
        \/ pc'[i] = "load" /\ nonce'[i] \in Found(chunk[i])
    BY <1>0, <1>1 DEF Search, SearchTypeOK
  <2>. QED BY <1>0, <2>1, <2>2, <2>3, <2>4 DEF LowestInv, FoundInv
<1>2. ASSUME NEW i \in Ids, Load(i) PROVE LowestInv' /\ FoundInv'
  BY <1>0, <1>n, <1>2 DEF Load, LowestInv, FoundInv, SearchTypeOK
<1>3. ASSUME NEW i \in Ids, Exchange(i) PROVE LowestInv' /\ FoundInv'
  <2>1. /\ nonce[i] \in valid /\ nonce[i] < Start(Chunks - 1)
        /\ UNCHANGED <<valid, nonce>>
    BY <1>0, <1>3 DEF Exchange, FoundInv
  <2>2. \/ lowest' = lowest
        \/ lowest' = nonce[i] /\ lowest' < lowest
    BY <1>0, <1>3 DEF Exchange, Unchanged
  <2>3. \A j \in Ids : pc'[j] = pc[j] \/ pc'[j] = "fetch"
    BY <1>0, <1>3 DEF Exchange, SearchTypeOK
  <2>4. \A j \in Ids : curr'[j] = curr[j] \/ curr'[j] = lowest'
    BY <1>0, <1>3 DEF Exchange, SearchTypeOK
  <2>5. /\ lowest \in Nat /\ lowest' \in Nat
        /\ \A j \in Ids : curr[j] \in Nat
    BY <1>0, <1>n, <2>2 DEF SearchTypeOK
  <2>6. LowestInv'
    BY <1>0, <2>1, <2>2 DEF LowestInv
  <2>7. FoundInv'
    BY <1>0, <2>1, <2>2, <2>3, <2>4, <2>5 DEF FoundInv
  <2>. QED BY <2>6, <2>7
<1>4. ASSUME NEW i \in Ids, Fetch(i) \/ Check(i) PROVE LowestInv' /\ FoundInv'
  <2>1. UNCHANGED <<valid, lowest, nonce, curr>>
    BY <1>4 DEF Fetch, Check
  <2>2. \A j \in Ids : pc'[j] \in {"load", "exchange"} => pc[j] = pc'[j]
    BY <1>0, <1>4 DEF Fetch, Check, SearchTypeOK
  <2>. QED BY <1>0, <2>1, <2>2 DEF LowestInv, FoundInv
<1>5. CASE UNCHANGED search_vars
  BY <1>0, <1>5 DEF search_vars, LowestInv, FoundInv
<1>. QED BY <1>1, <1>2, <1>3, <1>4, <1>5 DEF SearchNext, Step, Terminated

(* The order in which chunks are handed out. *)
LEMMA OrderStep == SearchInv /\ [SearchNext]_search_vars => OrderInv'
<1> SUFFICES ASSUME SearchInv, [SearchNext]_search_vars PROVE OrderInv'
  OBVIOUS
<1>0. SearchTypeOK /\ OrderInv
  BY DEF SearchInv
<1>n. Nonces \subseteq Nat /\ ChunkNumbers \subseteq Nat /\ ThreadCount \in Nat
  BY SizesAssumption DEF Nonces, ChunkNumbers
<1>1. ASSUME NEW i \in Ids, Search(i) \/ Load(i) PROVE OrderInv'
  <2>1. UNCHANGED <<next, lowest, chunk, wrapped>>
    BY <1>1 DEF Search, Load
  <2>2. \A j \in Ids : pc'[j] \in {"check", "done"} => pc[j] = pc'[j]
    BY <1>0, <1>1 DEF Search, Load, SearchTypeOK
  <2>. QED BY <1>0, <2>1, <2>2 DEF OrderInv
<1>2. ASSUME NEW i \in Ids, Exchange(i) PROVE OrderInv'
  <2>1. UNCHANGED <<next, chunk, wrapped>>
    BY <1>2 DEF Exchange
  <2>2. \A j \in Ids : pc'[j] \in {"check", "done"} => pc[j] = pc'[j]
    BY <1>0, <1>2 DEF Exchange, SearchTypeOK
  <2>3. lowest' <= lowest /\ lowest \in Nat /\ lowest' \in Nat
    <3>1. lowest \in Nat /\ nonce[i] \in Nat
      BY <1>0, <1>n DEF SearchTypeOK
    <3>2. lowest' = lowest \/ (lowest' = nonce[i] /\ nonce[i] < lowest)
      BY <1>2 DEF Exchange, Unchanged
    <3>. QED BY <3>1, <3>2
  <2>4. Start(next) \in Nat
    BY <1>0, <1>n, StartMonotonic DEF SearchTypeOK
  <2>. QED BY <1>0, <2>1, <2>2, <2>3, <2>4 DEF OrderInv
<1>3. ASSUME NEW i \in Ids, Fetch(i) PROVE OrderInv'
  <2> SUFFICES ASSUME ~wrapped' PROVE OrderInv'
    BY DEF OrderInv
  <2>1. ~wrapped /\ next + 1 # Chunks /\ next \in Nat
    BY <1>0, <1>n, <1>3 DEF Fetch, SearchTypeOK
  <2>2. next' = next + 1
    BY <1>0, <1>3, <2>1, SizesAssumption DEF Fetch, After, SearchTypeOK, ChunkNumbers
  <2>3. \A j \in Ids : chunk'[j] = IF j = i THEN next ELSE chunk[j]
    BY <1>0, <1>3 DEF Fetch, SearchTypeOK
  <2>4. \A j \in Ids : pc'[j] = IF j = i THEN "check" ELSE pc[j]
    BY <1>0, <1>3 DEF Fetch, SearchTypeOK
  <2>5. /\ Start(next) \in Nat /\ Start(next') \in Nat /\ Start(next) <= Start(next')
        /\ lowest' = lowest /\ lowest \in Nat
    BY <1>0, <1>n, <1>3, <2>1, <2>2, StartMonotonic DEF Fetch, SearchTypeOK
  <2>6. \A j \in Ids : chunk[j] \in Nat
    BY <1>0, <1>n DEF SearchTypeOK
  <2>7. /\ next >= ThreadCount
        /\ \A j \in Ids : /\ chunk[j] < next
                          /\ pc[j] = "check" => chunk[j] >= ThreadCount
                          /\ pc[j] = "done" => lowest <= Start(next)
    BY <1>0, <2>1 DEF OrderInv
  <2>8. next' >= ThreadCount
    BY <1>n, <2>1, <2>2, <2>7
  <2>9. ASSUME NEW j \in Ids
        PROVE  /\ chunk'[j] < next'
               /\ pc'[j] = "check" => chunk'[j] >= ThreadCount
               /\ pc'[j] = "done" => lowest' <= Start(next')
    <3>1. CASE j = i
      BY <2>1, <2>2, <2>3, <2>4, <2>7, <3>1
    <3>2. CASE j # i
      BY <2>1, <2>2, <2>3, <2>4, <2>5, <2>6, <2>7, <3>2
    <3>. QED BY <3>1, <3>2
  <2>. QED BY <2>8, <2>9 DEF OrderInv
<1>4. ASSUME NEW i \in Ids, Check(i) PROVE OrderInv'
  <2>1. UNCHANGED <<next, lowest, chunk, wrapped>>
    BY <1>4 DEF Check
  <2>2. \A j \in Ids \ {i} : pc'[j] = pc[j]
    BY <1>0, <1>4 DEF Check, SearchTypeOK
  <2>3. pc'[i] = IF GoesOn(i) THEN "search" ELSE "done"
    BY <1>0, <1>4 DEF Check, SearchTypeOK
  <2>4. ASSUME ~wrapped, pc'[i] = "done" PROVE lowest <= Start(next)
    <3>1. chunk[i] >= ThreadCount /\ chunk[i] < next /\ ~GoesOn(i)
      BY <1>0, <1>4, <2>3, <2>4 DEF OrderInv, Check
    <3>2. ~(Start(chunk[i]) < lowest)
      BY <3>1 DEF GoesOn
    <3>3. chunk[i] \in Nat /\ next \in Nat /\ lowest \in Nat
      BY <1>0, <1>n DEF SearchTypeOK
    <3>4. /\ Start(chunk[i]) \in Nat /\ Start(next) \in Nat
          /\ Start(chunk[i]) <= Start(next)
      BY <3>1, <3>3, StartMonotonic
    <3>. QED BY <3>2, <3>3, <3>4
  <2>. QED BY <1>0, <2>1, <2>2, <2>3, <2>4 DEF OrderInv
<1>5. CASE UNCHANGED search_vars
  BY <1>0, <1>5 DEF search_vars, OrderInv
<1>. QED BY <1>1, <1>2, <1>3, <1>4, <1>5 DEF SearchNext, Step, Terminated

(* No nonce is missed. *)
LEMMA MissedStep == SearchInv /\ [SearchNext]_search_vars => NothingMissed'
<1> SUFFICES ASSUME SearchInv, [SearchNext]_search_vars,
                    NEW c \in 0..(Chunks - 2), NEW n \in valid',
                    Start(c) <= n, n < Start(c) + ChunkSize, n < lowest'
             PROVE  OnItsWay(n, c)'
  BY DEF NothingMissed
<1>0. SearchTypeOK /\ LowestInv /\ FoundInv /\ OrderInv /\ NothingMissed
  BY DEF SearchInv
<1>n. Nonces \subseteq Nat /\ ChunkNumbers \subseteq Nat /\ ThreadCount \in Nat
  BY SizesAssumption DEF Nonces, ChunkNumbers
<1>v. valid' = valid /\ n \in Nat /\ c \in ChunkNumbers /\ c # Chunks - 1
  <2>1. valid' = valid
    BY DEF SearchNext, Step, Search, Load, Exchange, Fetch, Check, Terminated, search_vars
  <2>2. n \in Nat
    BY <1>0, <1>n, <2>1 DEF SearchTypeOK
  <2>3. c \in ChunkNumbers /\ c # Chunks - 1
    BY SizesAssumption DEF ChunkNumbers
  <2>. QED BY <2>1, <2>2, <2>3
<1>w. lowest' <= lowest /\ lowest \in Nat /\ lowest' \in Nat
  <2>1. lowest \in Nat
    BY <1>0, <1>n DEF SearchTypeOK
  <2>2. ASSUME NEW i \in Ids, Exchange(i)
        PROVE  lowest' = lowest \/ (lowest' = nonce[i] /\ nonce[i] < lowest /\ nonce[i] \in Nat)
    BY <1>0, <1>n, <2>2 DEF Exchange, Unchanged, SearchTypeOK
  <2>3. ASSUME NEW i \in Ids, Search(i) \/ Load(i) \/ Fetch(i) \/ Check(i)
        PROVE  lowest' = lowest
    BY <2>3 DEF Search, Load, Fetch, Check
  <2>4. lowest' = lowest \/ (lowest' \in Nat /\ lowest' < lowest)
    BY <2>1, <2>2, <2>3 DEF SearchNext, Step, Terminated, search_vars
  <2>. QED BY <2>1, <2>4
<1>x. OnItsWay(n, c)
  BY <1>0, <1>v, <1>w DEF NothingMissed
<1>1. ASSUME NEW i \in Ids, Search(i) PROVE OnItsWay(n, c)'
  <2>1. UNCHANGED <<next, chunk, wrapped>>
    BY <1>1 DEF Search
  <2>2. \A j \in Ids \ {i} : pc'[j] = pc[j] /\ nonce'[j] = nonce[j]
    BY <1>0, <1>1 DEF Search, SearchTypeOK
  <2>3. pc[i] = "search"
    BY <1>1 DEF Search
  <2>4. CASE chunk[i] = c
    <3>1. n \in Found(chunk[i])
      BY <1>0, <1>v, <2>4, FoundIs DEF SearchTypeOK
    <3>2. pc'[i] = "load" /\ nonce'[i] <= n
      BY <1>0, <1>1, <3>1 DEF Search, SearchTypeOK
    <3>. QED BY <3>2 DEF OnItsWay
  <2>5. CASE chunk[i] # c
    BY <1>x, <2>1, <2>2, <2>3, <2>5 DEF OnItsWay
  <2>. QED BY <2>4, <2>5
<1>2. ASSUME NEW i \in Ids, Load(i) PROVE OnItsWay(n, c)'
  <2>1. UNCHANGED <<next, chunk, wrapped, nonce>> /\ pc[i] = "load"
    BY <1>2 DEF Load
  <2>2. \A j \in Ids : pc'[j] = IF j = i THEN "exchange" ELSE pc[j]
    BY <1>0, <1>2 DEF Load, SearchTypeOK
  <2>. QED BY <1>x, <2>1, <2>2 DEF OnItsWay
<1>3. ASSUME NEW i \in Ids, Exchange(i) PROVE OnItsWay(n, c)'
  <2>1. UNCHANGED <<next, chunk, wrapped, nonce>> /\ pc[i] = "exchange"
    BY <1>3 DEF Exchange
  <2>2. \A j \in Ids \ {i} : pc'[j] = pc[j]
    BY <1>0, <1>3 DEF Exchange, SearchTypeOK
  <2>3. pc'[i] = "exchange" \/ lowest' <= nonce[i]
    <3>1. lowest \in Nat /\ nonce[i] \in Nat /\ curr[i] \in Nat /\ lowest <= curr[i]
      BY <1>0, <1>n, <2>1 DEF SearchTypeOK, FoundInv
    <3>2. \/ nonce[i] >= curr[i] /\ lowest' = lowest
          \/ lowest' = nonce[i]
          \/ pc' = pc
      BY <1>3 DEF Exchange
    <3>. QED BY <1>w, <2>1, <3>1, <3>2
  <2>4. nonce[i] <= n => pc'[i] = "exchange"
    <3>1. nonce[i] \in Nat
      BY <1>0, <1>n DEF SearchTypeOK
    <3>. QED BY <1>v, <1>w, <2>3, <3>1
  <2>. QED BY <1>x, <2>1, <2>2, <2>4 DEF OnItsWay
<1>4. ASSUME NEW i \in Ids, Fetch(i) PROVE OnItsWay(n, c)'
  <2>1. /\ next' = After(next) /\ nonce' = nonce /\ pc[i] = "fetch"
        /\ wrapped' = (wrapped \/ next + 1 = Chunks)
    BY <1>4 DEF Fetch
  <2>2. \A j \in Ids : /\ pc'[j] = IF j = i THEN "check" ELSE pc[j]
                       /\ chunk'[j] = IF j = i THEN next ELSE chunk[j]
    BY <1>0, <1>4 DEF Fetch, SearchTypeOK
  <2>3. CASE ~wrapped /\ c >= next
    <3>1. CASE c = next
      <4>1. c >= ThreadCount
        BY <1>0, <2>3, <3>1 DEF OrderInv
      <4>. QED BY <2>2, <3>1, <4>1 DEF OnItsWay
    <3>2. CASE c # next
      <4>1. next + 1 <= c /\ next + 1 # Chunks /\ next \in Nat /\ c \in Nat
        BY <1>0, <1>n, <1>v, <2>3, <3>2, SizesAssumption DEF SearchTypeOK, ChunkNumbers
      <4>2. next' = next + 1
        BY <1>v, <2>1, <4>1, SizesAssumption DEF After, ChunkNumbers
      <4>3. ~wrapped' /\ c >= next'
        BY <2>1, <2>3, <4>1, <4>2
      <4>. QED BY <4>3 DEF OnItsWay
    <3>. QED BY <3>1, <3>2
  <2>4. CASE ~(~wrapped /\ c >= next)
    <3>1. PICK j \in Ids : \/ pc[j] = "search" /\ chunk[j] = c
                           \/ pc[j] = "check" /\ chunk[j] = c /\ c >= ThreadCount
                           \/ pc[j] \in {"load", "exchange"} /\ nonce[j] <= n
      BY <1>x, <2>4 DEF OnItsWay
    <3>2. j # i
      BY <2>1, <3>1
    <3>. QED BY <2>1, <2>2, <3>1, <3>2 DEF OnItsWay
  <2>. QED BY <2>3, <2>4
<1>5. ASSUME NEW i \in Ids, Check(i) PROVE OnItsWay(n, c)'
  <2>1. UNCHANGED <<next, lowest, chunk, wrapped, nonce>> /\ pc[i] = "check"
    BY <1>5 DEF Check
  <2>2. \A j \in Ids : pc'[j] = IF j # i THEN pc[j]
                                ELSE IF GoesOn(i) THEN "search" ELSE "done"
    BY <1>0, <1>5 DEF Check, SearchTypeOK
  <2>3. CASE chunk[i] = c /\ c >= ThreadCount
    <3>1. Start(c) \in Nat
      BY <1>n, <1>v, StartMonotonic
    <3>2. GoesOn(i)
      BY <1>v, <1>w, <2>1, <2>3, <3>1 DEF GoesOn
    <3>. QED BY <2>1, <2>2, <2>3, <3>2 DEF OnItsWay
  <2>4. CASE ~(chunk[i] = c /\ c >= ThreadCount)
    BY <1>x, <2>1, <2>2, <2>4 DEF OnItsWay
  <2>. QED BY <2>3, <2>4
<1>6. CASE UNCHANGED search_vars
  BY <1>x, <1>6 DEF search_vars, OnItsWay
<1>. QED BY <1>1, <1>2, <1>3, <1>4, <1>5, <1>6 DEF SearchNext, Step, Terminated
-----------------------------------------------------------------------------
LEMMA SearchInductive == SearchSpec => []SearchInv
<1>1. SearchInv /\ [SearchNext]_search_vars => SearchInv'
  BY TypeStep, FoundStep, OrderStep, MissedStep DEF SearchInv
<1>. QED BY SearchInitInv, <1>1, PTL DEF SearchSpec

(* Every nonce below the last chunk is in a chunk of its own number. *)
LEMMA ChunkOf ==
  ASSUME NEW n \in Nat, n < Start(Chunks - 1)
  PROVE  \E c \in 0..(Chunks - 2) : Start(c) <= n /\ n < Start(c) + ChunkSize
<1> DEFINE c == n \div ChunkSize
<1>1. c \in Nat /\ c * ChunkSize <= n /\ n < c * ChunkSize + ChunkSize
  BY SizesAssumption
<1>2. ~(Chunks - 1 <= c)
  BY <1>1, SearchSizes, StartMonotonic DEF Start
<1>3. c \in 0..(Chunks - 2)
  BY <1>1, <1>2, SizesAssumption
<1>. QED BY <1>1, <1>3 DEF Start

(* No valid nonce below the lowest one found escapes the tasks. *)
THEOREM NoNonceIsMissed == SearchSpec => []NothingMissed
<1>1. SearchInv => NothingMissed
  BY DEF SearchInv
<1>. QED BY <1>1, SearchInductive, PTL

(* The proof of work is the smallest nonce the search can reach, whatever  *)
(* the number of tasks and however their steps interleave                  *)
(* (proof_of_work.inl:92-117).                                             *)
THEOREM LowestNonce == SearchSpec => []LowestNonceWins
<1>1. ASSUME SearchInv PROVE LowestNonceWins
  <2> SUFFICES ASSUME Finished PROVE LowestNonceWins
    BY DEF LowestNonceWins
  <2>0. SearchTypeOK /\ LowestInv /\ OrderInv /\ NothingMissed
    BY <1>1 DEF SearchInv
  <2>n. lowest \in Nat /\ valid \subseteq Nat /\ next \in Nat
    BY <2>0 DEF SearchTypeOK, Nonces, ChunkNumbers
  <2>1. ASSUME NEW n \in valid, n < Start(Chunks - 1) PROVE lowest <= n
    <3>1. PICK c \in 0..(Chunks - 2) : Start(c) <= n /\ n < Start(c) + ChunkSize
      BY <2>n, <2>1, ChunkOf
    <3>2. ~(\E i \in Ids : pc[i] \in {"search", "load", "exchange", "check"})
      BY DEF Finished
    <3>3. CASE wrapped
      BY <2>0, <2>n, <3>1, <3>2, <3>3 DEF NothingMissed, OnItsWay
    <3>4. CASE ~wrapped
      <4>1. 0 \in Ids
        BY SizesAssumption DEF Ids
      <4>2. lowest <= Start(next)
        BY <2>0, <3>4, <4>1 DEF OrderInv, Finished
      <4>3. CASE c >= next
        <5>1. Start(next) \in Nat /\ Start(next) <= Start(c) /\ Start(c) \in Nat
          BY <2>n, <4>3, StartMonotonic
        <5>. QED BY <2>n, <3>1, <4>2, <5>1
      <4>4. CASE ~(c >= next)
        BY <2>0, <2>n, <3>1, <3>2, <4>4 DEF NothingMissed, OnItsWay
      <4>. QED BY <4>3, <4>4
    <3>. QED BY <3>3, <3>4
  <2> DEFINE candidates == {n \in valid : n < Start(Chunks - 1)}
  <2>2. CASE candidates = {}
    BY <2>0, <2>2 DEF LowestInv, LowestNonceWins
  <2>3. CASE candidates # {}
    <3>1. PICK n \in valid : n < Start(Chunks - 1)
      BY <2>3
    <3>2. lowest # MaxNonce
      BY <2>1, <2>n, <3>1, SearchSizes
    <3>3. Verify(lowest)
      BY <2>0, <3>2 DEF LowestInv, Verify
    <3>. QED BY <2>1, <2>3, <3>3 DEF LowestNonceWins
  <2>. QED BY <2>2, <2>3
<1>. QED BY <1>1, SearchInductive, PTL
-----------------------------------------------------------------------------
(* Sizes. *)

LEMMA PowersGrow ==
  ASSUME NEW a \in Nat, NEW b \in Nat
  PROVE  /\ a < b => Pow2[a] < Pow2[b] /\ 2 * Pow2[a] <= Pow2[b]
         /\ a <= b => Pow2[a] <= Pow2[b]
         /\ a < Pow2[a]
<1>1. \A n \in Nat : Pow2[n] \in Nat \ {0} /\ Pow2[n + 1] = 2 * Pow2[n]
  BY Pow2Is
<1>2. Pow2[0] = 1
  BY Pow2Is
<1> DEFINE T == {n \in Nat : n < Pow2[n] /\ Pow2[a] <= Pow2[a + n]}
<1>3. 0 \in T
  <2>1. a + 0 = a /\ Pow2[a] \in Nat
    BY <1>1
  <2> QED BY <2>1, <1>2
<1>4. ASSUME NEW n \in T PROVE n + 1 \in T
  <2>1. n \in Nat /\ n < Pow2[n] /\ Pow2[a] <= Pow2[a + n]
    OBVIOUS
  <2>2. a + (n + 1) = (a + n) + 1 /\ a + n \in Nat /\ n + 1 \in Nat
    BY <2>1
  <2>3. PICK x, y, z \in Nat : x = Pow2[n] /\ y = Pow2[a + n] /\ z = Pow2[a]
    BY <1>1, <2>1, <2>2
  <2>4. Pow2[n + 1] = 2 * x /\ Pow2[a + (n + 1)] = 2 * y
    BY <1>1, <2>1, <2>2, <2>3
  <2> QED BY <2>1, <2>2, <2>3, <2>4
<1>5. T = Nat
  <2>1. T \in SUBSET Nat
    OBVIOUS
  <2> HIDE DEF T
  <2> QED BY <1>3, <1>4, <2>1, SetInduction
<1>6. a < Pow2[a]
  <2>1. a \in T
    BY <1>5
  <2> QED BY <2>1
<1>7. ASSUME a <= b PROVE Pow2[a] <= Pow2[b]
  <2>1. b - a \in Nat /\ a + (b - a) = b
    BY <1>7
  <2>2. b - a \in T
    BY <1>5, <2>1
  <2> QED BY <2>1, <2>2
<1>8. ASSUME a < b PROVE Pow2[a] < Pow2[b] /\ 2 * Pow2[a] <= Pow2[b]
  <2>1. b - (a + 1) \in Nat /\ b = (b - 1) + 1 /\ b - 1 \in Nat /\ (b - 1) - a \in Nat
        /\ a + ((b - 1) - a) = b - 1
    BY <1>8
  <2>2. (b - 1) - a \in T
    BY <1>5, <2>1
  <2>3. Pow2[a] <= Pow2[b - 1]
    BY <2>1, <2>2
  <2>4. PICK x, y \in Nat \ {0} : x = Pow2[a] /\ y = Pow2[b - 1]
    BY <1>1, <2>1
  <2>5. Pow2[b] = 2 * y
    BY <1>1, <2>1, <2>4
  <2> QED BY <2>3, <2>4, <2>5
<1> QED
  BY <1>6, <1>7, <1>8

LEMMA Log2Is ==
  ASSUME NEW a \in Nat
  PROVE  Log2(Pow2[a]) = a
<1>1. Pow2[a] \in Nat /\ a <= Pow2[a]
  BY Pow2Is, PowersGrow
<1>2. a \in 0..Pow2[a] /\ Pow2[a] = Pow2[a]
  BY <1>1
<1>3. ASSUME NEW k \in 0..Pow2[a], Pow2[k] = Pow2[a] PROVE k = a
  <2>1. k \in Nat
    BY <1>1
  <2>2. ~(k < a) /\ ~(a < k)
    BY <1>1, <1>3, <2>1, PowersGrow
  <2> QED BY <2>1, <2>2
<1> QED
  BY <1>2, <1>3 DEF Log2

LEMMA Log2CeilIs ==
  ASSUME NEW n \in Nat \ {0}
  PROVE  \E k \in Nat : k = Log2Ceil(n) /\ n <= Pow2[k] /\ (k = 0 \/ Pow2[k - 1] < n)
<1> DEFINE T == {k \in Nat : n <= Pow2[k]}
<1>1. n \in T
  BY PowersGrow, Pow2Is
<1>2. T \in SUBSET Nat /\ T # {}
  BY <1>1
<1>3. PICK k \in T : \A y \in T : k <= y
  <2> HIDE DEF T
  <2> QED BY <1>2, LeastOf
<1>4. k \in 0..n /\ n <= Pow2[k]
  BY <1>1, <1>3
<1>5. k = 0 \/ Pow2[k - 1] < n
  <2>1. ASSUME k # 0 PROVE Pow2[k - 1] < n
    <3>1. k - 1 \in Nat /\ ~(k <= k - 1)
      BY <1>4, <2>1
    <3>2. k - 1 \notin T
      BY <1>3, <3>1
    <3>3. Pow2[k - 1] \in Nat
      BY <3>1, Pow2Is
    <3> QED BY <3>1, <3>2, <3>3
  <2> QED BY <2>1
<1>6. Pow2[k] \in Nat /\ \E j \in 0..n : Pow2[j] >= n /\ (j = 0 \/ Pow2[j - 1] < n)
  BY <1>4, <1>5, Pow2Is
<1>7. PICK l \in 0..n : l = Log2Ceil(n) /\ Pow2[l] >= n /\ (l = 0 \/ Pow2[l - 1] < n)
  BY <1>6 DEF Log2Ceil
<1>8. l \in Nat /\ Pow2[l] \in Nat
  BY Pow2Is
<1> QED
  BY <1>7, <1>8

LEMMA WholeParts ==
  ASSUME NEW n \in Nat, NEW m \in Nat \ {0}
  PROVE  (n * m) \div m = n /\ (n * m) % m = 0
<1>1. \A p, x, r \in Nat : p > 0 /\ r < p => (p * x + r) \div p = x /\ (p * x + r) % p = r
  OBVIOUS
<1>2. PICK z \in Nat : z = m * n
  OBVIOUS
<1>3. n * m = z /\ m * n + 0 = z
  BY <1>2
<1>4. (m * n + 0) \div m = n /\ (m * n + 0) % m = 0
  BY ONLY <1>1, n \in Nat, m \in Nat \ {0}
<1> QED
  BY <1>3, <1>4

(* One power of two divides another if it is no larger. *)
LEMMA PowersDivide ==
  ASSUME NEW a \in Nat, NEW b \in Nat
  PROVE  /\ b <= a => Pow2[a] \div Pow2[b] = Pow2[a - b] /\ Pow2[a] = Pow2[a - b] * Pow2[b]
         /\ Pow2[a] % Pow2[b] = 0 => b <= a
         /\ b <= a => Pow2[a] % Pow2[b] = 0
<1>1. PICK x, y \in Nat \ {0} : x = Pow2[a] /\ y = Pow2[b]
  BY Pow2Is
<1>2. ASSUME b <= a PROVE Pow2[a] \div Pow2[b] = Pow2[a - b] /\ Pow2[a] = Pow2[a - b] * Pow2[b]
                          /\ Pow2[a] % Pow2[b] = 0
  <2>1. a - b \in Nat /\ (a - b) + b = a
    BY <1>2
  <2>2. PICK z \in Nat \ {0} : z = Pow2[a - b]
    BY <2>1, Pow2Is
  <2>3. x = z * y
    BY <1>1, <2>1, <2>2, Pow2Sum
  <2>4. (z * y) \div y = z /\ (z * y) % y = 0
    BY ONLY z \in Nat \ {0}, y \in Nat \ {0}, WholeParts
  <2> QED BY <1>1, <2>2, <2>3, <2>4
<1>3. ASSUME x % y = 0 PROVE b <= a
  <2>1. SUFFICES ASSUME a < b PROVE FALSE
    OBVIOUS
  <2>2. x < y
    BY <1>1, <2>1, PowersGrow
  <2>3. x % y = x
    BY <2>2, <1>1
  <2> QED BY <1>3, <2>3
<1> QED
  BY <1>1, <1>2, <1>3

LEMMA PackagesAre ==
  ASSUME shape \in Shapes, NEW n \in Nat
  PROVE  \E w \in Nat : w <= n /\ ElementsInPackage(Pow2[n]) = Pow2[w]
<1>1. PICK d, e \in Nat \ {0} : d = Digest /\ e = shape.elementSize
  BY TablesAssumption, DigestSizeAssumption
<1>2. CASE e >= 2 * d
  BY <1>1, <1>2, Pow2Is DEF ElementsInPackage
<1>3. CASE ~(e >= 2 * d)
  <2>1. PICK q \in Nat \ {0} : q = (2 * d - 1) \div e + 1
    <3>1. 2 * d - 1 \in Nat
      BY <1>1
    <3>2. (2 * d - 1) \div e \in Nat
      BY <1>1, <3>1
    <3> QED BY <3>2
  <2>2. PICK k \in Nat : k = Log2Ceil(q)
    BY Log2CeilIs
  <2>3. ElementsInPackage(Pow2[n]) = Least(Pow2[k], Pow2[n])
    BY <1>1, <1>3, <2>1, <2>2 DEF ElementsInPackage
  <2>4. Pow2[k] \in Nat /\ Pow2[n] \in Nat /\ (n < k => Pow2[n] < Pow2[k]) /\ (k < n => Pow2[k] < Pow2[n])
    BY Pow2Is, PowersGrow
  <2>5. CASE k <= n
    <3>1. Least(Pow2[k], Pow2[n]) = Pow2[k]
      BY <2>4, <2>5 DEF Least
    <3> QED BY <2>3, <2>5, <3>1
  <2>6. CASE n < k
    <3>1. Least(Pow2[k], Pow2[n]) = Pow2[n]
      BY <2>4, <2>6 DEF Least
    <3> QED BY <2>3, <3>1
  <2> QED BY <2>5, <2>6
<1> QED
  BY <1>2, <1>3

LEMMA TableSizes ==
  ASSUME shape \in Shapes
  PROVE  \E c, r, p, w \in Nat :
           /\ shape.cosets = Pow2[c] /\ shape.rows = Pow2[r] /\ Pieces = Pow2[p] /\ p <= r
           /\ NSegments = Pow2[c + p] /\ NRows = Pow2[r - p] /\ NSegments * NRows = Pow2[c + r]
           /\ PerPackage = Pow2[w] /\ w <= c + r
           /\ NPackages = Pow2[(c + r) - w] /\ Height = (c + r) - w
           /\ shape.cosets * shape.rows = Pow2[c + r]
           /\ shape.plain => w = 0 /\ r = 0 /\ p = 0
           /\ ~shape.plain => ElementsInPackage(Pow2[c + r]) = Pow2[w]
<1>1. PICK c, r, t \in Nat : shape.cosets = Pow2[c] /\ shape.rows = Pow2[r] /\ shape.nTasks = Pow2[t]
  <2>1. \A n \in {shape.cosets, shape.rows, shape.nTasks} : n \in Nat /\ \E k \in 0..n : n = Pow2[k]
    BY TablesAssumption
  <2>2. \A n \in {shape.cosets, shape.rows, shape.nTasks} : \E k \in Nat : n = Pow2[k]
    BY <2>1
  <2> QED BY <2>2
<1>2. PICK p \in Nat : Pieces = Pow2[p] /\ p <= r /\ (shape.plain => p = 0)
  <2>1. CASE Splits
    <3>1. Pieces = Pow2[t] /\ Pow2[r] >= Pow2[t] /\ ~shape.plain
      BY <1>1, <2>1 DEF Pieces, Splits
    <3>2. ~(Pow2[r] < Pow2[t])
      BY <3>1, Pow2Is
    <3>3. ~(r < t)
      BY <3>2, PowersGrow
    <3> QED BY <3>1, <3>3
  <2>2. CASE ~Splits
    BY <2>2, Pow2Is DEF Pieces
  <2> QED BY <2>1, <2>2
<1>3. NSegments = Pow2[c + p] /\ shape.cosets * shape.rows = Pow2[c + r]
  BY <1>1, <1>2, Pow2Sum DEF NSegments
<1>4. NRows = Pow2[r - p] /\ NSegments * NRows = Pow2[c + r]
  <2>1. NRows = Pow2[r - p]
    BY <1>1, <1>2, PowersDivide DEF NRows
  <2>2. r - p \in Nat /\ c + p \in Nat /\ (c + p) + (r - p) = c + r
    BY <1>2
  <2> QED BY <1>3, <2>1, <2>2, Pow2Sum
<1>5. shape.plain => r = 0
  <2>1. ASSUME shape.plain PROVE r = 0
    <3>1. Pow2[r] = 1
      BY <1>1, <2>1, TablesAssumption
    <3>2. ~(0 < r)
      BY <3>1, PowersGrow
    <3> QED BY <3>2
  <2> QED BY <2>1
<1>6. PICK w \in Nat : /\ PerPackage = Pow2[w] /\ w <= c + r /\ (shape.plain => w = 0)
                       /\ ~shape.plain => ElementsInPackage(Pow2[c + r]) = Pow2[w]
  <2>1. CASE shape.plain
    <3>1. PerPackage = Pow2[0]
      BY <2>1, Pow2Is DEF PerPackage
    <3> QED BY <2>1, <3>1
  <2>2. CASE ~shape.plain
    <3>1. PICK w \in Nat : w <= c + r /\ ElementsInPackage(Pow2[c + r]) = Pow2[w]
      BY PackagesAre
    <3> QED BY <2>2, <3>1, <1>3 DEF PerPackage
  <2> QED BY <2>1, <2>2
<1>7. NPackages = Pow2[(c + r) - w] /\ Height = (c + r) - w
  <2>1. (c + r) - w \in Nat
    BY <1>6
  <2>2. NPackages = Pow2[(c + r) - w]
    BY <1>4, <1>6, PowersDivide DEF NPackages
  <2> QED BY <2>1, <2>2, Log2Is DEF Height
<1> QED
  BY <1>1, <1>2, <1>3, <1>4, <1>5, <1>6, <1>7

(* What the sizes are of a table that the constructors accept. *)
Sizes(w, h, s, i) ==
  /\ h = s + i /\ Height = h /\ InSegment = i
  /\ PerPackage = Pow2[w] /\ NSegments = Pow2[s] /\ NPackages = Pow2[h] /\ NRows = Pow2[w + i]
  /\ NElements(0) = Pow2[w + h] /\ \A k \in 1..(h + 1) : NElements(k) = Pow2[h - (k - 1)]
  /\ shape.plain => w = 0 /\ i = 0

LEMMA SizesAre ==
  ASSUME shape \in Shapes, Builds(NSegments)
  PROVE  \E w, h, s, i \in Nat : Sizes(w, h, s, i)
<1>1. PICK c, r, p, w \in Nat :
           /\ shape.cosets = Pow2[c] /\ shape.rows = Pow2[r] /\ Pieces = Pow2[p] /\ p <= r
           /\ NSegments = Pow2[c + p] /\ NRows = Pow2[r - p] /\ NSegments * NRows = Pow2[c + r]
           /\ PerPackage = Pow2[w] /\ w <= c + r
           /\ NPackages = Pow2[(c + r) - w] /\ Height = (c + r) - w
           /\ shape.cosets * shape.rows = Pow2[c + r]
           /\ shape.plain => w = 0 /\ r = 0 /\ p = 0
           /\ ~shape.plain => ElementsInPackage(Pow2[c + r]) = Pow2[w]
  BY TableSizes
<1>2. PICK h, s \in Nat : h = (c + r) - w /\ s = c + p
  BY <1>1
<1>3. s <= h
  <2>1. CASE shape.plain
    BY <1>1, <1>2, <2>1
  <2>2. CASE ~shape.plain
    <3>1. Pow2[h] % Pow2[s] = 0
      <4>1. (Pow2[c + r] \div Pow2[w]) % Pow2[s] = 0
        BY <1>1, <1>2, <2>2 DEF Builds, PackagesFit
      <4>2. Pow2[c + r] \div Pow2[w] = Pow2[h]
        BY <1>1, <1>2, PowersDivide
      <4> QED BY <4>1, <4>2
    <3> QED BY <3>1, PowersDivide
  <2> QED BY <2>1, <2>2
<1>4. PICK i \in Nat : i = h - s /\ h = s + i
  BY <1>3
<1>5. InSegment = i
  <2>1. NPackages \div NSegments = Pow2[i]
    BY <1>1, <1>2, <1>3, <1>4, PowersDivide
  <2> QED BY <2>1, Log2Is DEF InSegment
<1>6. r - p = w + i
  BY <1>1, <1>2, <1>4
<1>7. c + r = w + h
  BY <1>1, <1>2
<1>8. NElements(0) = Pow2[w + h]
  BY <1>1, <1>7 DEF NElements
<1>9. ASSUME NEW k \in 1..(h + 1) PROVE NElements(k) = Pow2[h - (k - 1)]
  <2>1. k - 1 \in Nat /\ k - 1 <= h /\ k # 0
    OBVIOUS
  <2>2. NElements(k) = Pow2[h] \div Pow2[k - 1]
    BY <1>1, <1>2, <2>1 DEF NElements
  <2> QED BY <2>1, <2>2, PowersDivide
<1>10. Sizes(w, h, s, i)
  BY <1>1, <1>2, <1>4, <1>5, <1>6, <1>8, <1>9 DEF Sizes
<1> QED
  BY <1>10

(* A piece of a segment that is cut holds whole packages. *)
LEMMA SplittingFits ==
  ASSUME shape \in Shapes, ~shape.plain, PackagesFit(shape.cosets)
  PROVE  PackagesFit(NSegments)
<1>1. PICK c, r, p, w \in Nat :
           /\ shape.cosets = Pow2[c] /\ shape.rows = Pow2[r] /\ Pieces = Pow2[p] /\ p <= r
           /\ NSegments = Pow2[c + p] /\ NRows = Pow2[r - p] /\ NSegments * NRows = Pow2[c + r]
           /\ PerPackage = Pow2[w] /\ w <= c + r
           /\ NPackages = Pow2[(c + r) - w] /\ Height = (c + r) - w
           /\ shape.cosets * shape.rows = Pow2[c + r]
           /\ shape.plain => w = 0 /\ r = 0 /\ p = 0
           /\ ~shape.plain => ElementsInPackage(Pow2[c + r]) = Pow2[w]
  BY TableSizes
<1>2. CASE ~Splits
  <2>1. Pieces = 1 /\ shape.cosets \in Nat
    <3>1. Pieces = 1
      BY <1>2 DEF Pieces
    <3>2. Pow2[c] \in Nat
      BY Pow2Is
    <3> QED BY <1>1, <3>1, <3>2
  <2>2. NSegments = shape.cosets
    BY <2>1 DEF NSegments
  <2> QED BY <2>2
<1>3. CASE Splits
  <2>1. PICK d, e \in Nat \ {0} : d = Digest /\ e = shape.elementSize
    BY TablesAssumption, DigestSizeAssumption
  <2>2. PICK x, y \in Nat \ {0} : x = Pow2[r - p] /\ y = Pow2[p] /\ shape.rows = x * y
    <3>1. r - p \in Nat /\ Pow2[r] = Pow2[r - p] * Pow2[p]
      BY <1>1, PowersDivide
    <3> QED BY <1>1, <3>1, Pow2Is
  <2>3. e * (x * y) > y * 2 * d
    BY <1>1, <1>3, <2>1, <2>2 DEF Splits, Pieces
  <2>4. e * x > 2 * d
    <3>1. SUFFICES ASSUME e * x <= 2 * d PROVE FALSE
      BY <2>1, <2>2
    <3>2. PICK u, v \in Nat : u = e * x /\ v = 2 * d /\ u <= v
      BY <2>1, <2>2, <3>1
    <3>3. y * u <= y * v
      BY <2>2, <3>2
    <3>4. e * (x * y) = y * u /\ y * 2 * d = y * v
      BY <2>1, <2>2, <3>2
    <3> QED BY <2>2, <2>3, <3>2, <3>3, <3>4
  <2>5. w <= r - p
    <3>1. CASE e >= 2 * d
      <4>1. ElementsInPackage(Pow2[c + r]) = 1
        BY <2>1, <3>1 DEF ElementsInPackage
      <4>2. Pow2[w] = 1
        BY <1>1, <4>1
      <4>3. ~(0 < w)
        BY <4>2, PowersGrow
      <4> QED BY <1>1, <4>3
    <3>2. CASE ~(e >= 2 * d)
      <4>1. PICK z \in Nat : z = (2 * d - 1) \div e /\ z * e <= 2 * d - 1
        <5>1. 2 * d - 1 \in Nat
          BY <2>1
        <5>2. \A m \in Nat : (m \div e) \in Nat /\ (m \div e) * e <= m
          BY <2>1
        <5> QED BY <5>1, <5>2
      <4>2. z < x
        <5>1. SUFFICES ASSUME x <= z PROVE FALSE
          BY <2>2, <4>1
        <5>2. e * x <= e * z
          BY <2>1, <2>2, <4>1, <5>1
        <5>3. e * z = z * e /\ e * z \in Nat
          BY <2>1, <4>1
        <5> QED BY <2>1, <2>2, <2>4, <4>1, <5>2, <5>3
      <4>3. PICK q \in Nat \ {0} : q = (2 * d - 1) \div e + 1 /\ q <= x
        BY <2>2, <4>1, <4>2
      <4>4. PICK k \in Nat : k = Log2Ceil(q) /\ q <= Pow2[k] /\ (k = 0 \/ Pow2[k - 1] < q)
        BY Log2CeilIs
      <4>5. k <= r - p
        <5>1. SUFFICES ASSUME r - p < k PROVE FALSE
          BY <1>1
        <5>2. k # 0 /\ k - 1 \in Nat /\ r - p \in Nat /\ r - p <= k - 1
          BY <1>1, <5>1
        <5>3. Pow2[r - p] <= Pow2[k - 1] /\ Pow2[k - 1] \in Nat
          BY <5>2, PowersGrow, Pow2Is
        <5> QED BY <2>2, <4>3, <4>4, <5>2, <5>3
      <4>6. Pow2[w] = Least(Pow2[k], Pow2[c + r])
        BY <1>1, <2>1, <3>2, <4>3, <4>4 DEF ElementsInPackage
      <4>7. Pow2[w] <= Pow2[k]
        <5>1. Pow2[k] \in Nat /\ Pow2[c + r] \in Nat
          BY <1>1, Pow2Is
        <5> QED BY <4>6, <5>1 DEF Least
      <4>8. ~(k < w)
        <5>1. ASSUME k < w PROVE FALSE
          <6>1. Pow2[k] < Pow2[w] /\ Pow2[k] \in Nat /\ Pow2[w] \in Nat
            BY <5>1, PowersGrow, Pow2Is
          <6> QED BY <4>7, <6>1
        <5> QED BY <5>1
      <4> QED BY <1>1, <4>5, <4>8
    <3> QED BY <3>1, <3>2
  <2>6. Pow2[c + r] \div Pow2[w] = Pow2[(c + r) - w] /\ (c + r) - w \in Nat /\ c + p <= (c + r) - w
    BY <1>1, <2>5, PowersDivide
  <2>7. Pow2[(c + r) - w] % Pow2[c + p] = 0
    BY <2>6, PowersDivide
  <2> QED BY <1>1, <2>6, <2>7 DEF PackagesFit
<1> QED
  BY <1>2, <1>3

-----------------------------------------------------------------------------
(* Recursion, solved. *)

LEMMA AscendingSteps ==
  ASSUME NEW S
  PROVE  /\ Ascending(S, 0) = <<>>
         /\ \A n \in Nat : /\ Ascending(S, n) \in Seq(Nat)
                          /\ Ascending(S, n + 1) = IF n \in S THEN Append(Ascending(S, n), n)
                                                   ELSE Ascending(S, n)
<1>1. PICK step : step = [x \in Nat \X Seq(Nat) |-> IF x[1] \in S THEN Append(x[2], x[1]) ELSE x[2]]
  OBVIOUS
<1>2. step \in [Nat \X Seq(Nat) -> Seq(Nat)] /\ <<>> \in Seq(Nat)
  BY <1>1
<1>3. PICK f : Recurs(f, Seq(Nat), <<>>, step)
  BY <1>2, RecursionHasSolution
<1>4. f \in [Nat -> Seq(Nat)] /\ f[0] = <<>> /\ \A n \in Nat : f[n + 1] = step[<<n, f[n]>>]
  BY <1>3 DEF Recurs
<1>5. ASSUME NEW n \in Nat PROVE f[n + 1] = IF n \in S THEN Append(f[n], n) ELSE f[n]
  <2>1. <<n, f[n]>> \in Nat \X Seq(Nat)
    BY <1>4
  <2>2. step[<<n, f[n]>>] = IF n \in S THEN Append(f[n], n) ELSE f[n]
    BY <1>1, <2>1
  <2> QED BY <1>4, <2>2
<1>6. ASSUME NEW n \in Nat PROVE Ascending(S, n) = f[n]
  <2> DEFINE Body(g) == [i \in 0..n |-> IF i = 0 THEN <<>>
                          ELSE IF i - 1 \in S THEN Append(g[i - 1], i - 1) ELSE g[i - 1]]
             g == CHOOSE g : g = Body(g)
  <2>1. PICK h : h = [i \in 0..n |-> f[i]]
    OBVIOUS
  <2>2. ASSUME NEW i \in 0..n
        PROVE  h[i] = IF i = 0 THEN <<>> ELSE IF i - 1 \in S THEN Append(h[i - 1], i - 1) ELSE h[i - 1]
    <3>1. CASE i = 0
      BY <1>4, <2>1, <3>1
    <3>2. CASE i # 0
      <4>1. i - 1 \in Nat /\ i - 1 \in 0..n /\ (i - 1) + 1 = i
        BY <3>2
      <4>2. f[(i - 1) + 1] = IF i - 1 \in S THEN Append(f[i - 1], i - 1) ELSE f[i - 1]
        BY <1>5, <4>1
      <4>3. h[i] = f[i] /\ h[i - 1] = f[i - 1]
        BY <2>1, <4>1
      <4> QED BY <3>2, <4>1, <4>2, <4>3
    <3> QED BY <3>1, <3>2
  <2>3. h = Body(h)
    <3>1. PICK e : e = Body(h)
      OBVIOUS
    <3>2. \A i \in 0..n : e[i] = h[i]
      BY <2>2, <3>1
    <3>3. h = [i \in 0..n |-> h[i]] /\ e = [i \in 0..n |-> e[i]]
      BY <2>1, <3>1
    <3> QED BY <3>1, <3>2, <3>3
  <2>4. g = Body(g)
    BY <2>3
  <2>5. Ascending(S, n) = g[n]
    BY DEF Ascending
  <2> HIDE DEF g
  <2> DEFINE T == {i \in 0..n : g[i] = f[i]}
  <2>6. 0 \in T
    BY <1>4, <2>4
  <2>7. ASSUME NEW i \in 0..(n - 1), i \in T PROVE i + 1 \in T
    <3>1. i + 1 \in 0..n /\ i \in Nat /\ i + 1 # 0 /\ (i + 1) - 1 = i
      OBVIOUS
    <3>2. g[i + 1] = IF (i + 1) - 1 \in S THEN Append(g[(i + 1) - 1], (i + 1) - 1) ELSE g[(i + 1) - 1]
      BY <2>4, <3>1
    <3>3. g[i] = f[i]
      BY <2>7
    <3> QED BY <1>5, <3>1, <3>2, <3>3
  <2>8. \A i \in 0..n : i \in T
    <3> HIDE DEF T
    <3> QED BY <2>6, <2>7, SegmentInduction
  <2>9. n \in T
    BY <2>8
  <2> QED BY <2>5, <2>9
<1>7. ASSUME NEW n \in Nat
      PROVE  /\ Ascending(S, n) \in Seq(Nat)
             /\ Ascending(S, n + 1) = IF n \in S THEN Append(Ascending(S, n), n) ELSE Ascending(S, n)
  <2>1. n + 1 \in Nat
    OBVIOUS
  <2>2. Ascending(S, n) = f[n] /\ Ascending(S, n + 1) = f[n + 1]
    BY <1>6, <2>1
  <2> QED BY <1>4, <1>5, <2>2
<1> QED
  BY <1>4, <1>6, <1>7

LEMMA LevelsAre ==
  ASSUME NEW elements, NEW n \in Nat, NEW kinds
  PROVE  /\ Levels(elements, n, kinds)[0] = elements
         /\ \A k \in 0..(n - 1) : Levels(elements, n, kinds)[k + 1] =
              PackAndHash(Levels(elements, n, kinds)[k], PackSize(k), kinds[k])
<1> DEFINE Above(k, below) == PackAndHash(below, PackSize(k), kinds[k])
           Solves(g, m) == g = [k \in 0..m |-> IF k = 0 THEN elements ELSE Above(k - 1, g[k - 1])]
           T == {m \in 0..n : \E g : Solves(g, m)}
<1> HIDE DEF Above
<1>1. 0 \in T
  <2>1. PICK g : g = [k \in 0..0 |-> elements]
    OBVIOUS
  <2>2. \A k \in 0..0 : k = 0 /\ g[k] = elements
    BY <2>1
  <2>3. g = [k \in 0..0 |-> IF k = 0 THEN elements ELSE Above(k - 1, g[k - 1])]
    BY <2>1, <2>2
  <2>4. 0 \in 0..n
    OBVIOUS
  <2> QED BY <2>3, <2>4
<1>2. ASSUME NEW m \in 0..(n - 1), m \in T PROVE m + 1 \in T
  <2>1. m + 1 \in 0..n /\ m \in Nat
    OBVIOUS
  <2>2. PICK g : Solves(g, m)
    BY <1>2
  <2>3. PICK h : h = [k \in 0..(m + 1) |-> IF k = m + 1 THEN Above(m, g[m]) ELSE g[k]]
    OBVIOUS
  <2>4. ASSUME NEW k \in 0..(m + 1)
        PROVE  h[k] = IF k = 0 THEN elements ELSE Above(k - 1, h[k - 1])
    <3>1. CASE k = m + 1
      <4>1. k # 0 /\ k - 1 = m /\ m \in 0..(m + 1) /\ m # m + 1
        BY <2>1, <3>1
      <4>2. h[m] = g[m] /\ h[k] = Above(m, g[m])
        BY <2>3, <3>1, <4>1
      <4> QED BY <4>1, <4>2
    <3>2. CASE k # m + 1
      <4>1. k \in 0..m
        BY <2>1, <3>2
      <4>2. h[k] = g[k] /\ g[k] = IF k = 0 THEN elements ELSE Above(k - 1, g[k - 1])
        BY <2>2, <2>3, <3>2, <4>1
      <4>3. CASE k = 0
        BY <4>2, <4>3
      <4>4. CASE k # 0
        <5>1. k - 1 \in 0..(m + 1) /\ k - 1 # m + 1
          BY <2>1, <4>1, <4>4
        <5>2. h[k - 1] = g[k - 1]
          BY <2>3, <5>1
        <5> QED BY <4>2, <4>4, <5>2
      <4> QED BY <4>3, <4>4
    <3> QED BY <3>1, <3>2
  <2>5. Solves(h, m + 1)
    <3>1. PICK e : e = [k \in 0..(m + 1) |-> IF k = 0 THEN elements ELSE Above(k - 1, h[k - 1])]
      OBVIOUS
    <3>2. \A k \in 0..(m + 1) : e[k] = h[k]
      BY <2>4, <3>1
    <3>3. h = [k \in 0..(m + 1) |-> h[k]] /\ e = [k \in 0..(m + 1) |-> e[k]]
      BY <2>3, <3>1
    <3> QED BY <3>1, <3>2, <3>3
  <2> QED BY <2>1, <2>5
<1>3. n \in T
  <2>1. \A m \in 0..n : m \in T
    <3> HIDE DEF T
    <3> QED BY <1>1, <1>2, SegmentInduction
  <2> QED BY <2>1
<1> DEFINE up == CHOOSE g : Solves(g, n)
<1>4. up = [k \in 0..n |-> IF k = 0 THEN elements ELSE Above(k - 1, up[k - 1])]
  <2>1. \E g : Solves(g, n)
    BY <1>3
  <2> QED BY <2>1
<1>5. Levels(elements, n, kinds) = up
  BY DEF Levels, Above
<1> HIDE DEF up
<1>6. up[0] = elements
  BY <1>4
<1>7. ASSUME NEW k \in 0..(n - 1) PROVE up[k + 1] = PackAndHash(up[k], PackSize(k), kinds[k])
  <2>1. k + 1 \in 0..n /\ k + 1 # 0 /\ (k + 1) - 1 = k
    OBVIOUS
  <2>2. up[k + 1] = Above((k + 1) - 1, up[(k + 1) - 1])
    BY <1>4, <2>1
  <2> QED BY <2>1, <2>2 DEF Above
<1> QED
  BY <1>5, <1>6, <1>7

-----------------------------------------------------------------------------
(* Packing, level by level. *)

LEMMA PartIs ==
  ASSUME NEW s, NEW a \in Nat, NEW b \in Nat
  PROVE  SubSeq(s, a + 1, a + b) = [x \in 1..b |-> s[a + x]]
<1> DEFINE V == {s[x] : x \in (a + 1)..(a + b)}
<1>1. \A x \in (a + 1)..(a + b) : s[x] \in V
  OBVIOUS
<1>2. /\ SubSeq(s, a + 1, a + b) \in Seq(V)
      /\ Len(SubSeq(s, a + 1, a + b)) = IF a + 1 <= a + b THEN (a + b) - (a + 1) + 1 ELSE 0
      /\ \A x \in 1..((a + b) - (a + 1) + 1) : SubSeq(s, a + 1, a + b)[x] = s[(a + 1) + x - 1]
  <2> HIDE DEF V
  <2> QED BY <1>1, SubSeqProperties
<1>3. PICK t \in Seq(V) : t = SubSeq(s, a + 1, a + b)
  BY <1>2
<1>4. Len(t) = b
  BY <1>2, <1>3
<1>5. \A x \in 1..b : t[x] = s[a + x]
  <2>1. TAKE x \in 1..b
  <2>2. (a + 1) + x - 1 = a + x /\ x \in 1..((a + b) - (a + 1) + 1)
    OBVIOUS
  <2> QED BY <1>2, <1>3, <2>2
<1>6. t = [x \in 1..b |-> t[x]]
  <2>1. IsList(t)
    BY ListIs
  <2> QED BY <1>4, <2>1, ListProperties
<1> QED
  BY <1>3, <1>5, <1>6

Indexed(f, n) == f = [x \in 1..n |-> f[x]]
Packed(f, n, size, kind) == [x \in 1..n |-> Hash(kind, [y \in 1..size |-> f[(x - 1) * size + y]])]

LEMMA PackedAre ==
  ASSUME NEW f, NEW n \in Nat, NEW size \in Nat \ {0}, NEW kind, Indexed(f, n * size)
  PROVE  /\ PackAndHash(f, size, kind) = Packed(f, n, size, kind)
         /\ Indexed(Packed(f, n, size, kind), n)
<1>1. n * size \in Nat
  OBVIOUS
<1>2. Len(f) = n * size
  BY <1>1, IndexedIsList DEF Indexed
<1>3. Len(f) \div size = n
  BY <1>2, WholeParts
<1>4. ASSUME NEW x \in 1..n
      PROVE  SubSeq(f, (x - 1) * size + 1, x * size) = [y \in 1..size |-> f[(x - 1) * size + y]]
  <2>1. PICK a \in Nat : a = (x - 1) * size
    <3>1. x - 1 \in Nat
      OBVIOUS
    <3> QED BY <3>1
  <2>2. x * size = a + size
    BY <2>1
  <2>3. SubSeq(f, a + 1, a + size) = [y \in 1..size |-> f[a + y]]
    <3>1. a \in Nat /\ size \in Nat
      BY <2>1
    <3> QED BY ONLY <3>1, PartIs
  <2> QED BY ONLY <2>1, <2>2, <2>3
<1>5. PackAndHash(f, size, kind) = Packed(f, n, size, kind)
  BY <1>3, <1>4 DEF PackAndHash, Packed
<1>6. Indexed(Packed(f, n, size, kind), n)
  BY DEF Indexed, Packed
<1> QED
  BY <1>5, <1>6

LEMMA LevelSizes ==
  ASSUME NEW w \in Nat, NEW h \in Nat, NEW s \in Nat, NEW i \in Nat, Sizes(w, h, s, i)
  PROVE  /\ \A k \in 0..(h + 1) : NElements(k) \in Nat \ {0}
         /\ \A k \in Nat : PackSize(k) \in Nat \ {0}
         /\ \A k \in 0..h : NElements(k) = NElements(k + 1) * PackSize(k)
         /\ NElements(h + 1) = 1
         /\ TreeLevel \in 0..(h + 1) /\ NElements(TreeLevel) = NSegments
<1>1. /\ h = s + i /\ Height = h /\ InSegment = i /\ PerPackage = Pow2[w] /\ NSegments = Pow2[s]
      /\ NElements(0) = Pow2[w + h] /\ \A k \in 1..(h + 1) : NElements(k) = Pow2[h - (k - 1)]
      /\ shape.plain => w = 0 /\ i = 0
  BY DEF Sizes
<1>2. ASSUME NEW k \in 0..(h + 1) PROVE NElements(k) \in Nat \ {0}
  <2>1. CASE k = 0
    BY <1>1, <2>1, Pow2Is
  <2>2. CASE k # 0
    <3>1. h - (k - 1) \in Nat /\ k \in 1..(h + 1)
      BY <2>2
    <3> QED BY <1>1, <3>1, Pow2Is
  <2> QED BY <2>1, <2>2
<1>3. ASSUME NEW k \in Nat PROVE PackSize(k) \in Nat \ {0}
  BY <1>1, Pow2Is DEF PackSize
<1>4. ASSUME NEW k \in 0..h PROVE NElements(k) = NElements(k + 1) * PackSize(k)
  <2>1. NElements(k + 1) = Pow2[h - k] /\ h - k \in Nat
    <3>1. k + 1 \in 1..(h + 1) /\ (k + 1) - 1 = k
      OBVIOUS
    <3> QED BY <1>1, <3>1
  <2>2. CASE k = 0
    <3>1. PackSize(k) = Pow2[w] /\ NElements(k + 1) = Pow2[h]
      BY <1>1, <2>1, <2>2 DEF PackSize
    <3>2. Pow2[h + w] = Pow2[h] * Pow2[w] /\ h + w = w + h
      BY Pow2Sum
    <3> QED BY <1>1, <2>2, <3>1, <3>2
  <2>3. CASE k # 0
    <3>1. PackSize(k) = 2
      BY <2>3 DEF PackSize
    <3>2. k \in 1..(h + 1) /\ h - (k - 1) = (h - k) + 1
      BY <2>3
    <3>3. NElements(k) = Pow2[(h - k) + 1]
      BY <1>1, <3>2
    <3>4. Pow2[(h - k) + 1] = 2 * Pow2[h - k] /\ Pow2[h - k] \in Nat
      BY <2>1, Pow2Is
    <3> QED BY <2>1, <3>1, <3>3, <3>4
  <2> QED BY <2>2, <2>3
<1>5. NElements(h + 1) = 1
  <2>1. h + 1 \in 1..(h + 1) /\ h - ((h + 1) - 1) = 0
    OBVIOUS
  <2>2. NElements(h + 1) = Pow2[0]
    BY <1>1, <2>1
  <2> QED BY <2>2, Pow2Is
<1>6. TreeLevel \in 0..(h + 1) /\ NElements(TreeLevel) = NSegments
  <2>1. CASE shape.plain
    <3>1. TreeLevel = 0 /\ w + h = s
      BY <1>1, <2>1 DEF TreeLevel
    <3> QED BY <1>1, <3>1
  <2>2. CASE ~shape.plain
    <3>1. TreeLevel = i + 1 /\ i + 1 \in 1..(h + 1) /\ h - ((i + 1) - 1) = s
      BY <1>1, <2>2 DEF TreeLevel
    <3> QED BY <1>1, <3>1
  <2> QED BY <2>1, <2>2
<1> QED
  BY <1>2, <1>3, <1>4, <1>5, <1>6

(* The elements of the levels that the verifier hashes, by their index.    *)
TableLevels ==
  Levels([x \in 1..NElements(0) |-> Row(x - 1)], VTreeLevel, [k \in 0..(VTreeLevel - 1) |-> VHash(k)])
Element(k, j) == TableLevels[k][j + 1]
Children(k, j) == [y \in 1..PackSize(k) |-> Element(k, j * PackSize(k) + y - 1)]

LEMMA ElementsAre ==
  ASSUME NEW w \in Nat, NEW h \in Nat, NEW s \in Nat, NEW i \in Nat, Sizes(w, h, s, i),
         shape \in Shapes
  PROVE  /\ \A j \in 0..(NElements(0) - 1) : Element(0, j) = Row(j)
         /\ ~shape.plain => \A k \in 0..h : \A j \in 0..(NElements(k + 1) - 1) :
              Element(k + 1, j) = Hash(VHash(k), Children(k, j))
         /\ ~shape.plain => CanonicalRoot = Element(h + 1, 0)
<1>1. /\ \A k \in 0..(h + 1) : NElements(k) \in Nat \ {0}
      /\ \A k \in Nat : PackSize(k) \in Nat \ {0}
      /\ \A k \in 0..h : NElements(k) = NElements(k + 1) * PackSize(k)
  BY LevelSizes
<1>2. VTreeLevel \in Nat /\ (~shape.plain => VTreeLevel = h + 1)
  BY DEF VTreeLevel, Sizes
<1> DEFINE rows == [x \in 1..NElements(0) |-> Row(x - 1)]
           kinds == [k \in 0..(VTreeLevel - 1) |-> VHash(k)]
<1>3. /\ TableLevels[0] = rows
      /\ \A k \in 0..(VTreeLevel - 1) : TableLevels[k + 1] =
           PackAndHash(TableLevels[k], PackSize(k), kinds[k])
  <2> HIDE DEF rows, kinds
  <2>1. TableLevels = Levels(rows, VTreeLevel, kinds)
    BY DEF TableLevels, rows, kinds
  <2> QED BY <1>2, <2>1, LevelsAre
<1>4. ASSUME NEW j \in 0..(NElements(0) - 1) PROVE Element(0, j) = Row(j)
  <2>1. NElements(0) \in Nat
    BY <1>1
  <2>2. j + 1 \in 1..NElements(0) /\ (j + 1) - 1 = j
    BY <2>1
  <2>3. rows[j + 1] = Row((j + 1) - 1)
    BY <2>2
  <2> QED BY <1>3, <2>2, <2>3 DEF Element
<1>5. ASSUME ~shape.plain
      PROVE  \A k \in 0..h : \A j \in 0..(NElements(k + 1) - 1) :
               Element(k + 1, j) = Hash(VHash(k), Children(k, j))
  <2> DEFINE Shaped(k) == Indexed(TableLevels[k], NElements(k))
             Above(k) == TableLevels[k + 1] =
                          Packed(TableLevels[k], NElements(k + 1), PackSize(k), VHash(k))
             T == {k \in 0..(h + 1) : Shaped(k)}
  <2>1. 0 \in T
    <3>1. 0 \in 0..(h + 1)
      OBVIOUS
    <3>2. Shaped(0)
      BY <1>3 DEF Indexed
    <3> QED BY <3>1, <3>2
  <2>2. ASSUME NEW k \in 0..h, Shaped(k) PROVE Above(k) /\ Shaped(k + 1)
    <3>1. PICK n \in Nat : n = NElements(k + 1)
      BY <1>1
    <3>2. PICK size \in Nat \ {0} : size = PackSize(k)
      BY <1>1
    <3>3. PICK f : f = TableLevels[k]
      OBVIOUS
    <3>4. Indexed(f, n * size)
      <4>1. NElements(k) = n * size
        BY <1>1, <3>1, <3>2
      <4> QED BY <2>2, <3>3, <4>1
    <3>5. PackAndHash(f, size, VHash(k)) = Packed(f, n, size, VHash(k))
          /\ Indexed(Packed(f, n, size, VHash(k)), n)
      BY <3>4, PackedAre
    <3>6. k \in 0..(VTreeLevel - 1) /\ kinds[k] = VHash(k)
      BY <1>2, <1>5
    <3>7. TableLevels[k + 1] = PackAndHash(f, size, VHash(k))
      BY <1>3, <3>2, <3>3, <3>6
    <3> QED BY <3>1, <3>2, <3>3, <3>5, <3>7
  <2>3. ASSUME NEW k \in 0..((h + 1) - 1), k \in T PROVE k + 1 \in T
    <3>1. k \in 0..h /\ k + 1 \in 0..(h + 1)
      OBVIOUS
    <3>2. Shaped(k + 1)
      BY <2>2, <2>3, <3>1
    <3> QED BY <3>1, <3>2
  <2>4. \A k \in 0..(h + 1) : k \in T
    <3> HIDE DEF T
    <3>1. h + 1 \in Nat
      OBVIOUS
    <3> QED BY <2>1, <2>3, <3>1, SegmentInduction
  <2>5. TAKE k \in 0..h
  <2>6. Above(k)
    <3>1. k \in T
      BY <2>4
    <3> QED BY <2>2, <3>1
  <2>7. TAKE j \in 0..(NElements(k + 1) - 1)
  <2>8. j + 1 \in 1..NElements(k + 1) /\ (j + 1) - 1 = j
    BY <1>1
  <2>9. TableLevels[k + 1][j + 1] =
          Hash(VHash(k), [y \in 1..PackSize(k) |-> TableLevels[k][j * PackSize(k) + y]])
    BY <2>6, <2>8 DEF Packed
  <2>10. [y \in 1..PackSize(k) |-> TableLevels[k][j * PackSize(k) + y]] = Children(k, j)
    <3>1. PICK a \in Nat : a = j * PackSize(k)
      BY <1>1
    <3>2. \A y \in 1..PackSize(k) : (a + y - 1) + 1 = a + y
      BY <1>1
    <3> QED BY <3>1, <3>2 DEF Children, Element
  <2> QED BY <2>9, <2>10 DEF Element
<1>6. ASSUME ~shape.plain PROVE CanonicalRoot = Element(h + 1, 0)
  <2>1. CanonicalRoot = TableLevels[VTreeLevel][1]
    BY DEF CanonicalRoot, TableLevels
  <2> QED BY <1>2, <1>6, <2>1 DEF Element
<1> QED
  BY <1>4, <1>5, <1>6

(* What a segment has of each level. *)
InEach(w, i, k) == IF k = 0 THEN Pow2[w + i] ELSE Pow2[i - (k - 1)]

LEMMA SegmentSizes ==
  ASSUME NEW w \in Nat, NEW h \in Nat, NEW s \in Nat, NEW i \in Nat, Sizes(w, h, s, i)
  PROVE  /\ \A k \in 0..TreeLevel : /\ InEach(w, i, k) \in Nat \ {0}
                                    /\ NElements(k) = NSegments * InEach(w, i, k)
         /\ \A k \in 0..(TreeLevel - 1) : InEach(w, i, k) = InEach(w, i, k + 1) * PackSize(k)
         /\ InEach(w, i, TreeLevel) = 1
         /\ NRows = InEach(w, i, 0)
<1>1. /\ h = s + i /\ Height = h /\ InSegment = i /\ PerPackage = Pow2[w] /\ NSegments = Pow2[s]
      /\ NElements(0) = Pow2[w + h] /\ \A k \in 1..(h + 1) : NElements(k) = Pow2[h - (k - 1)]
      /\ (shape.plain => w = 0 /\ i = 0) /\ NRows = Pow2[w + i]
  BY DEF Sizes
<1>2. /\ shape.plain => TreeLevel = 0
      /\ ~shape.plain => TreeLevel = i + 1
  BY <1>1 DEF TreeLevel
<1>3. ASSUME NEW k \in 0..TreeLevel
      PROVE  InEach(w, i, k) \in Nat \ {0} /\ NElements(k) = NSegments * InEach(w, i, k)
  <2>1. CASE k = 0
    <3>1. Pow2[s + (w + i)] = Pow2[s] * Pow2[w + i] /\ s + (w + i) = w + h
      BY <1>1, Pow2Sum
    <3>2. Pow2[w + i] \in Nat \ {0}
      BY Pow2Is
    <3> QED BY <1>1, <2>1, <3>1, <3>2 DEF InEach
  <2>2. CASE k # 0
    <3>1. k \in 1..(i + 1) /\ i - (k - 1) \in Nat
      BY <1>2, <2>2
    <3>2. k \in 1..(h + 1) /\ h - (k - 1) = s + (i - (k - 1))
      BY <1>1, <3>1
    <3>3. Pow2[s + (i - (k - 1))] = Pow2[s] * Pow2[i - (k - 1)] /\ Pow2[i - (k - 1)] \in Nat \ {0}
      BY <3>1, Pow2Sum, Pow2Is
    <3>4. NElements(k) = Pow2[s + (i - (k - 1))]
      BY <1>1, <3>2
    <3> QED BY <1>1, <2>2, <3>3, <3>4 DEF InEach
  <2> QED BY <2>1, <2>2
<1>4. ASSUME NEW k \in 0..(TreeLevel - 1)
      PROVE  InEach(w, i, k) = InEach(w, i, k + 1) * PackSize(k)
  <2>1. TreeLevel = i + 1 /\ k \in 0..i /\ k + 1 # 0 /\ (k + 1) - 1 = k
    BY <1>2
  <2>2. InEach(w, i, k + 1) = Pow2[i - k] /\ i - k \in Nat
    BY <2>1 DEF InEach
  <2>3. CASE k = 0
    <3>1. Pow2[i + w] = Pow2[i] * Pow2[w] /\ w + i = i + w
      BY Pow2Sum
    <3>2. InEach(w, i, k) = Pow2[w + i] /\ PackSize(k) = Pow2[w] /\ i - k = i
      BY <1>1, <2>3 DEF InEach, PackSize
    <3> QED BY <2>2, <3>1, <3>2
  <2>4. CASE k # 0
    <3>1. i - (k - 1) = (i - k) + 1
      BY <2>1, <2>4
    <3>2. InEach(w, i, k) = Pow2[(i - k) + 1] /\ PackSize(k) = 2
      BY <2>4, <3>1 DEF InEach, PackSize
    <3>3. Pow2[(i - k) + 1] = 2 * Pow2[i - k] /\ Pow2[i - k] \in Nat
      BY <2>2, Pow2Is
    <3> QED BY <2>2, <3>2, <3>3
  <2> QED BY <2>3, <2>4
<1>5. InEach(w, i, TreeLevel) = 1
  <2>1. CASE shape.plain
    BY <1>1, <1>2, <2>1, Pow2Is DEF InEach
  <2>2. CASE ~shape.plain
    <3>1. InEach(w, i, TreeLevel) = Pow2[i - ((i + 1) - 1)] /\ i - ((i + 1) - 1) = 0
      BY <1>2, <2>2 DEF InEach
    <3> QED BY <3>1, Pow2Is
  <2> QED BY <2>1, <2>2
<1>6. NRows = InEach(w, i, 0)
  BY <1>1 DEF InEach
<1> QED
  BY <1>3, <1>4, <1>5, <1>6

(* Both sides hash with the same kind. *)
LEMMA SameKinds ==
  ASSUME NEW w \in Nat, NEW h \in Nat, NEW s \in Nat, NEW i \in Nat, Sizes(w, h, s, i),
         shape \in Shapes, ~shape.plain, Builds(NSegments)
  PROVE  /\ \A k \in 0..i : PHash(k) = VHash(k)
         /\ \A k \in (i + 1)..h : TreeHash = VHash(k)
<1>1. h = s + i /\ Height = h /\ InSegment = i /\ NSegments = Pow2[s]
  BY DEF Sizes
<1>2. PICK f \in Nat : f = shape.friendly
  BY TablesAssumption
<1>3. f = 0 \/ f >= s \/ f >= h
  <2>1. TopFits(NSegments)
    BY DEF Builds
  <2>2. Log2(NSegments) = s
    BY <1>1, Log2Is
  <2> QED BY <1>1, <1>2, <2>1, <2>2 DEF TopFits
<1>4. FriendlyInSegment = IF f = 0 THEN 0 ELSE IF f >= h THEN i ELSE f - s
  <2>1. Log2(NSegments) = s
    BY <1>1, Log2Is
  <2> QED BY <1>1, <1>2, <2>1 DEF FriendlyInSegment
<1>5. Least(Height, shape.friendly) = IF h < f THEN h ELSE f
  BY <1>1, <1>2 DEF Least
<1>6. ASSUME NEW k \in 0..i PROVE PHash(k) = VHash(k)
  <2>1. CASE k = 0
    BY <2>1 DEF PHash, VHash
  <2>2. CASE k # 0
    <3>1. (i - k < FriendlyInSegment) <=> (h - k < Least(Height, shape.friendly))
      BY <1>1, <1>2, <1>3, <1>4, <1>5, <2>2
    <3>2. PHash(k) = HashKind(i - k < FriendlyInSegment)
          /\ VHash(k) = HashKind(h - k < Least(Height, shape.friendly))
      BY <1>1, <2>2 DEF PHash, VHash
    <3> QED BY <3>1, <3>2 DEF HashKind
  <2> QED BY <2>1, <2>2
<1>7. ASSUME NEW k \in (i + 1)..h PROVE TreeHash = VHash(k)
  <2>1. k # 0 /\ VHash(k) = HashKind(h - k < Least(Height, shape.friendly))
    BY <1>1 DEF VHash
  <2>2. (f > 0) <=> (h - k < Least(Height, shape.friendly))
    BY <1>1, <1>2, <1>3, <1>5
  <2> QED BY <1>2, <2>1, <2>2 DEF TreeHash, HashKind
<1> QED
  BY <1>6, <1>7

LEMMA InPart ==
  ASSUME NEW m \in Nat, NEW n \in Nat \ {0}, NEW seg \in 0..(m - 1), NEW x \in 0..(n - 1)
  PROVE  /\ seg * n + x \in 0..(m * n - 1)
         /\ (seg * n + x) \div n = seg /\ (seg * n + x) % n = x
<1>1. PICK d \in Nat : d = (m - 1) - seg /\ m = seg + 1 + d
  OBVIOUS
<1>2. d * n \in Nat /\ seg * n \in Nat /\ m * n = seg * n + n + d * n
  BY <1>1
<1>3. seg * n + x \in 0..(m * n - 1)
  <2>1. PICK a, b, c \in Nat : a = seg * n /\ b = d * n /\ c = m * n /\ c = a + n + b
    BY <1>2
  <2> QED BY <2>1
<1>4. \A p, y, r \in Nat : p > 0 /\ r < p => (p * y + r) \div p = y /\ (p * y + r) % p = r
  OBVIOUS
<1>5. (n * seg + x) \div n = seg /\ (n * seg + x) % n = x
  <2>1. seg \in Nat /\ x \in Nat /\ n \in Nat /\ n > 0 /\ x < n
    OBVIOUS
  <2> QED BY ONLY <1>4, <2>1
<1>6. n * seg = seg * n
  OBVIOUS
<1> QED
  BY <1>3, <1>5, <1>6

LEMMA DividedInto ==
  ASSUME NEW m \in Nat, NEW n \in Nat \ {0}, NEW j \in 0..(m * n - 1)
  PROVE  j \div n \in 0..(m - 1) /\ j % n \in 0..(n - 1) /\ j = (j \div n) * n + (j % n)
<1>1. m * n \in Nat /\ j \in Nat /\ j < m * n
  OBVIOUS
<1>2. PICK q, r \in Nat : q = j \div n /\ r = j % n /\ j = n * q + r /\ r < n
  BY <1>1
<1>3. n * q = q * n
  OBVIOUS
<1>4. q <= m - 1
  <2>1. SUFFICES ASSUME q >= m PROVE FALSE
    OBVIOUS
  <2>2. PICK d \in Nat : q = m + d
    <3>1. q - m \in Nat /\ q = m + (q - m)
      BY <2>1
    <3> QED BY <3>1
  <2>3. PICK a, b \in Nat : a = m * n /\ b = n * d
    BY <2>2
  <2>4. n * q = a + b
    BY <2>2, <2>3
  <2> QED BY <1>1, <1>2, <2>3, <2>4
<1>5. j = q * n + r
  BY <1>2, <1>3
<1>6. q \in 0..(m - 1) /\ r \in 0..(n - 1)
  BY <1>2, <1>4
<1>7. j \div n = q /\ j % n = r
  BY <1>2
<1> QED
  BY <1>5, <1>6, <1>7

SegmentLevelsFit(rows, seg, w, i) ==
  LET up == Levels(rows, TreeLevel, [k \in 0..(TreeLevel - 1) |-> PHash(k)])
  IN  \A k \in 0..TreeLevel :
        /\ Len(up[k]) = InEach(w, i, k)
        /\ \A x \in 0..(InEach(w, i, k) - 1) :
             up[k][x + 1] = Element(k, seg * InEach(w, i, k) + x)

(* The levels of one segment are its part of the levels of the table. *)
LEMMA SegmentLevelsAre ==
  ASSUME NEW w \in Nat, NEW h \in Nat, NEW s \in Nat, NEW i \in Nat, Sizes(w, h, s, i),
         shape \in Shapes, Builds(NSegments), NEW seg \in 0..(NSegments - 1),
         NEW rows, rows = [x \in 1..NRows |-> Row(seg * NRows + x - 1)]
  PROVE  SegmentLevelsFit(rows, seg, w, i)
<1> DEFINE kinds == [k \in 0..(TreeLevel - 1) |-> PHash(k)]
           up == Levels(rows, TreeLevel, kinds)
           Fits(k) == /\ Indexed(up[k], InEach(w, i, k))
                      /\ \A x \in 0..(InEach(w, i, k) - 1) :
                           up[k][x + 1] = Element(k, seg * InEach(w, i, k) + x)
           T == {k \in 0..TreeLevel : Fits(k)}
<1>1. /\ \A k \in 0..TreeLevel : /\ InEach(w, i, k) \in Nat \ {0}
                                 /\ NElements(k) = NSegments * InEach(w, i, k)
      /\ \A k \in 0..(TreeLevel - 1) : InEach(w, i, k) = InEach(w, i, k + 1) * PackSize(k)
      /\ InEach(w, i, TreeLevel) = 1
      /\ NRows = InEach(w, i, 0)
  BY SegmentSizes
<1>2. TreeLevel \in Nat /\ NSegments \in Nat \ {0} /\ \A k \in Nat : PackSize(k) \in Nat \ {0}
  <2>1. TreeLevel \in 0..(h + 1) /\ \A k \in Nat : PackSize(k) \in Nat \ {0}
    BY LevelSizes
  <2>2. NSegments = Pow2[s]
    BY DEF Sizes
  <2> QED BY <2>1, <2>2, Pow2Is
<1>3. /\ up[0] = rows
      /\ \A k \in 0..(TreeLevel - 1) : up[k + 1] = PackAndHash(up[k], PackSize(k), kinds[k])
  <2>1. PICK ks : ks = kinds
    OBVIOUS
  <2>2. PICK n \in Nat : n = TreeLevel
    BY <1>2
  <2>3. up = Levels(rows, n, ks)
    BY <2>1, <2>2
  <2> HIDE DEF up, kinds
  <2>4. /\ Levels(rows, n, ks)[0] = rows
        /\ \A k \in 0..(n - 1) : Levels(rows, n, ks)[k + 1] =
             PackAndHash(Levels(rows, n, ks)[k], PackSize(k), ks[k])
    <3>1. n \in Nat
      OBVIOUS
    <3> QED BY ONLY <3>1, LevelsAre
  <2> QED BY <2>1, <2>2, <2>3, <2>4
<1> HIDE DEF up, kinds
<1>4. 0 \in T
  <2>1. PICK n \in Nat \ {0} : n = NRows
    BY <1>1, <1>2
  <2>2. Indexed(up[0], n)
    BY <1>3, <2>1 DEF Indexed
  <2>3. ASSUME NEW x \in 0..(n - 1) PROVE up[0][x + 1] = Element(0, seg * n + x)
    <3>1. PICK a \in Nat : a = seg * n
      BY <1>2
    <3>2. a + x \in 0..(NElements(0) - 1)
      <4>1. seg * n + x \in 0..(NSegments * n - 1)
        BY <1>2, <2>1, InPart
      <4>2. NElements(0) = NSegments * n
        BY <1>1, <1>2, <2>1
      <4> QED BY <3>1, <4>1, <4>2
    <3>3. Element(0, a + x) = Row(a + x)
      BY <3>2, ElementsAre
    <3>4. x + 1 \in 1..n /\ a + (x + 1) - 1 = a + x
      BY <2>1, <3>1
    <3>5. rows[x + 1] = Row(a + (x + 1) - 1)
      BY <2>1, <3>1, <3>4
    <3> QED BY <1>3, <3>1, <3>3, <3>4, <3>5
  <2>4. InEach(w, i, 0) = n /\ 0 \in 0..TreeLevel
    BY <1>1, <1>2, <2>1
  <2>5. Fits(0)
    BY <2>2, <2>3, <2>4
  <2> QED BY <2>4, <2>5
<1>5. ASSUME NEW k \in 0..(TreeLevel - 1), k \in T PROVE k + 1 \in T
  <2>1. k \in 0..TreeLevel /\ k + 1 \in 0..TreeLevel /\ k \in Nat
    BY <1>2
  <2>2. PICK size \in Nat \ {0} : size = PackSize(k)
    BY <1>2, <2>1
  <2>3. PICK n \in Nat \ {0} : n = InEach(w, i, k + 1)
    BY <1>1, <2>1
  <2>4. InEach(w, i, k) = n * size
    BY <1>1, <2>2, <2>3
  <2>5. PICK kind : kind = PHash(k)
    OBVIOUS
  <2>6. up[k + 1] = PackAndHash(up[k], size, kind)
    <3>1. kinds[k] = PHash(k)
      BY DEF kinds
    <3> QED BY <1>3, <2>2, <2>5, <3>1
  <2>7. Fits(k)
    BY <1>5
  <2>8. up[k + 1] = Packed(up[k], n, size, kind) /\ Indexed(Packed(up[k], n, size, kind), n)
    <3>1. Indexed(up[k], n * size)
      BY <2>4, <2>7
    <3> QED BY <2>6, <3>1, PackedAre
  <2>9. ASSUME NEW x \in 0..(n - 1)
        PROVE  up[k + 1][x + 1] = Element(k + 1, seg * n + x)
    <3>1. seg * n + x \in 0..(NSegments * n - 1)
      BY <1>2, InPart
    <3>2. NSegments * n = NElements(k + 1)
      BY <1>1, <2>1, <2>3
    <3>3. PICK j \in Nat : j = seg * n + x /\ j \in 0..(NElements(k + 1) - 1)
      BY <3>1, <3>2
    <3>4. ~shape.plain /\ k \in 0..i /\ k \in 0..h
      BY DEF TreeLevel, Sizes
    <3>5. Element(k + 1, j) = Hash(VHash(k), Children(k, j))
      BY <3>3, <3>4, ElementsAre
    <3>6. kind = VHash(k)
      BY <2>5, <3>4, SameKinds
    <3>7. x + 1 \in 1..n /\ (x + 1) - 1 = x
      OBVIOUS
    <3>8. up[k + 1][x + 1] = Hash(kind, [y \in 1..size |-> up[k][x * size + y]])
      BY <2>8, <3>7 DEF Packed
    <3>9. ASSUME NEW y \in 1..size PROVE up[k][x * size + y] = Element(k, j * size + y - 1)
      <4>1. PICK z \in Nat : z = x * size + (y - 1) /\ z \in 0..(n * size - 1)
        <5>1. y - 1 \in 0..(size - 1)
          OBVIOUS
        <5>2. x * size + (y - 1) \in 0..(n * size - 1)
          BY <5>1, InPart
        <5> QED BY <5>2
      <4>2. up[k][z + 1] = Element(k, seg * (n * size) + z)
        BY <2>4, <2>7, <4>1
      <4>3. PICK a \in Nat : a = x * size
        OBVIOUS
      <4>4. z + 1 = a + y
        BY <4>1, <4>3
      <4>5. seg * (n * size) + z = j * size + y - 1
        <5>1. seg * (n * size) = (seg * n) * size
          BY <1>2
        <5>2. PICK b \in Nat : b = seg * n
          BY <1>2
        <5>3. j * size = b * size + x * size
          BY <3>3, <5>2
        <5>4. PICK c \in Nat : c = b * size
          BY <5>2
        <5> QED BY <3>3, <4>1, <4>3, <5>1, <5>2, <5>3, <5>4
      <4> QED BY <4>2, <4>3, <4>4, <4>5
    <3>10. [y \in 1..size |-> up[k][x * size + y]] = Children(k, j)
      BY <2>2, <3>9 DEF Children
    <3> QED BY <3>3, <3>5, <3>6, <3>8, <3>10
  <2>10. Fits(k + 1)
    BY <2>3, <2>8, <2>9
  <2> QED BY <2>1, <2>10
<1>6. \A k \in 0..TreeLevel : k \in T
  <2> HIDE DEF T
  <2> QED BY <1>2, <1>4, <1>5, SegmentInduction
<1>7. ASSUME NEW k \in 0..TreeLevel
      PROVE  /\ Len(up[k]) = InEach(w, i, k)
             /\ \A x \in 0..(InEach(w, i, k) - 1) :
                  up[k][x + 1] = Element(k, seg * InEach(w, i, k) + x)
  <2>1. Fits(k)
    BY <1>6
  <2>2. PICK n \in Nat : n = InEach(w, i, k)
    BY <1>1
  <2>3. Len(up[k]) = n
    <3>1. Indexed(up[k], n)
      BY <2>1, <2>2
    <3> QED BY <3>1, IndexedIsList DEF Indexed
  <2> QED BY <2>1, <2>2, <2>3
<1> QED
  BY <1>7 DEF up, kinds, SegmentLevelsFit

-----------------------------------------------------------------------------
(* The tree of the prover. *)

IsTree(tree, leaves, n, kind) ==
  tree = [x \in 1..(2 * n - 1) |-> IF x >= n THEN leaves[x]
                                   ELSE Hash(kind, <<tree[2 * x], tree[2 * x + 1]>>)]

LEMMA TreeExists ==
  ASSUME NEW n \in Nat \ {0}, NEW leaves, NEW kind
  PROVE  \E tree : IsTree(tree, leaves, n, kind)
<1> DEFINE Value(g, x) == IF x >= n THEN leaves[x] ELSE Hash(kind, <<g[2 * x], g[2 * x + 1]>>)
           last == 2 * n - 1
           Solves(g, m) == g = [x \in (last - m)..last |-> Value(g, x)]
           T == {m \in 0..(last - 1) : \E g : Solves(g, m)}
<1>1. last \in Nat \ {0} /\ last >= n
  OBVIOUS
<1>2. 0 \in T
  <2>1. PICK g : g = [x \in (last - 0)..last |-> leaves[x]]
    OBVIOUS
  <2>2. \A x \in (last - 0)..last : g[x] = Value(g, x)
    BY <1>1, <2>1
  <2> HIDE DEF Value
  <2>3. g = [x \in (last - 0)..last |-> Value(g, x)]
    <3>1. g = [x \in (last - 0)..last |-> g[x]]
      BY <2>1
    <3> QED BY <2>2, <3>1
  <2> QED BY <1>1, <2>3
<1>3. ASSUME NEW m \in 0..((last - 1) - 1), m \in T PROVE m + 1 \in T
  <2>1. m + 1 \in 0..(last - 1) /\ last - (m + 1) \in Nat \ {0} /\ m \in Nat
    BY <1>1
  <2>2. PICK g : Solves(g, m)
    BY <1>3
  <2>3. PICK a \in Nat \ {0} : a = last - (m + 1)
    BY <2>1
  <2>4. last - m = a + 1 /\ a <= last
    BY <1>1, <2>1, <2>3
  <2>5. PICK e : e = Value(g, a)
    OBVIOUS
  <2>6. PICK f : f = [x \in a..last |-> IF x = a THEN e ELSE g[x]]
    OBVIOUS
  <2>7. ASSUME NEW x \in a..last PROVE f[x] = Value(f, x)
    <3>1. \A z \in a..last : z # a => f[z] = g[z]
      BY <2>6
    <3>2. CASE x >= n
      <4>1. CASE x = a
        BY <2>5, <2>6, <3>2, <4>1
      <4>2. CASE x # a
        <5>1. x \in (last - m)..last
          BY <2>4, <4>2
        <5>2. g[x] = Value(g, x)
          BY <2>2, <5>1
        <5> QED BY <3>1, <3>2, <4>2, <5>2
      <4> QED BY <4>1, <4>2
    <3>3. CASE ~(x >= n)
      <4>1. x \in Nat \ {0} /\ 2 * x \in a..last /\ 2 * x + 1 \in a..last /\ 2 * x # a /\ 2 * x + 1 # a
        BY <1>1, <2>4, <3>3
      <4>2. f[2 * x] = g[2 * x] /\ f[2 * x + 1] = g[2 * x + 1]
        BY <3>1, <4>1
      <4>3. f[x] = Value(g, x)
        <5>1. CASE x = a
          BY <2>5, <2>6, <5>1
        <5>2. CASE x # a
          <6>1. x \in (last - m)..last
            BY <2>4, <5>2
          <6>2. g[x] = Value(g, x)
            BY <2>2, <6>1
          <6> QED BY <3>1, <5>2, <6>2
        <5> QED BY <5>1, <5>2
      <4> QED BY <3>3, <4>2, <4>3
    <3> QED BY <3>2, <3>3
  <2> HIDE DEF Value
  <2>8. Solves(f, m + 1)
    <3>1. f = [x \in a..last |-> f[x]]
      BY <2>6
    <3>2. f = [x \in a..last |-> Value(f, x)]
      BY <2>7, <3>1
    <3> QED BY <2>3, <3>2
  <2> QED BY <2>1, <2>8
<1>4. last - 1 \in T
  <2>1. last - 1 \in Nat
    BY <1>1
  <2>2. \A m \in 0..(last - 1) : m \in T
    <3> HIDE DEF T, last
    <3> QED BY <1>2, <1>3, <2>1, SegmentInduction
  <2> QED BY <2>1, <2>2
<1>5. PICK g : Solves(g, last - 1)
  BY <1>4
<1>6. last - (last - 1) = 1
  BY <1>1
<1>7. IsTree(g, leaves, n, kind)
  BY <1>5, <1>6 DEF IsTree
<1> QED
  BY <1>7

(* The nodes of the tree are the elements of the levels above. *)
LEMMA TreeValues ==
  ASSUME NEW w \in Nat, NEW h \in Nat, NEW s \in Nat, NEW i \in Nat, Sizes(w, h, s, i),
         shape \in Shapes, Builds(NSegments), ~shape.plain,
         NEW tree, NEW leaves, IsTree(tree, leaves, NSegments, TreeHash),
         \A j \in 0..(NSegments - 1) : leaves[NSegments + j] = Element(TreeLevel, j)
  PROVE  \A k \in (i + 1)..(h + 1) : \A j \in 0..(NElements(k) - 1) :
           tree[NElements(k) + j] = Element(k, j)
<1> DEFINE Holds(k) == \A j \in 0..(NElements(k) - 1) : tree[NElements(k) + j] = Element(k, j)
           T == {m \in 0..s : Holds(i + 1 + m)}
<1>1. /\ h = s + i /\ TreeLevel = i + 1 /\ NElements(i + 1) = NSegments /\ NElements(h + 1) = 1
      /\ \A k \in 0..(h + 1) : NElements(k) \in Nat \ {0}
      /\ \A k \in 1..h : NElements(k) = 2 * NElements(k + 1)
  <2>1. h = s + i /\ TreeLevel = i + 1
    BY DEF Sizes, TreeLevel
  <2>2. /\ \A k \in 0..(h + 1) : NElements(k) \in Nat \ {0}
        /\ \A k \in 0..h : NElements(k) = NElements(k + 1) * PackSize(k)
        /\ NElements(h + 1) = 1 /\ NElements(TreeLevel) = NSegments
    BY LevelSizes
  <2>3. ASSUME NEW k \in 1..h PROVE NElements(k) = 2 * NElements(k + 1)
    <3>1. PackSize(k) = 2 /\ k \in 0..h /\ k + 1 \in 0..(h + 1)
      BY DEF PackSize
    <3>2. PICK a \in Nat : a = NElements(k + 1)
      BY <2>2, <3>1
    <3> QED BY <2>2, <3>1, <3>2
  <2> QED BY <2>1, <2>2, <2>3
<1>2. PICK n \in Nat \ {0} : n = NSegments
  BY <1>1
<1>3. \A x \in 1..(2 * n - 1) : tree[x] = IF x >= n THEN leaves[x]
                                         ELSE Hash(TreeHash, <<tree[2 * x], tree[2 * x + 1]>>)
  BY <1>2 DEF IsTree
<1>4. 0 \in T
  <2>1. ASSUME NEW j \in 0..(n - 1) PROVE tree[n + j] = Element(i + 1, j)
    <3>1. n + j \in 1..(2 * n - 1) /\ n + j >= n
      OBVIOUS
    <3> QED BY <1>1, <1>2, <1>3, <3>1
  <2>2. i + 1 + 0 = i + 1 /\ 0 \in 0..s
    OBVIOUS
  <2> QED BY <1>1, <1>2, <2>1, <2>2
<1>5. ASSUME NEW m \in 0..(s - 1), m \in T PROVE m + 1 \in T
  <2>1. PICK k \in Nat : k = i + 1 + m /\ k \in 1..h /\ k + 1 = i + 1 + (m + 1) /\ k \in (i + 1)..h
                         /\ k + 1 \in 0..(h + 1) /\ k \in 0..h /\ k # 0 /\ k \in 0..(h + 1)
    BY <1>1
  <2>2. PICK a \in Nat \ {0} : a = NElements(k + 1) /\ NElements(k) = 2 * a
    BY <1>1, <2>1
  <2>3. 2 * a <= n
    <3>1. h - (k - 1) \in Nat /\ h - (k - 1) <= s
      BY <1>1, <2>1
    <3>2. Pow2[h - (k - 1)] <= Pow2[s]
      BY <3>1, PowersGrow
    <3> QED BY <1>2, <2>1, <2>2, <3>2 DEF Sizes
  <2>4. ASSUME NEW j \in 0..(a - 1) PROVE tree[a + j] = Element(k + 1, j)
    <3>1. a + j \in 1..(2 * n - 1) /\ ~(a + j >= n)
      BY <2>3
    <3>2. tree[a + j] = Hash(TreeHash, <<tree[2 * (a + j)], tree[2 * (a + j) + 1]>>)
      BY <1>3, <3>1
    <3>3. 2 * (a + j) = 2 * a + 2 * j /\ 2 * (a + j) + 1 = 2 * a + (2 * j + 1)
          /\ 2 * j \in 0..(2 * a - 1) /\ 2 * j + 1 \in 0..(2 * a - 1)
      OBVIOUS
    <3>4. Holds(k)
      BY <1>5, <2>1
    <3>5. tree[2 * a + 2 * j] = Element(k, 2 * j) /\ tree[2 * a + (2 * j + 1)] = Element(k, 2 * j + 1)
      BY <2>2, <3>3, <3>4
    <3>6. Element(k + 1, j) = Hash(VHash(k), Children(k, j))
      BY <2>1, <2>2, ElementsAre
    <3>7. TreeHash = VHash(k)
      BY <2>1, SameKinds
    <3>8. Children(k, j) = <<Element(k, 2 * j), Element(k, 2 * j + 1)>>
      <4>1. PackSize(k) = 2
        BY <2>1 DEF PackSize
      <4>2. j * 2 + 1 - 1 = 2 * j /\ j * 2 + 2 - 1 = 2 * j + 1
        OBVIOUS
      <4>3. PICK a1, a2 : a1 = Element(k, 2 * j) /\ a2 = Element(k, 2 * j + 1)
        OBVIOUS
      <4>4. PICK c : c = Children(k, j)
        OBVIOUS
      <4>5. c = [y \in 1..2 |-> Element(k, j * 2 + y - 1)]
        BY <4>1, <4>4 DEF Children
      <4>6. c = [y \in 1..2 |-> c[y]] /\ c[1] = a1 /\ c[2] = a2
        BY <4>2, <4>3, <4>5
      <4>7. c = <<a1, a2>>
        <5>1. IsList(c) /\ Len(c) = 2
          BY <4>6, IndexedIsList
        <5>2. IsList(<<a1, a2>>) /\ Len(<<a1, a2>>) = 2 /\ <<a1, a2>>[1] = a1 /\ <<a1, a2>>[2] = a2
          BY DEF IsList
        <5>3. \A x \in 1..Len(c) : c[x] = <<a1, a2>>[x]
          BY <4>6, <5>1, <5>2
        <5> QED BY <5>1, <5>2, <5>3, ListsAreEqual
      <4> QED BY <4>3, <4>4, <4>7
    <3> QED BY <3>2, <3>3, <3>5, <3>6, <3>7, <3>8
  <2>5. Holds(i + 1 + (m + 1))
    BY <2>1, <2>2, <2>4
  <2> QED BY <2>5
<1>6. ASSUME NEW k \in (i + 1)..(h + 1) PROVE Holds(k)
  <2>1. \A m \in 0..s : m \in T
    <3> HIDE DEF T
    <3> QED BY <1>4, <1>5, SegmentInduction
  <2>2. PICK m \in 0..s : m = k - (i + 1) /\ i + 1 + m = k
    <3>1. k - (i + 1) \in 0..s /\ i + 1 + (k - (i + 1)) = k
      BY <1>1
    <3> QED BY <3>1
  <2>3. m \in T
    BY <2>1
  <2> QED BY <2>2, <2>3
<1> QED
  BY <1>6

LEMMA TreeElements ==
  ASSUME NEW w \in Nat, NEW h \in Nat, NEW s \in Nat, NEW i \in Nat, Sizes(w, h, s, i),
         shape \in Shapes, Builds(NSegments), ~shape.plain,
         NEW tree, NEW leaves, IsTree(tree, leaves, NSegments, TreeHash),
         \A j \in 0..(NSegments - 1) : leaves[NSegments + j] = Element(TreeLevel, j)
  PROVE  tree[1] = CanonicalRoot
<1>1. h + 1 \in (i + 1)..(h + 1)
  BY DEF Sizes
<1>2. \A k \in (i + 1)..(h + 1) : \A j \in 0..(NElements(k) - 1) : tree[NElements(k) + j] = Element(k, j)
  BY TreeValues
<1>3. NElements(h + 1) = 1
  BY LevelSizes
<1>4. 0 \in 0..(1 - 1) /\ 1 + 0 = 1
  OBVIOUS
<1>5. tree[1] = Element(h + 1, 0)
  BY <1>1, <1>2, <1>3, <1>4
<1> QED
  BY <1>5, ElementsAre

-----------------------------------------------------------------------------
(* What the levels ask for. *)

LEMMA ElementsInPackagesAre ==
  ASSUME NEW packages, IsList(packages), NEW size \in Nat \ {0}
  PROVE  /\ IsList(ElementsInPackages(packages, size))
         /\ Len(ElementsInPackages(packages, size)) = Len(packages) * size
         /\ \A x \in 1..Len(packages) : \A y \in 1..size :
              ElementsInPackages(packages, size)[(x - 1) * size + y] = packages[x] * size + y - 1
<1>1. PICK n \in Nat : n = Len(packages) /\ DOMAIN packages = 1..n
  BY ListProperties
<1>2. PICK lists : lists = [x \in 1..n |-> [y \in 1..size |-> packages[x] * size + y - 1]]
  OBVIOUS
<1>3. IsList(lists) /\ Len(lists) = n
  <2>1. lists = [x \in 1..n |-> lists[x]]
    BY <1>2
  <2> QED BY <2>1, IndexedIsList
<1>4. ASSUME NEW x \in 1..n
      PROVE  IsList(lists[x]) /\ Len(lists[x]) = size
             /\ \A y \in 1..size : lists[x][y] = packages[x] * size + y - 1
  <2>1. lists[x] = [y \in 1..size |-> lists[x][y]]
        /\ \A y \in 1..size : lists[x][y] = packages[x] * size + y - 1
    BY <1>2
  <2> QED BY <2>1, IndexedIsList
<1>5. PICK before : before = [x \in 0..n |-> x * size]
  OBVIOUS
<1>6. before[0] = 0 /\ \A x \in 1..n : before[x - 1] = (x - 1) * size
                                       /\ before[x] = before[x - 1] + Len(lists[x])
  <2>1. before[0] = 0
    BY <1>5
  <2>2. ASSUME NEW x \in 1..n
        PROVE  before[x - 1] = (x - 1) * size /\ before[x] = before[x - 1] + Len(lists[x])
    <3>1. x - 1 \in 0..n /\ x \in 0..n
      OBVIOUS
    <3>2. before[x - 1] = (x - 1) * size /\ before[x] = x * size
      BY <1>5, <3>1
    <3>3. x * size = (x - 1) * size + size
      OBVIOUS
    <3> QED BY <1>4, <3>2, <3>3
  <2> QED BY <2>1, <2>2
<1>7. /\ IsList(FlattenSeq(lists)) /\ Len(FlattenSeq(lists)) = before[n]
      /\ \A x \in 1..n : \A y \in 1..Len(lists[x]) :
           FlattenSeq(lists)[before[x - 1] + y] = lists[x][y]
  <2>1. /\ IsList(lists) /\ \A x \in 1..Len(lists) : IsList(lists[x])
        /\ before[0] = 0 /\ \A x \in 1..Len(lists) : before[x] = before[x - 1] + Len(lists[x])
    BY <1>3, <1>4, <1>6
  <2>2. /\ IsList(FlattenSeq(lists)) /\ Len(FlattenSeq(lists)) = before[Len(lists)]
        /\ \A x \in 1..Len(lists) : \A y \in 1..Len(lists[x]) :
             FlattenSeq(lists)[before[x - 1] + y] = lists[x][y]
    <3>1. Ends(lists, before)
      BY <2>1 DEF Ends
    <3> QED BY <3>1, FlattenedIs DEF Flattened
  <2> QED BY <1>3, <2>2
<1>8. before[n] = n * size
  BY <1>5
<1>9. ElementsInPackages(packages, size) = FlattenSeq(lists)
  BY <1>1, <1>2 DEF ElementsInPackages
<1>10. ASSUME NEW x \in 1..n, NEW y \in 1..size
       PROVE  FlattenSeq(lists)[(x - 1) * size + y] = packages[x] * size + y - 1
  <2>1. FlattenSeq(lists)[before[x - 1] + y] = lists[x][y]
    BY <1>4, <1>7
  <2> QED BY <1>4, <1>6, <2>1
<1>11. Len(packages) = n
  BY <1>1
<1> QED
  BY <1>7, <1>8, <1>9, <1>10, <1>11

LEMMA MissingIsList ==
  ASSUME NEW w \in Nat, NEW h \in Nat, NEW s \in Nat, NEW i \in Nat, Sizes(w, h, s, i),
         NEW k \in 0..(h + 1)
  PROVE  Missing(k) \in Seq(Nat) /\ IsList(Missing(k))
<1>1. NElements(k) \in Nat
  BY LevelSizes
<1>2. Missing(k) \in Seq(Nat)
  BY <1>1, AscendingSteps DEF Missing, Required
<1> QED
  BY <1>2, ListIs

LEMMA AsksAre ==
  ASSUME NEW w \in Nat, NEW h \in Nat, NEW s \in Nat, NEW i \in Nat, Sizes(w, h, s, i)
  PROVE  /\ Asks[TreeLevel] = <<>>
         /\ \A k \in 0..(TreeLevel - 1) :
              Asks[k] = Missing(k) \o ElementsInPackages(IF Cached(k + 1) THEN <<>> ELSE Asks[k + 1],
                                                         PackSize(k))
         /\ \A k \in 0..TreeLevel : IsList(Asks[k])
<1> DEFINE From(k, above) ==
             Missing(k) \o ElementsInPackages(IF Cached(k + 1) THEN <<>> ELSE above, PackSize(k))
           Value(g, k) == IF k = TreeLevel THEN <<>> ELSE From(k, g[k + 1])
           Solves(g, a) == g = [k \in a..TreeLevel |-> Value(g, k)]
           T == {m \in 0..TreeLevel : \E g : Solves(g, TreeLevel - m)}
<1> HIDE DEF From
<1>1. TreeLevel \in Nat /\ TreeLevel <= h + 1
  BY LevelSizes
<1>2. 0 \in T
  <2>1. PICK g : g = [k \in TreeLevel..TreeLevel |-> <<>>]
    OBVIOUS
  <2>2. \A k \in TreeLevel..TreeLevel : k = TreeLevel /\ g[k] = <<>>
    BY <1>1, <2>1
  <2>3. g = [k \in TreeLevel..TreeLevel |-> Value(g, k)]
    BY <2>1, <2>2
  <2>4. TreeLevel - 0 = TreeLevel /\ 0 \in 0..TreeLevel
    BY <1>1
  <2> QED BY <2>3, <2>4
<1>3. ASSUME NEW m \in 0..(TreeLevel - 1), m \in T PROVE m + 1 \in T
  <2>1. PICK a \in Nat : a = TreeLevel - (m + 1) /\ TreeLevel - m = a + 1 /\ a < TreeLevel
                         /\ m + 1 \in 0..TreeLevel
    BY <1>1
  <2>2. PICK g : Solves(g, a + 1)
    BY <1>3, <2>1
  <2>3. PICK e : e = From(a, g[a + 1])
    OBVIOUS
  <2>4. PICK f : f = [k \in a..TreeLevel |-> IF k = a THEN e ELSE g[k]]
    OBVIOUS
  <2>5. \A k \in (a + 1)..TreeLevel : k \in a..TreeLevel /\ k # a /\ f[k] = g[k]
    BY <1>1, <2>1, <2>4
  <2>6. ASSUME NEW k \in a..TreeLevel PROVE f[k] = Value(f, k)
    <3>1. CASE k = a
      <4>1. f[a + 1] = g[a + 1] /\ k # TreeLevel
        BY <1>1, <2>1, <2>5, <3>1
      <4>2. f[k] = From(a, g[a + 1])
        BY <2>3, <2>4, <3>1
      <4> QED BY <3>1, <4>1, <4>2
    <3>2. CASE k # a
      <4>1. k \in (a + 1)..TreeLevel
        BY <1>1, <2>1, <3>2
      <4>2. f[k] = g[k] /\ g[k] = Value(g, k)
        BY <2>2, <2>5, <4>1
      <4>3. k # TreeLevel => f[k + 1] = g[k + 1]
        <5>1. k # TreeLevel => k + 1 \in (a + 1)..TreeLevel
          BY <1>1, <2>1, <4>1
        <5> QED BY <2>5, <5>1
      <4> QED BY <4>2, <4>3
    <3> QED BY <3>1, <3>2
  <2>7. Solves(f, a)
    <3> HIDE DEF Value
    <3>1. f = [k \in a..TreeLevel |-> f[k]]
      BY <2>4
    <3> QED BY <2>6, <3>1
  <2> QED BY <2>1, <2>7
<1>4. \E g : Solves(g, 0)
  <2>1. \A m \in 0..TreeLevel : m \in T
    <3> HIDE DEF T
    <3> QED BY <1>1, <1>2, <1>3, SegmentInduction
  <2>2. TreeLevel \in T /\ TreeLevel - TreeLevel = 0
    BY <1>1, <2>1
  <2> QED BY <2>2
<1> DEFINE asks == CHOOSE g : Solves(g, 0)
<1>5. Solves(asks, 0)
  BY <1>4
<1>6. Asks = asks
  BY DEF Asks, From
<1> HIDE DEF asks
<1>7. Asks[TreeLevel] = <<>>
  BY <1>1, <1>5, <1>6
<1>8. ASSUME NEW k \in 0..(TreeLevel - 1)
      PROVE  Asks[k] = Missing(k) \o ElementsInPackages(IF Cached(k + 1) THEN <<>> ELSE Asks[k + 1],
                                                        PackSize(k))
  <2>1. k \in 0..TreeLevel /\ k # TreeLevel
    BY <1>1
  <2>2. asks[k] = From(k, asks[k + 1])
    BY <1>5, <2>1
  <2> QED BY <1>6, <2>2 DEF From
<1> DEFINE L == {m \in 0..TreeLevel : IsList(Asks[TreeLevel - m])}
<1>9. 0 \in L
  <2>1. TreeLevel - 0 = TreeLevel /\ 0 \in 0..TreeLevel
    BY <1>1
  <2> QED BY <1>7, <2>1, EmptyList
<1>10. ASSUME NEW m \in 0..(TreeLevel - 1), m \in L PROVE m + 1 \in L
  <2>1. PICK k \in Nat : k = TreeLevel - (m + 1) /\ TreeLevel - m = k + 1 /\ k \in 0..(TreeLevel - 1)
                         /\ m + 1 \in 0..TreeLevel /\ k \in 0..(h + 1)
    BY <1>1
  <2>2. IsList(Asks[k + 1])
    BY <1>10, <2>1
  <2>3. PICK above : above = IF Cached(k + 1) THEN <<>> ELSE Asks[k + 1]
    OBVIOUS
  <2>4. IsList(above)
    BY <2>2, <2>3, EmptyList
  <2>5. IsList(ElementsInPackages(above, PackSize(k)))
    <3>1. PackSize(k) \in Nat \ {0}
      BY LevelSizes
    <3> QED BY <2>4, <3>1, ElementsInPackagesAre
  <2>6. IsList(Missing(k))
    BY <2>1, MissingIsList
  <2>7. Asks[k] = Missing(k) \o ElementsInPackages(above, PackSize(k))
    BY <1>8, <2>1, <2>3
  <2>8. IsList(Asks[k])
    BY <2>5, <2>6, <2>7, Joined
  <2> QED BY <2>1, <2>8
<1>11. ASSUME NEW k \in 0..TreeLevel PROVE IsList(Asks[k])
  <2>1. TreeLevel - k \in 0..TreeLevel /\ TreeLevel - (TreeLevel - k) = k
    BY <1>1
  <2>2. \A m \in 0..TreeLevel : m \in L
    <3> HIDE DEF L
    <3> QED BY <1>1, <1>9, <1>10, SegmentInduction
  <2>3. TreeLevel - k \in L
    BY <2>1, <2>2
  <2> QED BY <2>1, <2>3
<1> QED
  BY <1>7, <1>8, <1>11

-----------------------------------------------------------------------------
(* What depends on the table only stays when the table stays. *)

LEMMA SizesStay ==
  ASSUME shape' = shape
  PROVE  /\ NSegments' = NSegments /\ Pieces' = Pieces /\ NRows' = NRows /\ InSegment' = InSegment
         /\ Height' = Height /\ TreeLevel' = TreeLevel /\ VTreeLevel' = VTreeLevel
         /\ PerPackage' = PerPackage /\ NPackages' = NPackages
         /\ TreeHash' = TreeHash
         /\ \A k : PackSize(k)' = PackSize(k) /\ NElements(k)' = NElements(k)
                   /\ Cached(k)' = Cached(k) /\ VHash(k)' = VHash(k) /\ PHash(k)' = PHash(k)
<1>1. /\ NSegments' = NSegments /\ Pieces' = Pieces /\ NRows' = NRows /\ InSegment' = InSegment
      /\ Height' = Height /\ TreeLevel' = TreeLevel /\ VTreeLevel' = VTreeLevel
      /\ PerPackage' = PerPackage /\ NPackages' = NPackages
  BY DEF NSegments, Pieces, NRows, InSegment, Height, TreeLevel, VTreeLevel, PerPackage, NPackages,
         Splits, ElementsInPackage, Log2, Log2Ceil, Least
<1>2. TreeHash' = TreeHash
  BY DEF TreeHash, HashKind
<1>3. FriendlyInSegment' = FriendlyInSegment
  <2>1. Log2(NSegments)' = Log2(NSegments)
    BY <1>1 DEF Log2
  <2> QED BY <1>1, <2>1 DEF FriendlyInSegment
<1>4. ASSUME NEW k
      PROVE  PackSize(k)' = PackSize(k) /\ NElements(k)' = NElements(k)
             /\ Cached(k)' = Cached(k) /\ VHash(k)' = VHash(k) /\ PHash(k)' = PHash(k)
  <2>1. PackSize(k)' = PackSize(k) /\ NElements(k)' = NElements(k)
    BY <1>1 DEF PackSize, NElements
  <2>2. Cached(k)' = Cached(k) /\ VHash(k)' = VHash(k)
    BY <1>1 DEF Cached, VHash, HashKind, Least
  <2>3. PHash(k)' = PHash(k)
    BY <1>1, <1>3 DEF PHash, HashKind
  <2> QED BY <2>1, <2>2, <2>3
<1> QED
  BY <1>1, <1>2, <1>4

LEMMA TableStays ==
  ASSUME shape' = shape
  PROVE  /\ \A k, j : Element(k, j)' = Element(k, j)
         /\ CanonicalRoot' = CanonicalRoot
         /\ Builds(NSegments)' = Builds(NSegments)
         /\ \A w, h, s, i : Sizes(w, h, s, i)' = Sizes(w, h, s, i)
<1>1. /\ NSegments' = NSegments /\ NRows' = NRows /\ InSegment' = InSegment
      /\ Height' = Height /\ VTreeLevel' = VTreeLevel
      /\ PerPackage' = PerPackage /\ NPackages' = NPackages
      /\ \A k : PackSize(k)' = PackSize(k) /\ NElements(k)' = NElements(k) /\ VHash(k)' = VHash(k)
  BY SizesStay
<1>2. TableLevels' = TableLevels
  BY DEF TableLevels, Levels, PackAndHash, Row, VTreeLevel, VHash, NElements, PackSize, NSegments,
         NRows, Pieces, Splits, PerPackage, NPackages, Height, Least, HashKind, Hash,
         ElementsInPackage, Log2, Log2Ceil
<1>3. \A k, j : Element(k, j)' = Element(k, j)
  BY <1>2 DEF Element
<1>4. CanonicalRoot' = CanonicalRoot
  <2>1. CanonicalRoot = TableLevels[VTreeLevel][1] /\ CanonicalRoot' = TableLevels'[VTreeLevel'][1]
    BY DEF CanonicalRoot, TableLevels
  <2> QED BY <1>1, <1>2, <2>1
<1>5. Builds(NSegments)' = Builds(NSegments)
  BY <1>1 DEF Builds, PackagesFit, TopFits, ElementsInPackage, Log2, Log2Ceil, Least
<1>6. \A w, h, s, i : Sizes(w, h, s, i)' = Sizes(w, h, s, i)
  BY <1>1 DEF Sizes
<1> QED
  BY <1>3, <1>4, <1>5, <1>6

LEMMA RequestsStay ==
  ASSUME shape' = shape, queries' = queries
  PROVE  /\ \A k : QueriesAt(k)' = QueriesAt(k) /\ Missing(k)' = Missing(k)
         /\ Asks' = Asks
<1>1. TreeLevel' = TreeLevel /\ PerPackage' = PerPackage
      /\ \A k : PackSize(k)' = PackSize(k) /\ NElements(k)' = NElements(k) /\ Cached(k)' = Cached(k)
  BY SizesStay
<1>2. \A k : QueriesAt(k)' = QueriesAt(k)
  BY <1>1 DEF QueriesAt
<1>3. \A k : Missing(k)' = Missing(k)
  BY <1>1, <1>2 DEF Missing
<1>4. Asks' = Asks
  BY <1>1, <1>3 DEF Asks
<1> QED
  BY <1>2, <1>3, <1>4

-----------------------------------------------------------------------------
(* The inductive invariant: while segments are added, those whose task is *)
(* done have their leaf and their part of every level kept in memory;     *)
(* afterwards all have, and the tree is hashed.                           *)

Added(seg) ==
  \/ seg < Pieces * coset
  \/ /\ seg - Pieces * coset \in Tasks \ waiting
     /\ \A v \in Workers : running[v] # seg - Pieces * coset

CachedLevels == {k \in 1..InSegment : ~shape.plain /\ Cached(k)}
SegmentOf(k, j) == j \div (NElements(k) \div NSegments)

AddingInv ==
  /\ coset \in 0..(shape.cosets - 1) /\ waiting \in SUBSET Tasks
  /\ running \in [Workers -> Tasks \cup {NoTask}]
  /\ scratch = [v \in Workers |-> scratch[v]]
  /\ \A v \in Workers : running[v] # NoTask => scratch[v] = SubSegment(running[v])
  /\ Indexed(nodes, 2 * NSegments - 1)
  /\ DOMAIN cache = CachedLevels
  /\ \A k \in CachedLevels : DOMAIN cache[k] = 0..(NElements(k) - 1)
  /\ \A seg \in 0..(NSegments - 1) : Added(seg) => nodes[NSegments + seg] = Element(TreeLevel, seg)
  /\ \A k \in CachedLevels : \A j \in 0..(NElements(k) - 1) :
       Added(SegmentOf(k, j)) => cache[k][j] = Element(k, j)
  /\ sent = <<>>

CommittedInv ==
  /\ \A k \in CachedLevels : \A j \in 0..(NElements(k) - 1) : cache[k][j] = Element(k, j)
  /\ IsTree(nodes, nodes, NSegments, TreeHash)
  /\ \A j \in 0..(NSegments - 1) : nodes[NSegments + j] = Element(TreeLevel, j)
  /\ IsList(sent) /\ Len(sent) >= 1 /\ sent[1] = << <<"root">>, nodes[1] >>

GivenInv ==
  level \in 0..TreeLevel /\ IsList(given) /\ Len(given) = Len(Asks[level])

Decommitting ==
  {"committed", "requested", "packages", "tree", "reads", "walks", "accepted", "rejected"}

CommitmentInv ==
  /\ shape \in Shapes
  /\ at \in Decommitting \cup {"adding", "failed"}
  /\ at = "failed" => ~Builds(NSegments) /\ sent = <<>>
  /\ at # "failed" => Builds(NSegments)
  /\ at = "adding" => AddingInv
  /\ at \in Decommitting => CommittedInv
  /\ at = "packages" => GivenInv

LEMMA SegmentsAre ==
  ASSUME shape \in Shapes
  PROVE  /\ shape.cosets \in Nat \ {0} /\ Pieces \in Nat \ {0} /\ NRows \in Nat \ {0}
         /\ NSegments = shape.cosets * Pieces /\ NSegments \in Nat \ {0}
         /\ shape.rows = Pieces * NRows
<1>1. PICK c, r, p, w \in Nat :
           /\ shape.cosets = Pow2[c] /\ shape.rows = Pow2[r] /\ Pieces = Pow2[p] /\ p <= r
           /\ NSegments = Pow2[c + p] /\ NRows = Pow2[r - p] /\ NSegments * NRows = Pow2[c + r]
           /\ PerPackage = Pow2[w] /\ w <= c + r
           /\ NPackages = Pow2[(c + r) - w] /\ Height = (c + r) - w
           /\ shape.cosets * shape.rows = Pow2[c + r]
           /\ shape.plain => w = 0 /\ r = 0 /\ p = 0
           /\ ~shape.plain => ElementsInPackage(Pow2[c + r]) = Pow2[w]
  BY TableSizes
<1>2. r - p \in Nat /\ p + (r - p) = r /\ c + p \in Nat
  BY <1>1
<1>3. Pow2[p + (r - p)] = Pow2[p] * Pow2[r - p]
  BY <1>2, Pow2Sum
<1>4. shape.cosets \in Nat \ {0} /\ Pieces \in Nat \ {0} /\ NRows \in Nat \ {0}
      /\ NSegments \in Nat \ {0}
  BY <1>1, <1>2, Pow2Is
<1>5. shape.rows = Pieces * NRows
  BY <1>1, <1>2, <1>3
<1> QED
  BY <1>4, <1>5 DEF NSegments

LEMMA SubSegmentIs ==
  ASSUME shape \in Shapes, coset \in 0..(shape.cosets - 1), NEW t \in Tasks
  PROVE  /\ SegmentIndex(t) \in 0..(NSegments - 1)
         /\ SubSegment(t) = [x \in 1..NRows |-> Row(SegmentIndex(t) * NRows + x - 1)]
<1>1. PICK c, p, n \in Nat \ {0} :
         /\ c = shape.cosets /\ p = Pieces /\ n = NRows /\ NSegments = c * p /\ shape.rows = p * n
  BY SegmentsAre
<1>2. PICK b \in Nat : b = coset /\ b \in 0..(c - 1)
  BY <1>1
<1>3. t \in 0..(p - 1)
  BY <1>1 DEF Tasks
<1>4. b * p + t \in 0..(c * p - 1)
  BY <1>2, <1>3, InPart
<1>5. PICK k \in Nat : k = b * p + t /\ SegmentIndex(t) = k
  <2>1. p * b = b * p
    OBVIOUS
  <2> QED BY <1>1, <1>2, <1>4, <2>1 DEF SegmentIndex
<1>6. b * (p * n) + t * n = k * n
  <2>1. b * (p * n) = (b * p) * n
    OBVIOUS
  <2>2. PICK d \in Nat : d = b * p
    OBVIOUS
  <2>3. (d + t) * n = d * n + t * n
    BY <1>3
  <2> QED BY <1>5, <2>1, <2>2, <2>3
<1>7. SubSegment(t) = [x \in 1..n |-> Row(b * (p * n) + t * n + x - 1)]
  BY <1>1, <1>2 DEF SubSegment
<1> QED
  BY <1>1, <1>4, <1>5, <1>6, <1>7

LEMMA InitHolds ==
  CommitmentInit => CommitmentInv
<1> SUFFICES ASSUME CommitmentInit PROVE CommitmentInv
  OBVIOUS
<1>1. shape \in Shapes
  BY DEF CommitmentInit
<1>2. /\ at = IF Builds(NSegments) THEN "adding" ELSE "failed"
      /\ sent = <<>>
  BY DEF CommitmentInit
<1>3. ASSUME at = "adding" PROVE AddingInv
  <2>1. /\ coset = 0 /\ waiting = Tasks
        /\ running = [v \in Workers |-> NoTask] /\ scratch = [v \in Workers |-> <<>>]
        /\ cache = [k \in {l \in 1..InSegment : ~shape.plain /\ Cached(l)} |->
                     [i \in 0..(NElements(k) - 1) |-> Unset]]
        /\ nodes = [i \in 1..(2 * NSegments - 1) |-> Unset]
    BY <1>3 DEF CommitmentInit
  <2>2. /\ shape.cosets \in Nat \ {0} /\ Pieces \in Nat \ {0} /\ NSegments \in Nat \ {0}
    BY <1>1, SegmentsAre
  <2>3. coset \in 0..(shape.cosets - 1)
    BY <2>1, <2>2
  <2>4. \A seg \in Nat : ~Added(seg)
    <3>1. Pieces * coset = 0
      BY <2>1, <2>2
    <3> QED BY <2>1, <3>1 DEF Added
  <2>5. running \in [Workers -> Tasks \cup {NoTask}] /\ scratch = [v \in Workers |-> scratch[v]]
        /\ \A v \in Workers : running[v] = NoTask
    BY <2>1
  <2>6. Indexed(nodes, 2 * NSegments - 1)
    BY <2>1 DEF Indexed
  <2>7. DOMAIN cache = CachedLevels /\ \A k \in CachedLevels : DOMAIN cache[k] = 0..(NElements(k) - 1)
    BY <2>1 DEF CachedLevels
  <2>8. ASSUME NEW k \in CachedLevels, NEW j \in 0..(NElements(k) - 1)
        PROVE  ~Added(SegmentOf(k, j))
    <3>1. PICK w, h, s, i \in Nat : Sizes(w, h, s, i)
      BY <1>1, <1>2, <1>3, SizesAre
    <3>2. k \in 1..i /\ i <= h
      BY <3>1 DEF CachedLevels, Sizes
    <3>3. NElements(k) \div NSegments \in Nat \ {0}
      <4>1. k \in 0..TreeLevel
        BY <3>1, <3>2 DEF CachedLevels, TreeLevel, Sizes
      <4>2. PICK n \in Nat \ {0} : NElements(k) = NSegments * n
        BY <3>1, <4>1, SegmentSizes
      <4>3. n * NSegments = NSegments * n
        BY <2>2
      <4> QED BY <2>2, <4>2, <4>3, WholeParts
    <3>4. SegmentOf(k, j) \in Nat
      <4>1. PICK n \in Nat \ {0} : n = NElements(k) \div NSegments
        BY <3>3
      <4>2. j \in Nat
        OBVIOUS
      <4>3. j \div n \in Nat
        BY <4>2
      <4> QED BY <4>1, <4>3 DEF SegmentOf
    <3> QED BY <2>4, <3>4
  <2> QED BY <1>2, <2>1, <2>3, <2>4, <2>5, <2>6, <2>7, <2>8 DEF AddingInv
<1> QED
  BY <1>1, <1>2, <1>3 DEF CommitmentInv, Decommitting

(* The segments of the parts of a level in memory. *)
LEMMA CachedParts ==
  ASSUME NEW w \in Nat, NEW h \in Nat, NEW s \in Nat, NEW i \in Nat, Sizes(w, h, s, i),
         NEW k \in CachedLevels, shape \in Shapes
  PROVE  /\ k \in 0..TreeLevel /\ InEach(w, i, k) \in Nat \ {0}
         /\ NElements(k) = NSegments * InEach(w, i, k)
         /\ \A j \in 0..(NElements(k) - 1) :
              /\ SegmentOf(k, j) \in 0..(NSegments - 1)
              /\ SegmentOf(k, j) = j \div InEach(w, i, k)
              /\ j % InEach(w, i, k) \in 0..(InEach(w, i, k) - 1)
              /\ j = SegmentOf(k, j) * InEach(w, i, k) + (j % InEach(w, i, k))
<1>1. k \in 0..TreeLevel
  BY DEF CachedLevels, TreeLevel, Sizes
<1>2. PICK n, m \in Nat \ {0} : n = InEach(w, i, k) /\ m = NSegments /\ NElements(k) = m * n
  <2>1. InEach(w, i, k) \in Nat \ {0} /\ NElements(k) = NSegments * InEach(w, i, k)
    BY <1>1, SegmentSizes
  <2>2. NSegments \in Nat \ {0}
    BY SegmentsAre
  <2> QED BY <2>1, <2>2
<1>3. NElements(k) \div m = n
  <2>1. (n * m) \div m = n
    BY WholeParts
  <2>2. n * m = m * n
    OBVIOUS
  <2> QED BY <1>2, <2>1, <2>2
<1>4. ASSUME NEW j \in 0..(m * n - 1)
      PROVE  j \div n \in 0..(m - 1) /\ j % n \in 0..(n - 1) /\ j = (j \div n) * n + (j % n)
  BY DividedInto
<1>5. \A j : SegmentOf(k, j) = j \div n
  BY <1>2, <1>3 DEF SegmentOf
<1> QED
  BY <1>1, <1>2, <1>4, <1>5

(* A step that adds keeps the rest if it keeps what is said of adding. *)
LEMMA AddingKeeps ==
  ASSUME CommitmentInv, at = "adding", shape' = shape, at' = at, AddingInv'
  PROVE  CommitmentInv'
<1>1. shape \in Shapes /\ Builds(NSegments)
  BY DEF CommitmentInv
<1>2. Builds(NSegments)'
  BY <1>1, TableStays
<1> QED
  BY <1>1, <1>2 DEF CommitmentInv, Decommitting

LEMMA TasksStay ==
  ASSUME shape' = shape
  PROVE  /\ Tasks' = Tasks /\ NoTask' = NoTask /\ CachedLevels' = CachedLevels
         /\ \A k, j : SegmentOf(k, j)' = SegmentOf(k, j)
<1>1. Pieces' = Pieces /\ InSegment' = InSegment /\ NSegments' = NSegments
      /\ \A k : NElements(k)' = NElements(k) /\ Cached(k)' = Cached(k)
  BY SizesStay
<1>2. Tasks' = Tasks /\ NoTask' = NoTask
  BY <1>1 DEF Tasks, NoTask
<1>3. CachedLevels' = CachedLevels
  BY <1>1 DEF CachedLevels
<1>4. \A k, j : SegmentOf(k, j)' = SegmentOf(k, j)
  BY <1>1 DEF SegmentOf
<1> QED
  BY <1>2, <1>3, <1>4

(* What else is said of adding does not depend on who adds. *)
LEMMA AddedKeeps ==
  ASSUME CommitmentInv, at = "adding", shape' = shape, nodes' = nodes, cache' = cache, sent' = sent,
         NEW S, S = {seg \in 0..(NSegments - 1) : Added(seg)},
         \A seg \in 0..(NSegments - 1) : Added(seg)' => seg \in S
  PROVE  /\ Indexed(nodes, 2 * NSegments - 1)'
         /\ (DOMAIN cache = CachedLevels)'
         /\ (\A k \in CachedLevels : DOMAIN cache[k] = 0..(NElements(k) - 1))'
         /\ (\A seg \in 0..(NSegments - 1) :
               Added(seg) => nodes[NSegments + seg] = Element(TreeLevel, seg))'
         /\ (\A k \in CachedLevels : \A j \in 0..(NElements(k) - 1) :
               Added(SegmentOf(k, j)) => cache[k][j] = Element(k, j))'
         /\ (sent = <<>>)'
<1>1. AddingInv /\ shape \in Shapes /\ Builds(NSegments)
  BY DEF CommitmentInv
<1>2. NSegments' = NSegments /\ TreeLevel' = TreeLevel /\ \A k : NElements(k)' = NElements(k)
  BY SizesStay
<1>3. \A k, j : Element(k, j)' = Element(k, j)
  BY TableStays
<1>4. CachedLevels' = CachedLevels /\ \A k, j : SegmentOf(k, j)' = SegmentOf(k, j)
  BY TasksStay
<1>5. Indexed(nodes, 2 * NSegments - 1)' /\ (sent = <<>>)' /\ (DOMAIN cache = CachedLevels)'
      /\ (\A k \in CachedLevels : DOMAIN cache[k] = 0..(NElements(k) - 1))'
  BY <1>1, <1>2, <1>4 DEF AddingInv, Indexed
<1>6. ASSUME NEW seg \in 0..(NSegments - 1), Added(seg)'
      PROVE  nodes'[NSegments + seg] = Element(TreeLevel, seg)
  <2>1. Added(seg)
    BY <1>6
  <2> QED BY <1>1, <2>1 DEF AddingInv
<1>7. ASSUME NEW k \in CachedLevels, NEW j \in 0..(NElements(k) - 1), Added(SegmentOf(k, j))'
      PROVE  cache'[k][j] = Element(k, j)
  <2>1. SegmentOf(k, j) \in 0..(NSegments - 1)
    <3>1. PICK w, h, s, i \in Nat : Sizes(w, h, s, i)
      BY <1>1, SizesAre
    <3> QED BY <1>1, <3>1, CachedParts
  <2>2. PICK seg : seg = SegmentOf(k, j)
    OBVIOUS
  <2>3. Added(seg)'
    BY <1>4, <1>7, <2>2
  <2>4. Added(seg)
    BY <2>1, <2>2, <2>3
  <2> QED BY <1>1, <2>2, <2>4 DEF AddingInv
<1>8. (\A seg \in 0..(NSegments - 1) :
               Added(seg) => nodes[NSegments + seg] = Element(TreeLevel, seg))'
  BY <1>2, <1>3, <1>6
<1>9. (\A k \in CachedLevels : \A j \in 0..(NElements(k) - 1) :
               Added(SegmentOf(k, j)) => cache[k][j] = Element(k, j))'
  BY <1>2, <1>3, <1>4, <1>7
<1> QED
  BY <1>5, <1>8, <1>9

LEMMA StartsTaskKeeps ==
  ASSUME CommitmentInv, NEW w \in Workers, StartsTask(w)
  PROVE  CommitmentInv'
<1>1. PICK t \in waiting : /\ waiting' = waiting \ {t}
                           /\ running' = [running EXCEPT ![w] = t]
                           /\ scratch' = [scratch EXCEPT ![w] = SubSegment(t)]
  BY DEF StartsTask, Slot
<1>2. /\ at = "adding" /\ running[w] = NoTask
      /\ shape' = shape /\ at' = at /\ coset' = coset /\ cache' = cache /\ nodes' = nodes /\ sent' = sent
  BY DEF StartsTask, proving
<1>3. AddingInv /\ shape \in Shapes
  BY <1>2 DEF CommitmentInv
<1>4. Tasks' = Tasks /\ NoTask' = NoTask /\ Pieces' = Pieces /\ NRows' = NRows
  BY <1>2, TasksStay, SizesStay
<1>5. t \in Tasks /\ waiting' \in SUBSET Tasks
  BY <1>1, <1>3 DEF AddingInv
<1>6. running' \in [Workers -> Tasks \cup {NoTask}] /\ scratch' = [v \in Workers |-> scratch'[v]]
  BY <1>1, <1>3, <1>5 DEF AddingInv
<1>7. \A u : SubSegment(u)' = SubSegment(u)
  BY <1>2, <1>4 DEF SubSegment
<1>8. \A v \in Workers : running'[v] # NoTask => scratch'[v] = SubSegment(running'[v])
  <2>1. TAKE v \in Workers
  <2>2. CASE v = w
    BY <1>1, <1>3, <2>2 DEF AddingInv
  <2>3. CASE v # w
    BY <1>1, <1>3, <2>3 DEF AddingInv
  <2> QED BY <2>2, <2>3
<1>9. ASSUME NEW seg \in 0..(NSegments - 1), Added(seg)' PROVE Added(seg)
  <2>1. CASE seg < Pieces * coset
    BY <2>1 DEF Added
  <2>2. CASE ~(seg < Pieces * coset)
    <3>1. PICK u : u = seg - Pieces * coset
      OBVIOUS
    <3>2. u \in Tasks \ waiting' /\ \A v \in Workers : running'[v] # u
      BY <1>2, <1>4, <1>9, <2>2, <3>1 DEF Added
    <3>3. running'[w] = t
      BY <1>1, <1>3 DEF AddingInv
    <3>4. u # t /\ u \in Tasks \ waiting
      BY <1>1, <3>2, <3>3
    <3>5. u # NoTask
      <4>1. Pieces \in Nat
        BY <1>3, SegmentsAre
      <4> QED BY <3>4, <4>1 DEF Tasks, NoTask
    <3>6. \A v \in Workers : running[v] # u
      BY <1>1, <1>2, <1>3, <3>2, <3>5 DEF AddingInv
    <3> QED BY <3>1, <3>4, <3>6 DEF Added
  <2> QED BY <2>1, <2>2
<1>10. AddingInv'
  <2>1. /\ Indexed(nodes, 2 * NSegments - 1)'
        /\ (DOMAIN cache = CachedLevels)'
        /\ (\A k \in CachedLevels : DOMAIN cache[k] = 0..(NElements(k) - 1))'
        /\ (\A seg \in 0..(NSegments - 1) :
               Added(seg) => nodes[NSegments + seg] = Element(TreeLevel, seg))'
        /\ (\A k \in CachedLevels : \A j \in 0..(NElements(k) - 1) :
               Added(SegmentOf(k, j)) => cache[k][j] = Element(k, j))'
        /\ (sent = <<>>)'
    <3>1. PICK S : S = {seg \in 0..(NSegments - 1) : Added(seg)}
      OBVIOUS
    <3>2. \A seg \in 0..(NSegments - 1) : Added(seg)' => seg \in S
      BY <1>9, <3>1
    <3> QED BY <1>2, <3>1, <3>2, AddedKeeps
  <2>2. (coset \in 0..(shape.cosets - 1))'
    BY <1>2, <1>3 DEF AddingInv
  <2> QED BY <1>4, <1>5, <1>6, <1>7, <1>8, <2>1, <2>2 DEF AddingInv
<1> QED
  BY <1>2, <1>10, AddingKeeps

LEMMA NextSegmentKeeps ==
  ASSUME CommitmentInv, NextSegment
  PROVE  CommitmentInv'
<1>1. /\ at = "adding" /\ waiting = {} /\ \A v \in Workers : running[v] = NoTask
      /\ coset < shape.cosets - 1 /\ coset' = coset + 1 /\ waiting' = Tasks
      /\ scratch' = [v \in Workers |-> <<>>]
      /\ shape' = shape /\ at' = at /\ running' = running
      /\ cache' = cache /\ nodes' = nodes /\ sent' = sent
  BY DEF NextSegment, SegmentIsAdded, proving
<1>2. AddingInv /\ shape \in Shapes
  BY <1>1 DEF CommitmentInv
<1>3. Tasks' = Tasks /\ NoTask' = NoTask /\ Pieces' = Pieces
  BY <1>1, TasksStay, SizesStay
<1>4. shape.cosets \in Nat \ {0} /\ Pieces \in Nat \ {0} /\ NSegments \in Nat
  BY <1>2, SegmentsAre
<1>5. coset \in Nat /\ coset' \in 0..(shape.cosets - 1)
  BY <1>1, <1>2, <1>4 DEF AddingInv
<1>6. ASSUME NEW seg \in 0..(NSegments - 1), Added(seg)' PROVE Added(seg)
  <2>1. PICK p \in Nat \ {0}, a \in Nat : p = Pieces /\ a = Pieces * coset
    BY <1>4, <1>5
  <2>2. Pieces * (coset + 1) = a + p
    BY <1>4, <1>5, <2>1
  <2>3. seg < a + p
    <3>1. seg - Pieces' * coset' \notin Tasks' \ waiting'
      BY <1>1, <1>3
    <3> QED BY <1>1, <1>3, <1>6, <2>2, <3>1 DEF Added
  <2>4. CASE seg < a
    BY <2>1, <2>4 DEF Added
  <2>5. CASE ~(seg < a)
    <3>1. seg - a \in Tasks /\ seg - a # NoTask
      BY <1>4, <2>1, <2>3, <2>5 DEF Tasks, NoTask
    <3> QED BY <1>1, <2>1, <3>1 DEF Added
  <2> QED BY <2>4, <2>5
<1>7. AddingInv'
  <2>1. /\ Indexed(nodes, 2 * NSegments - 1)'
        /\ (DOMAIN cache = CachedLevels)'
        /\ (\A k \in CachedLevels : DOMAIN cache[k] = 0..(NElements(k) - 1))'
        /\ (\A seg \in 0..(NSegments - 1) :
               Added(seg) => nodes[NSegments + seg] = Element(TreeLevel, seg))'
        /\ (\A k \in CachedLevels : \A j \in 0..(NElements(k) - 1) :
               Added(SegmentOf(k, j)) => cache[k][j] = Element(k, j))'
        /\ (sent = <<>>)'
    <3>1. PICK S : S = {seg \in 0..(NSegments - 1) : Added(seg)}
      OBVIOUS
    <3>2. \A seg \in 0..(NSegments - 1) : Added(seg)' => seg \in S
      BY <1>6, <3>1
    <3> QED BY <1>1, <3>1, <3>2, AddedKeeps
  <2>2. (coset \in 0..(shape.cosets - 1))'
    BY <1>1, <1>5
  <2>3. (waiting \in SUBSET Tasks)' /\ (running \in [Workers -> Tasks \cup {NoTask}])'
        /\ (scratch = [v \in Workers |-> scratch[v]])'
    BY <1>1, <1>2, <1>3 DEF AddingInv
  <2>4. (\A v \in Workers : running[v] # NoTask => scratch[v] = SubSegment(running[v]))'
    BY <1>1, <1>3
  <2> QED BY <2>1, <2>2, <2>3, <2>4 DEF AddingInv
<1> QED
  BY <1>1, <1>7, AddingKeeps

LEMMA AddsSegmentKeeps ==
  ASSUME CommitmentInv, NEW v \in Workers, AddsSegment(v)
  PROVE  CommitmentInv'
<1> DEFINE seg == SegmentIndex(running[v])
           kinds == [k \in 0..(TreeLevel - 1) |-> PHash(k)]
           up == Levels(scratch[v], TreeLevel, kinds)
<1>1. /\ at = "adding" /\ running[v] # NoTask
      /\ cache' = [k \in DOMAIN cache |->
                     [i \in DOMAIN cache[k] |->
                        IF i \div Len(up[k]) = seg THEN up[k][(i % Len(up[k])) + 1] ELSE cache[k][i]]]
      /\ nodes' = [nodes EXCEPT ![NSegments + seg] = up[TreeLevel][1]]
      /\ running' = [running EXCEPT ![v] = NoTask]
      /\ shape' = shape /\ at' = at /\ coset' = coset /\ waiting' = waiting /\ scratch' = scratch
      /\ sent' = sent
  BY DEF AddsSegment, Slot
<1>2. AddingInv /\ shape \in Shapes /\ Builds(NSegments)
  BY <1>1 DEF CommitmentInv
<1>3. PICK w, h, s, i \in Nat : Sizes(w, h, s, i)
  BY <1>2, SizesAre
<1>4. PICK t \in Tasks : t = running[v] /\ scratch[v] = SubSegment(t)
  BY <1>1, <1>2 DEF AddingInv
<1>5. PICK g \in 0..(NSegments - 1) : g = seg
  <2>1. coset \in 0..(shape.cosets - 1)
    BY <1>2 DEF AddingInv
  <2> QED BY <1>2, <1>4, <2>1, SubSegmentIs
<1>6. scratch[v] = [x \in 1..NRows |-> Row(g * NRows + x - 1)]
  <2>1. coset \in 0..(shape.cosets - 1)
    BY <1>2 DEF AddingInv
  <2> QED BY <1>2, <1>4, <1>5, <2>1, SubSegmentIs
<1>7. \A k \in 0..TreeLevel :
        /\ Len(up[k]) = InEach(w, i, k)
        /\ \A x \in 0..(InEach(w, i, k) - 1) : up[k][x + 1] = Element(k, g * InEach(w, i, k) + x)
  <2> HIDE DEF seg
  <2>1. PICK rows : rows = scratch[v]
    OBVIOUS
  <2>2. rows = [x \in 1..NRows |-> Row(g * NRows + x - 1)]
    BY <1>6, <2>1
  <2>3. SegmentLevelsFit(rows, g, w, i)
    BY <1>2, <1>3, <2>2, SegmentLevelsAre
  <2> QED BY <2>1, <2>3 DEF SegmentLevelsFit
<1> HIDE DEF up, kinds, seg
<1>8. /\ NSegments' = NSegments /\ TreeLevel' = TreeLevel /\ (\A k : NElements(k)' = NElements(k))
      /\ \A k, j : Element(k, j)' = Element(k, j)
      /\ CachedLevels' = CachedLevels /\ \A k, j : SegmentOf(k, j)' = SegmentOf(k, j)
      /\ Tasks' = Tasks /\ NoTask' = NoTask /\ Pieces' = Pieces /\ NRows' = NRows
  BY <1>1, SizesStay, TableStays, TasksStay
<1>9. NSegments \in Nat \ {0} /\ Pieces \in Nat \ {0} /\ coset \in Nat /\ TreeLevel \in Nat
  BY <1>2, <1>3, SegmentsAre, LevelSizes DEF AddingInv
<1>10. ASSUME NEW sg \in 0..(NSegments - 1), Added(sg)', sg # g PROVE Added(sg)
  <2>1. CASE sg < Pieces * coset
    BY <2>1 DEF Added
  <2>2. CASE ~(sg < Pieces * coset)
    <3>1. PICK b \in Nat : b = Pieces * coset
      BY <1>9
    <3>2. sg - b \in Tasks \ waiting /\ \A z \in Workers : running'[z] # sg - b
      BY <1>1, <1>8, <1>10, <2>2, <3>1 DEF Added
    <3>3. sg - b # t
      <4>1. g = b + t
        BY <1>4, <1>5, <3>1 DEF seg, SegmentIndex
      <4>2. t \in Nat
        BY <1>9 DEF Tasks
      <4> QED BY <1>10, <3>1, <4>1, <4>2
    <3>4. \A z \in Workers : running[z] # sg - b
      BY <1>1, <1>2, <1>4, <3>2, <3>3 DEF AddingInv
    <3> QED BY <3>1, <3>2, <3>4 DEF Added
  <2> QED BY <2>1, <2>2
<1>11. up[TreeLevel][1] = Element(TreeLevel, g)
  <2>1. InEach(w, i, TreeLevel) = 1 /\ TreeLevel \in 0..TreeLevel
    BY <1>3, <1>9, SegmentSizes
  <2>2. up[TreeLevel][0 + 1] = Element(TreeLevel, g * InEach(w, i, TreeLevel) + 0)
    <3>1. \A x \in 0..(InEach(w, i, TreeLevel) - 1) :
            up[TreeLevel][x + 1] = Element(TreeLevel, g * InEach(w, i, TreeLevel) + x)
      BY <1>7, <2>1
    <3>2. 0 \in 0..(InEach(w, i, TreeLevel) - 1)
      BY <2>1
    <3> QED BY <3>1, <3>2
  <2>3. g * 1 + 0 = g
    OBVIOUS
  <2> QED BY <2>1, <2>2, <2>3
<1>12. Indexed(nodes', 2 * NSegments - 1)
  BY <1>1, <1>2 DEF AddingInv, Indexed
<1>13. ASSUME NEW sg \in 0..(NSegments - 1), Added(sg)'
       PROVE  nodes'[NSegments + sg] = Element(TreeLevel, sg)
  <2>1. NSegments + sg \in 1..(2 * NSegments - 1) /\ DOMAIN nodes = 1..(2 * NSegments - 1)
    BY <1>2, <1>9 DEF AddingInv, Indexed
  <2>2. CASE sg = g
    BY <1>1, <1>5, <1>11, <2>1, <2>2
  <2>3. CASE sg # g
    <3>1. nodes[NSegments + sg] = Element(TreeLevel, sg)
      BY <1>2, <1>10, <1>13, <2>3 DEF AddingInv
    <3>2. NSegments + sg # NSegments + seg
      BY <1>5, <1>9, <2>3
    <3> QED BY <1>1, <2>1, <3>1, <3>2
  <2> QED BY <2>2, <2>3
<1>14. DOMAIN cache' = CachedLevels /\ \A k \in CachedLevels : DOMAIN cache'[k] = 0..(NElements(k) - 1)
  BY <1>1, <1>2 DEF AddingInv
<1>15. ASSUME NEW k \in CachedLevels, NEW j \in 0..(NElements(k) - 1), Added(SegmentOf(k, j))'
       PROVE  cache'[k][j] = Element(k, j)
  <2>1. PICK n \in Nat \ {0} : n = InEach(w, i, k) /\ k \in 0..TreeLevel /\ Len(up[k]) = n
    <3>1. k \in 0..TreeLevel /\ InEach(w, i, k) \in Nat \ {0}
      BY <1>2, <1>3, CachedParts
    <3> QED BY <1>7, <3>1
  <2>2. /\ SegmentOf(k, j) \in 0..(NSegments - 1) /\ SegmentOf(k, j) = j \div n
        /\ j % n \in 0..(n - 1) /\ j = SegmentOf(k, j) * n + (j % n)
    BY <1>2, <1>3, <2>1, CachedParts
  <2>3. cache'[k][j] = IF j \div n = g THEN up[k][(j % n) + 1] ELSE cache[k][j]
    BY <1>1, <1>2, <1>5, <2>1 DEF AddingInv
  <2>4. CASE SegmentOf(k, j) = g
    <3>1. up[k][(j % n) + 1] = Element(k, g * n + (j % n))
      BY <1>7, <2>1, <2>2
    <3> QED BY <2>2, <2>3, <2>4, <3>1
  <2>5. CASE SegmentOf(k, j) # g
    <3>1. PICK sg \in 0..(NSegments - 1) : sg = SegmentOf(k, j)
      BY <2>2
    <3>2. Added(sg)'
      BY <1>8, <1>15, <3>1
    <3>3. Added(sg)
      BY <1>10, <2>5, <3>1, <3>2
    <3>4. cache[k][j] = Element(k, j)
      BY <1>2, <3>1, <3>3 DEF AddingInv
    <3> QED BY <2>2, <2>3, <2>5, <3>4
  <2> QED BY <2>4, <2>5
<1>16. running' \in [Workers -> Tasks \cup {NoTask}] /\ scratch' = [z \in Workers |-> scratch'[z]]
  BY <1>1, <1>2 DEF AddingInv
<1>17. \A z \in Workers : running'[z] # NoTask => scratch'[z] = SubSegment(running[z])'
  <2>1. \A u : SubSegment(u)' = SubSegment(u)
    BY <1>1, <1>8 DEF SubSegment
  <2>2. \A z \in Workers : running'[z] # NoTask => running'[z] = running[z]
    BY <1>1, <1>2 DEF AddingInv
  <2> QED BY <1>1, <1>2, <2>1, <2>2 DEF AddingInv
<1>18. AddingInv'
  <2>1. (coset \in 0..(shape.cosets - 1))' /\ (waiting \in SUBSET Tasks)' /\ (sent = <<>>)'
    BY <1>1, <1>2, <1>8 DEF AddingInv
  <2>2. (running \in [Workers -> Tasks \cup {NoTask}])' /\ (scratch = [z \in Workers |-> scratch[z]])'
        /\ (\A z \in Workers : running[z] # NoTask => scratch[z] = SubSegment(running[z]))'
    BY <1>8, <1>16, <1>17
  <2>3. Indexed(nodes, 2 * NSegments - 1)' /\ (DOMAIN cache = CachedLevels)'
        /\ (\A k \in CachedLevels : DOMAIN cache[k] = 0..(NElements(k) - 1))'
    BY <1>8, <1>12, <1>14 DEF Indexed
  <2>4. (\A sg \in 0..(NSegments - 1) : Added(sg) => nodes[NSegments + sg] = Element(TreeLevel, sg))'
    BY <1>8, <1>13
  <2>5. (\A k \in CachedLevels : \A j \in 0..(NElements(k) - 1) :
               Added(SegmentOf(k, j)) => cache[k][j] = Element(k, j))'
    BY <1>8, <1>15
  <2> QED BY <2>1, <2>2, <2>3, <2>4, <2>5 DEF AddingInv
<1> QED
  BY <1>1, <1>18, AddingKeeps

LEMMA CommitKeeps ==
  ASSUME CommitmentInv, Commit
  PROVE  CommitmentInv'
<1> DEFINE tree == CHOOSE f : f = [i \in DOMAIN nodes |->
                     IF i >= NSegments THEN nodes[i]
                     ELSE Hash(TreeHash, <<f[2 * i], f[2 * i + 1]>>)]
<1>1. /\ at = "adding" /\ waiting = {} /\ \A v \in Workers : running[v] = NoTask
      /\ coset = shape.cosets - 1 /\ at' = "committed"
      /\ nodes' = tree /\ sent' = << << <<"root">>, tree[1] >> >>
      /\ shape' = shape /\ cache' = cache
  BY DEF Commit, SegmentIsAdded
<1>2. AddingInv /\ shape \in Shapes /\ Builds(NSegments)
  BY <1>1 DEF CommitmentInv
<1>3. PICK n \in Nat \ {0} : n = NSegments /\ DOMAIN nodes = 1..(2 * n - 1)
  <2>1. NSegments \in Nat \ {0}
    BY <1>2, SegmentsAre
  <2> QED BY <1>2, <2>1 DEF AddingInv, Indexed
<1>4. IsTree(tree, nodes, n, TreeHash)
  <2>1. PICK f : IsTree(f, nodes, n, TreeHash)
    BY TreeExists
  <2>2. f = [i \in DOMAIN nodes |-> IF i >= NSegments THEN nodes[i]
                                    ELSE Hash(TreeHash, <<f[2 * i], f[2 * i + 1]>>)]
    BY <1>3, <2>1 DEF IsTree
  <2>3. tree = [i \in DOMAIN nodes |-> IF i >= NSegments THEN nodes[i]
                                       ELSE Hash(TreeHash, <<tree[2 * i], tree[2 * i + 1]>>)]
    BY <2>2
  <2> QED BY <1>3, <2>3 DEF IsTree
<1> HIDE DEF tree
<1>5. \A i \in n..(2 * n - 1) : tree[i] = nodes[i]
  BY <1>4 DEF IsTree
<1>6. IsTree(tree, tree, n, TreeHash)
  <2>1. \A x \in 1..(2 * n - 1) :
          (IF x >= n THEN nodes[x] ELSE Hash(TreeHash, <<tree[2 * x], tree[2 * x + 1]>>))
            = IF x >= n THEN tree[x] ELSE Hash(TreeHash, <<tree[2 * x], tree[2 * x + 1]>>)
    BY <1>5
  <2> QED BY <1>4, <2>1 DEF IsTree
<1>7. ASSUME NEW seg \in 0..(NSegments - 1) PROVE Added(seg)
  <2>1. PICK c, p \in Nat \ {0} : c = shape.cosets /\ p = Pieces /\ NSegments = c * p
    BY <1>2, SegmentsAre
  <2>2. PICK a \in Nat : a = p * (c - 1)
    <3>1. c - 1 \in Nat
      OBVIOUS
    <3> QED BY <3>1
  <2>3. NSegments = a + p
    BY <2>1, <2>2
  <2>4. Pieces * coset = a
    BY <1>1, <2>1, <2>2
  <2>5. CASE seg < a
    BY <2>4, <2>5 DEF Added
  <2>6. CASE ~(seg < a)
    <3>1. seg - a \in Tasks /\ seg - a # NoTask
      BY <2>1, <2>3, <2>6 DEF Tasks, NoTask
    <3> QED BY <1>1, <2>4, <3>1 DEF Added
  <2> QED BY <2>5, <2>6
<1>8. \A j \in 0..(n - 1) : tree[n + j] = Element(TreeLevel, j)
  <2>1. TAKE j \in 0..(n - 1)
  <2>2. n + j \in n..(2 * n - 1)
    OBVIOUS
  <2>3. nodes[n + j] = Element(TreeLevel, j)
    BY <1>2, <1>3, <1>7 DEF AddingInv
  <2> QED BY <1>5, <2>2, <2>3
<1>9. \A k \in CachedLevels : \A j \in 0..(NElements(k) - 1) : cache[k][j] = Element(k, j)
  <2>1. TAKE k \in CachedLevels
  <2>2. TAKE j \in 0..(NElements(k) - 1)
  <2>3. SegmentOf(k, j) \in 0..(NSegments - 1)
    <3>1. PICK w, h, s, i \in Nat : Sizes(w, h, s, i)
      BY <1>2, SizesAre
    <3> QED BY <1>2, <3>1, CachedParts
  <2> QED BY <1>2, <1>7, <2>3 DEF AddingInv
<1>10. CommittedInv'
  <2>1. /\ NSegments' = NSegments /\ TreeLevel' = TreeLevel /\ (\A k : NElements(k)' = NElements(k))
        /\ TreeHash' = TreeHash /\ CachedLevels' = CachedLevels
        /\ \A k, j : Element(k, j)' = Element(k, j)
    BY <1>1, SizesStay, TableStays, TasksStay
  <2>2. (\A k \in CachedLevels : \A j \in 0..(NElements(k) - 1) : cache[k][j] = Element(k, j))'
    BY <1>1, <1>9, <2>1
  <2>3. IsTree(nodes, nodes, NSegments, TreeHash)'
    BY <1>1, <1>3, <1>6, <2>1 DEF IsTree
  <2>4. (\A j \in 0..(NSegments - 1) : nodes[NSegments + j] = Element(TreeLevel, j))'
    BY <1>1, <1>3, <1>8, <2>1
  <2>5. IsList(sent') /\ Len(sent') = 1 /\ sent'[1] = << <<"root">>, nodes'[1] >>
    BY <1>1, OneElement
  <2> QED BY <2>2, <2>3, <2>4, <2>5 DEF CommittedInv, IsList
<1>11. Builds(NSegments)'
  BY <1>1, <1>2, TableStays
<1> QED
  BY <1>1, <1>2, <1>10, <1>11 DEF CommitmentInv, Decommitting

LEMMA CommittedKeeps ==
  ASSUME CommitmentInv, at \in Decommitting, at' \in Decommitting,
         shape' = shape, cache' = cache, nodes' = nodes,
         IsList(sent'), Len(sent') >= 1, sent'[1] = sent[1], at' = "packages" => GivenInv'
  PROVE  CommitmentInv'
<1>1. CommittedInv /\ shape \in Shapes /\ Builds(NSegments)
  BY DEF CommitmentInv, Decommitting
<1>2. /\ NSegments' = NSegments /\ TreeLevel' = TreeLevel /\ (\A k : NElements(k)' = NElements(k))
      /\ TreeHash' = TreeHash /\ CachedLevels' = CachedLevels
      /\ \A k, j : Element(k, j)' = Element(k, j)
  BY SizesStay, TableStays, TasksStay
<1>3. (\A k \in CachedLevels : \A j \in 0..(NElements(k) - 1) : cache[k][j] = Element(k, j))'
      /\ IsTree(nodes, nodes, NSegments, TreeHash)'
      /\ (\A j \in 0..(NSegments - 1) : nodes[NSegments + j] = Element(TreeLevel, j))'
  BY <1>1, <1>2 DEF CommittedInv, IsTree
<1>4. CommittedInv'
  BY <1>1, <1>3 DEF CommittedInv
<1>5. Builds(NSegments)'
  BY <1>1, TableStays
<1> QED
  BY <1>1, <1>4, <1>5 DEF CommitmentInv, Decommitting

LEMMA NothingInList ==
  ASSUME NEW s, IsList(s), Len(s) = 0
  PROVE  s = <<>>
<1>1. \A i \in 1..Len(s) : s[i] = <<>>[i]
  OBVIOUS
<1> QED
  BY <1>1, EmptyList, ListsAreEqual

LEMMA DecommitKeeps ==
  ASSUME CommitmentInv, Decommit
  PROVE  CommitmentInv'
<1>1. /\ at = "requested" /\ at' = "packages" /\ level' = 0
      /\ given' = [i \in DOMAIN Asks[0] |-> Row(Asks[0][i])]
      /\ shape' = shape /\ cache' = cache /\ nodes' = nodes /\ sent' = sent /\ queries' = queries
  BY DEF Decommit
<1>2. CommittedInv /\ shape \in Shapes /\ Builds(NSegments)
  BY <1>1 DEF CommitmentInv, Decommitting
<1>3. PICK w, h, s, i \in Nat : Sizes(w, h, s, i)
  BY <1>2, SizesAre
<1>4. 0 \in 0..TreeLevel /\ IsList(Asks[0])
  <2>1. 0 \in 0..TreeLevel
    BY <1>3, LevelSizes
  <2> QED BY <1>3, <2>1, AsksAre
<1>5. PICK n \in Nat : n = Len(Asks[0]) /\ DOMAIN Asks[0] = 1..n
  BY <1>4, ListProperties
<1>6. IsList(given') /\ Len(given') = n
  <2>1. given' = [x \in 1..n |-> given'[x]]
    BY <1>1, <1>5
  <2>2. PICK g : g = given'
    OBVIOUS
  <2> QED BY <2>1, <2>2, IndexedIsList
<1>7. GivenInv'
  <2>1. Asks' = Asks /\ TreeLevel' = TreeLevel
    BY <1>1, RequestsStay, SizesStay
  <2> QED BY <1>1, <1>4, <1>5, <1>6, <2>1 DEF GivenInv, IsList
<1> QED
  BY <1>1, <1>2, <1>7, CommittedKeeps DEF Decommitting, CommittedInv

(* What is left of the elements given to a level, in packages, is what the *)
(* level above has asked for.                                              *)
LEMMA GivenPacked ==
  ASSUME CommitmentInv, at = "packages", level < TreeLevel
  PROVE  LET n == Len(Missing(level))
             rest == SubSeq(given, n + 1, Len(given))
             m == IF Cached(level + 1) THEN 0 ELSE Len(Asks[level + 1])
         IN  /\ level \in Nat /\ level + 1 \in 0..TreeLevel /\ n \in Nat /\ m \in Nat
             /\ Len(given) = n + m * PackSize(level)
             /\ rest = [x \in 1..(m * PackSize(level)) |-> given[n + x]]
             /\ PackAndHash(rest, PackSize(level), PHash(level)) =
                  Packed(rest, m, PackSize(level), PHash(level))
             /\ IsList(Packed(rest, m, PackSize(level), PHash(level)))
             /\ Len(Packed(rest, m, PackSize(level), PHash(level))) = m
<1>1. GivenInv /\ shape \in Shapes /\ Builds(NSegments)
  BY DEF CommitmentInv, Decommitting
<1>2. PICK w, h, s, i \in Nat : Sizes(w, h, s, i)
  BY <1>1, SizesAre
<1>3. PICK k \in Nat : k = level /\ k \in 0..(TreeLevel - 1) /\ k + 1 \in 0..TreeLevel /\ k \in 0..(h + 1)
                       /\ k \in 0..TreeLevel
  <2>1. TreeLevel \in 0..(h + 1)
    BY <1>2, LevelSizes
  <2> QED BY <1>1, <2>1 DEF GivenInv
<1>4. PICK size \in Nat \ {0} : size = PackSize(k)
  BY <1>2, LevelSizes
<1>5. PICK n \in Nat : n = Len(Missing(k)) /\ IsList(Missing(k))
  <2>1. IsList(Missing(k))
    BY <1>2, <1>3, MissingIsList
  <2> QED BY <2>1, ListProperties
<1>6. PICK above : above = (IF Cached(k + 1) THEN <<>> ELSE Asks[k + 1]) /\ IsList(above)
  <2>1. IsList(Asks[k + 1])
    BY <1>2, <1>3, AsksAre
  <2> QED BY <2>1, EmptyList
<1>7. PICK m \in Nat : m = Len(above) /\ m = IF Cached(k + 1) THEN 0 ELSE Len(Asks[k + 1])
  BY <1>6, ListProperties, EmptyList
<1>8. Len(Asks[k]) = n + m * size
  <2>1. IsList(ElementsInPackages(above, size)) /\ Len(ElementsInPackages(above, size)) = m * size
    BY <1>6, <1>7, ElementsInPackagesAre
  <2>2. Asks[k] = Missing(k) \o ElementsInPackages(above, size)
    BY <1>2, <1>3, <1>4, <1>6, AsksAre
  <2> QED BY <1>5, <2>1, <2>2, Joined
<1>9. PICK l \in Nat : l = m * size
  OBVIOUS
<1>10. IsList(given) /\ Len(given) = n + l
  BY <1>1, <1>3, <1>8, <1>9 DEF GivenInv
<1>11. SubSeq(given, n + 1, n + l) = [x \in 1..l |-> given[n + x]]
  BY PartIs
<1>12. PICK rest : rest = SubSeq(given, n + 1, n + l) /\ rest = [x \in 1..l |-> given[n + x]]
                   /\ Indexed(rest, l)
  BY <1>11 DEF Indexed
<1>13. PICK kind : kind = PHash(k)
  OBVIOUS
<1>14. PackAndHash(rest, size, kind) = Packed(rest, m, size, kind) /\ Indexed(Packed(rest, m, size, kind), m)
  <2>1. Indexed(rest, m * size)
    BY <1>9, <1>12
  <2> QED BY <2>1, PackedAre
<1>15. IsList(Packed(rest, m, size, kind)) /\ Len(Packed(rest, m, size, kind)) = m
  <2>1. PICK p : p = Packed(rest, m, size, kind) /\ p = [x \in 1..m |-> p[x]]
    BY <1>14 DEF Indexed
  <2> QED BY <2>1, IndexedIsList
<1> QED
  BY <1>3, <1>4, <1>5, <1>7, <1>9, <1>10, <1>12, <1>13, <1>14, <1>15

LEMMA DecommitLevelKeeps ==
  ASSUME CommitmentInv, DecommitLevel
  PROVE  CommitmentInv'
<1> DEFINE n == Len(Missing(level))
           rest == SubSeq(given, n + 1, Len(given))
           packed == PackAndHash(rest, PackSize(level), PHash(level))
           cached == [i \in DOMAIN Asks[level + 1] |-> cache[level + 1][Asks[level + 1][i]]]
           m == IF Cached(level + 1) THEN 0 ELSE Len(Asks[level + 1])
           added == [i \in 1..n |-> <<Label(level, Missing(level)[i]), given[i]>>]
<1>1. /\ at = "packages" /\ level < TreeLevel
      /\ IF Len(given) # Len(Asks[level]) \/ (Cached(level + 1) /\ packed # <<>>)
         THEN at' = "failed" /\ UNCHANGED <<sent, given, level>>
         ELSE /\ sent' = sent \o added
              /\ given' = IF Cached(level + 1) THEN cached ELSE packed
              /\ level' = level + 1
              /\ UNCHANGED at
      /\ shape' = shape /\ cache' = cache /\ nodes' = nodes /\ queries' = queries
  BY DEF DecommitLevel, building
<1>2. GivenInv /\ CommittedInv /\ shape \in Shapes /\ Builds(NSegments)
  BY <1>1 DEF CommitmentInv, Decommitting
<1>3. PICK w, h, s, i \in Nat : Sizes(w, h, s, i)
  BY <1>2, SizesAre
<1>4. /\ level \in Nat /\ level + 1 \in 0..TreeLevel /\ n \in Nat /\ m \in Nat
      /\ packed = Packed(rest, m, PackSize(level), PHash(level))
      /\ IsList(packed) /\ Len(packed) = m
  BY <1>1, GivenPacked
<1> HIDE DEF packed, rest
<1>5. Cached(level + 1) => packed = <<>>
  BY <1>4, NothingInList
<1>6. /\ sent' = sent \o added
      /\ given' = IF Cached(level + 1) THEN cached ELSE packed
      /\ level' = level + 1 /\ at' = at
  BY <1>1, <1>2, <1>5 DEF GivenInv
<1>7. IsList(given') /\ Len(given') = Len(Asks[level + 1])
  <2>1. CASE Cached(level + 1)
    <3>1. IsList(Asks[level + 1])
      BY <1>3, <1>4, AsksAre
    <3>2. PICK l \in Nat : l = Len(Asks[level + 1]) /\ DOMAIN Asks[level + 1] = 1..l
      BY <3>1, ListProperties
    <3>3. PICK g : g = cached /\ g = [x \in 1..l |-> g[x]]
      BY <3>2
    <3> QED BY <1>6, <2>1, <3>2, <3>3, IndexedIsList
  <2>2. CASE ~Cached(level + 1)
    BY <1>4, <1>6, <2>2
  <2> QED BY <2>1, <2>2
<1>8. GivenInv'
  <2>1. Asks' = Asks /\ TreeLevel' = TreeLevel
    BY <1>1, RequestsStay, SizesStay
  <2> QED BY <1>4, <1>6, <1>7, <2>1 DEF GivenInv, IsList
<1>9. IsList(sent') /\ Len(sent') >= 1 /\ sent'[1] = sent[1]
  <2>1. PICK a : a = added /\ IsList(a)
    <3>1. PICK l \in Nat : l = n
      BY <1>4
    <3>2. PICK a : a = added /\ a = [x \in 1..l |-> a[x]]
      BY <3>1
    <3>3. IsList(a)
      BY ONLY <3>1, <3>2, l \in Nat, IndexedIsList
    <3> QED BY <3>2, <3>3
  <2>2. IsList(sent) /\ Len(sent) >= 1
    BY <1>2 DEF CommittedInv
  <2>3. /\ IsList(sent \o a) /\ Len(sent \o a) = Len(sent) + Len(a)
        /\ \A x \in 1..Len(sent) : (sent \o a)[x] = sent[x]
    BY <2>1, <2>2, Joined
  <2>4. Len(sent) \in Nat /\ Len(a) \in Nat
    BY <2>1, <2>2, ListProperties
  <2> QED BY <1>6, <2>1, <2>2, <2>3, <2>4
<1> QED
  BY <1>1, <1>6, <1>8, <1>9, CommittedKeeps DEF Decommitting

LEMMA OthersKeep ==
  ASSUME CommitmentInv,
         \/ StartDecommitmentPhase \/ StartTree \/ TreeStep \/ HandOver \/ VerifyLevel \/ VStartTree
         \/ VTreeStep \/ Compare
  PROVE  CommitmentInv'
<1>1. /\ at \in Decommitting
      /\ shape' = shape /\ cache' = cache /\ nodes' = nodes
  BY DEF StartDecommitmentPhase, StartTree, TreeStep, HandOver, VerifyLevel, VStartTree, VTreeStep,
         Compare, Decommitting, proving
<1>2. CommittedInv /\ shape \in Shapes /\ Builds(NSegments)
  BY <1>1 DEF CommitmentInv, Decommitting
<1>3. IsList(sent) /\ Len(sent) \in Nat /\ Len(sent) >= 1
  BY <1>2, ListProperties DEF CommittedInv
<1>4. at' \in Decommitting /\ at' # "packages"
  <2>1. CASE StartTree
    <3>1. at = "packages" /\ level = TreeLevel /\ at' = IF given = <<>> THEN "tree" ELSE "failed"
      BY <2>1 DEF StartTree
    <3>2. PICK w, h, s, i \in Nat : Sizes(w, h, s, i)
      BY <1>2, SizesAre
    <3>3. IsList(given) /\ Len(given) = Len(Asks[TreeLevel])
      BY <3>1 DEF CommitmentInv, GivenInv
    <3>4. Len(given) = 0
      BY <3>2, <3>3, AsksAre, EmptyList
    <3> QED BY <3>1, <3>3, <3>4, NothingInList DEF Decommitting
  <2> QED BY <2>1 DEF StartDecommitmentPhase, TreeStep, HandOver, VerifyLevel, VStartTree, VTreeStep,
                      Compare, Decommitting
<1>5. sent' = sent \/ \E e : sent' = Append(sent, e)
  BY DEF StartDecommitmentPhase, StartTree, TreeStep, HandOver, VerifyLevel, VStartTree, VTreeStep,
         Compare, proving
<1>6. IsList(sent') /\ Len(sent') >= 1 /\ sent'[1] = sent[1]
  <2>1. CASE sent' = sent
    BY <1>3, <2>1
  <2>2. ASSUME NEW e, sent' = Append(sent, e) PROVE IsList(sent') /\ Len(sent') >= 1 /\ sent'[1] = sent[1]
    <3>1. IsList(sent \o <<e>>) /\ Len(sent \o <<e>>) = Len(sent) + 1 /\ (sent \o <<e>>)[1] = sent[1]
      BY <1>3, OneMoreElement
    <3>2. Append(sent, e) = sent \o <<e>>
      BY <1>3 DEF IsList
    <3> QED BY <1>3, <2>2, <3>1, <3>2
  <2> QED BY <1>5, <2>1, <2>2
<1> QED
  BY <1>1, <1>4, <1>6, CommittedKeeps

LEMMA CommitmentNextKeeps ==
  CommitmentInv /\ [CommitmentNext]_commitment_vars => CommitmentInv'
<1> SUFFICES ASSUME CommitmentInv, [CommitmentNext]_commitment_vars PROVE CommitmentInv'
  OBVIOUS
<1>1. ASSUME NEW v \in Workers, StartsTask(v) \/ AddsSegment(v) PROVE CommitmentInv'
  BY <1>1, StartsTaskKeeps, AddsSegmentKeeps
<1>2. CASE NextSegment
  BY <1>2, NextSegmentKeeps
<1>3. CASE Commit
  BY <1>3, CommitKeeps
<1>4. CASE Decommit
  BY <1>4, DecommitKeeps
<1>5. CASE DecommitLevel
  BY <1>5, DecommitLevelKeeps
<1>6. CASE \/ StartDecommitmentPhase \/ StartTree \/ TreeStep \/ HandOver \/ VerifyLevel \/ VStartTree
           \/ VTreeStep \/ Compare
  BY <1>6, OthersKeep
<1>7. CASE UNCHANGED commitment_vars
  <2>1. /\ shape' = shape /\ at' = at /\ coset' = coset /\ waiting' = waiting /\ running' = running
        /\ scratch' = scratch /\ cache' = cache /\ nodes' = nodes /\ queries' = queries
        /\ given' = given /\ sent' = sent /\ level' = level
    BY <1>7 DEF commitment_vars, building, proving
  <2>2. Asks' = Asks /\ TreeLevel' = TreeLevel /\ Builds(NSegments)' = Builds(NSegments)
    BY <2>1, RequestsStay, SizesStay, TableStays
  <2>3. CASE at = "adding"
    <3>1. AddingInv
      BY <2>3 DEF CommitmentInv
    <3>2. /\ NSegments' = NSegments /\ TreeLevel' = TreeLevel /\ (\A k : NElements(k)' = NElements(k))
          /\ (\A k, j : Element(k, j)' = Element(k, j))
          /\ CachedLevels' = CachedLevels /\ (\A k, j : SegmentOf(k, j)' = SegmentOf(k, j))
          /\ Tasks' = Tasks /\ NoTask' = NoTask /\ Pieces' = Pieces /\ NRows' = NRows
      BY <2>1, SizesStay, TableStays, TasksStay
    <3>3. \A seg : Added(seg)' = Added(seg)
      BY <2>1, <3>2 DEF Added
    <3>4. \A u : SubSegment(u)' = SubSegment(u)
      BY <2>1, <3>2 DEF SubSegment
    <3>5. (\A k \in CachedLevels : \A j \in 0..(NElements(k) - 1) :
               Added(SegmentOf(k, j)) => cache[k][j] = Element(k, j))'
      <4>1. \A k, j : Added(SegmentOf(k, j))' = Added(SegmentOf(k, j))
        BY <3>2, <3>3
      <4> QED BY <2>1, <3>1, <3>2, <4>1 DEF AddingInv
    <3>6. AddingInv'
      BY <2>1, <3>1, <3>2, <3>3, <3>4, <3>5 DEF AddingInv, Indexed
    <3> QED BY <2>1, <2>3, <3>6, AddingKeeps
  <2>4. CASE at \in Decommitting
    <3>1. CommittedInv
      BY <2>4 DEF CommitmentInv
    <3>2. at = "packages" => GivenInv'
      BY <2>1, <2>2 DEF CommitmentInv, GivenInv, IsList
    <3> QED BY <2>1, <2>4, <3>1, <3>2, CommittedKeeps DEF CommittedInv
  <2>5. CASE at = "failed"
    BY <2>1, <2>2, <2>5 DEF CommitmentInv, Decommitting
  <2> QED BY <2>3, <2>4, <2>5 DEF CommitmentInv
<1>8. CASE Ended
  BY <1>7, <1>8 DEF Ended
<1> QED
  BY <1>1, <1>2, <1>3, <1>4, <1>5, <1>6, <1>7, <1>8 DEF CommitmentNext

(* What is cached and committed are elements of the one stack of levels  *)
(* above the rows, whichever worker adds them when.                      *)
THEOREM CommitmentInvariant ==
  CommitmentSpec => []CommitmentInv
<1> QED
  BY InitHolds, CommitmentNextKeeps, PTL DEF CommitmentSpec

(* However the rows are cut and whoever adds them, the prover commits to *)
(* the root that the verifier computes (CommitmentIsCanonical).          *)
THEOREM OneRootOfATable ==
  CommitmentSpec => []CommitmentIsCanonical
<1>1. ASSUME CommitmentInv PROVE CommitmentIsCanonical
  <2>1. ASSUME sent # <<>>, ~shape.plain PROVE Contents(sent)[1] = CanonicalRoot
    <3>1. CommittedInv /\ shape \in Shapes /\ Builds(NSegments)
      BY <1>1, <2>1 DEF CommitmentInv, AddingInv, Decommitting
    <3>2. PICK w, h, s, i \in Nat : Sizes(w, h, s, i)
      BY <3>1, SizesAre
    <3>3. nodes[1] = CanonicalRoot
      BY <2>1, <3>1, <3>2, TreeElements DEF CommittedInv
    <3>4. 1 \in DOMAIN sent
      BY <3>1, ListProperties DEF CommittedInv
    <3> QED BY <3>1, <3>3, <3>4 DEF CommittedInv, Contents
  <2> QED BY <2>1 DEF CommitmentIsCanonical
<1> QED
  BY <1>1, CommitmentInvariant, PTL

(* Only the constructors refuse a table, and no table that they would not *)
(* refuse without tasks, unless friendly levels end inside a segment's    *)
(* part of the tree (SplittingIsSafe).                                    *)
THEOREM SplittingNeverFails ==
  CommitmentSpec => []SplittingIsSafe
<1>1. ASSUME CommitmentInv PROVE SplittingIsSafe
  <2>1. ASSUME at = "failed" PROVE ~PackagesFit(shape.cosets) \/ ~TopFits(NSegments)
    <3>1. shape \in Shapes /\ ~Builds(NSegments)
      BY <1>1, <2>1 DEF CommitmentInv
    <3>2. ~shape.plain /\ (~PackagesFit(NSegments) \/ ~TopFits(NSegments))
      BY <3>1 DEF Builds
    <3> QED BY <3>1, <3>2, SplittingFits
  <2> QED BY <2>1 DEF SplittingIsSafe
<1> QED
  BY <1>1, CommitmentInvariant, PTL

-----------------------------------------------------------------------------
(* Numbers in ascending order. *)

LEMMA AscendingNone ==
  ASSUME NEW S, NEW n \in Nat, \A x \in 0..(n - 1) : x \notin S
  PROVE  Ascending(S, n) = <<>>
<1> DEFINE T == {m \in 0..n : Ascending(S, m) = <<>>}
<1>1. 0 \in T
  BY AscendingSteps
<1>2. ASSUME NEW m \in 0..(n - 1), m \in T PROVE m + 1 \in T
  <2>1. m \in Nat /\ m + 1 \in 0..n /\ m \notin S
    OBVIOUS
  <2>2. Ascending(S, m + 1) = Ascending(S, m)
    BY <2>1, AscendingSteps
  <2> QED BY <1>2, <2>1, <2>2
<1>3. \A m \in 0..n : m \in T
  <2> HIDE DEF T
  <2> QED BY <1>1, <1>2, SegmentInduction
<1>4. n \in T
  BY <1>3
<1> QED
  BY <1>4

(* All elements below n, each once, the smaller ones first. *)
LEMMA AscendingElements ==
  ASSUME NEW S \in SUBSET Nat, NEW n \in Nat
  PROVE  /\ IsList(Ascending(S, n))
         /\ \A x \in 1..Len(Ascending(S, n)) : Ascending(S, n)[x] \in S /\ Ascending(S, n)[x] \in 0..(n - 1)
         /\ \A x, y \in 1..Len(Ascending(S, n)) : x < y => Ascending(S, n)[x] < Ascending(S, n)[y]
         /\ \A e \in S : e < n => \E x \in 1..Len(Ascending(S, n)) : Ascending(S, n)[x] = e
<1> DEFINE Good(l, m) ==
             /\ \A x \in 1..Len(l) : l[x] \in S /\ l[x] \in 0..(m - 1)
             /\ \A x, y \in 1..Len(l) : x < y => l[x] < l[y]
             /\ \A e \in S : e < m => \E x \in 1..Len(l) : l[x] = e
           T == {m \in Nat : Good(Ascending(S, m), m)}
<1>1. 0 \in T
  BY AscendingSteps
<1>2. ASSUME NEW m \in T PROVE m + 1 \in T
  <2>1. PICK l \in Seq(Nat) : l = Ascending(S, m)
    BY AscendingSteps
  <2>2. Good(l, m) /\ m \in Nat
    BY <2>1
  <2>3. CASE m \in S
    <3>1. Ascending(S, m + 1) = Append(l, m)
      BY <2>1, <2>2, <2>3, AscendingSteps
    <3>2. PICK p : p = Append(l, m)
      OBVIOUS
    <3>3. PICK k \in Nat : k = Len(l) /\ Len(p) = k + 1 /\ p[k + 1] = m /\ \A x \in 1..k : p[x] = l[x]
      <4>1. m \in Nat
        BY <2>2
      <4> QED BY ONLY <3>2, <4>1, l \in Seq(Nat)
    <3>4. Good(p, m + 1)
      <4>1. ASSUME NEW x \in 1..Len(p) PROVE p[x] \in S /\ p[x] \in 0..((m + 1) - 1)
        <5>1. CASE x = k + 1
          BY <2>2, <2>3, <3>3, <5>1
        <5>2. CASE x # k + 1
          <6>1. x \in 1..k
            BY <3>3, <5>2
          <6>2. p[x] \in S /\ p[x] \in 0..(m - 1)
            BY <2>2, <3>3, <6>1
          <6> QED BY <2>2, <6>2
        <5> QED BY <5>1, <5>2
      <4>2. ASSUME NEW x \in 1..Len(p), NEW y \in 1..Len(p), x < y PROVE p[x] < p[y]
        <5>1. x \in 1..k
          BY <3>3, <4>2
        <5>2. CASE y = k + 1
          BY <2>2, <3>3, <5>1, <5>2
        <5>3. CASE y # k + 1
          <6>1. y \in 1..k
            BY <3>3, <5>3
          <6> QED BY <2>2, <3>3, <4>2, <5>1, <6>1
        <5> QED BY <5>2, <5>3
      <4>3. ASSUME NEW e \in S, e < m + 1 PROVE \E x \in 1..Len(p) : p[x] = e
        <5>1. CASE e = m
          BY <3>3, <5>1
        <5>2. CASE e # m
          <6>1. e < m
            BY <2>2, <4>3, <5>2
          <6>2. PICK x \in 1..k : l[x] = e
            BY <2>2, <3>3, <6>1
          <6> QED BY <3>3, <6>2
        <5> QED BY <5>1, <5>2
      <4> QED BY <4>1, <4>2, <4>3
    <3>5. Good(Ascending(S, m + 1), m + 1)
      <4> HIDE DEF Good
      <4> QED BY <3>1, <3>2, <3>4
    <3> QED BY <2>2, <3>5
  <2>4. CASE m \notin S
    <3>1. Ascending(S, m + 1) = l
      BY <2>1, <2>2, <2>4, AscendingSteps
    <3>2. Good(l, m + 1)
      BY <2>2, <2>4
    <3> QED BY <2>2, <3>1, <3>2
  <2> QED BY <2>3, <2>4
<1>3. T = Nat
  <2>1. T \in SUBSET Nat
    OBVIOUS
  <2> HIDE DEF T
  <2> QED BY <1>1, <1>2, <2>1, SetInduction
<1>4. n \in T
  BY <1>3
<1>5. IsList(Ascending(S, n))
  BY AscendingSteps, ListIs
<1> QED
  BY <1>4, <1>5

-----------------------------------------------------------------------------
(* Queries, missing elements and values, level by level. *)

LEMMA QueriesRise ==
  ASSUME NEW w \in Nat, NEW h \in Nat, NEW s \in Nat, NEW i \in Nat, Sizes(w, h, s, i),
         queries \in SUBSET (0..(NElements(0) - 1))
  PROVE  /\ \A k \in Nat : QueriesAt(k) \in SUBSET Nat
                           /\ QueriesAt(k + 1) = {e \div PackSize(k) : e \in QueriesAt(k)}
         /\ \A k \in 0..(h + 1) : QueriesAt(k) \in SUBSET (0..(NElements(k) - 1))
         /\ queries # {} => \A k \in Nat : QueriesAt(k) # {}
<1>1. PerPackage = Pow2[w] /\ Pow2[w] \in Nat \ {0} /\ NElements(0) \in Nat
  <2>1. 0 \in 0..(h + 1)
    OBVIOUS
  <2>2. NElements(0) \in Nat
    BY <2>1, LevelSizes
  <2> QED BY <2>2, Pow2Is DEF Sizes
<1>2. \A q \in queries : q \in Nat /\ q \div PerPackage \in Nat
  <2>1. TAKE q \in queries
  <2>2. q \in Nat
    OBVIOUS
  <2>3. PICK p \in Nat \ {0} : p = PerPackage
    BY <1>1
  <2>4. q \div p \in Nat
    BY <2>2
  <2> QED BY <2>2, <2>3, <2>4
<1>3. QueriesAt(0) = queries
  BY DEF QueriesAt
<1>4. ASSUME NEW k \in Nat
      PROVE  /\ QueriesAt(k) \in SUBSET Nat
             /\ QueriesAt(k + 1) = {e \div PackSize(k) : e \in QueriesAt(k)}
  <2>1. k + 1 # 0 /\ (k + 1) - 1 = k
    OBVIOUS
  <2>2. QueriesAt(k + 1) = {(q \div PerPackage) \div Pow2[k] : q \in queries}
    BY <2>1 DEF QueriesAt
  <2>3. CASE k = 0
    <3>1. Pow2[0] = 1 /\ \A a \in Nat : a \div 1 = a
      BY Pow2Is
    <3>2. \A q \in queries : (q \div PerPackage) \div Pow2[k] = q \div PerPackage
      BY <1>2, <2>3, <3>1
    <3>3. PackSize(k) = PerPackage /\ QueriesAt(k) = queries
      BY <1>3, <2>3 DEF PackSize
    <3>4. QueriesAt(k + 1) = {q \div PerPackage : q \in queries}
      BY <2>2, <3>2
    <3>5. queries \in SUBSET Nat
      BY <1>2
    <3> QED BY ONLY <3>3, <3>4, <3>5
  <2>4. CASE k # 0
    <3>1. k - 1 \in Nat /\ (k - 1) + 1 = k
      BY <2>4
    <3>2. PICK p \in Nat \ {0} : p = Pow2[k - 1] /\ Pow2[k] = 2 * p
      BY <3>1, Pow2Is
    <3>3. QueriesAt(k) = {(q \div PerPackage) \div p : q \in queries}
      BY <2>4, <3>2 DEF QueriesAt
    <3>4. PackSize(k) = 2
      BY <2>4 DEF PackSize
    <3>5. ASSUME NEW q \in queries
          PROVE  (q \div PerPackage) \div p \in Nat
                 /\ (q \div PerPackage) \div Pow2[k] = ((q \div PerPackage) \div p) \div 2
      <4>1. PICK a \in Nat : a = q \div PerPackage
        BY <1>2
      <4>2. (a \div p) \div 2 = a \div (p * 2)
        BY DividedTwice
      <4>3. p * 2 = Pow2[k] /\ a \div p \in Nat
        BY <3>2
      <4> QED BY <4>1, <4>2, <4>3
    <3> QED BY <2>2, <3>3, <3>4, <3>5
  <2> QED BY <2>3, <2>4
<1> DEFINE T == {k \in 0..(h + 1) : QueriesAt(k) \in SUBSET (0..(NElements(k) - 1))}
<1>5. 0 \in T
  <2>1. 0 \in 0..(h + 1)
    OBVIOUS
  <2>2. QueriesAt(0) \in SUBSET (0..(NElements(0) - 1))
    BY <1>3
  <2> QED BY <2>1, <2>2
<1>6. ASSUME NEW k \in 0..((h + 1) - 1), k \in T PROVE k + 1 \in T
  <2>1. k \in 0..h /\ k + 1 \in 0..(h + 1) /\ k \in Nat
    OBVIOUS
  <2>2. PICK m \in Nat, n \in Nat \ {0} : m = NElements(k + 1) /\ n = PackSize(k) /\ NElements(k) = m * n
    <3>1. NElements(k + 1) \in Nat /\ PackSize(k) \in Nat \ {0} /\ NElements(k) = NElements(k + 1) * PackSize(k)
      BY <2>1, LevelSizes
    <3> QED BY <3>1
  <2>3. ASSUME NEW e \in QueriesAt(k) PROVE e \div n \in 0..(m - 1)
    <3>1. e \in 0..(m * n - 1)
      BY <1>6, <2>2
    <3> QED BY <3>1, DividedInto
  <2>4. QueriesAt(k + 1) = {e \div n : e \in QueriesAt(k)}
    BY <1>4, <2>1, <2>2
  <2>5. QueriesAt(k + 1) \in SUBSET (0..(m - 1))
    BY <2>3, <2>4
  <2> QED BY <2>1, <2>2, <2>5
<1>7. \A k \in 0..(h + 1) : k \in T
  <2>1. h + 1 \in Nat
    OBVIOUS
  <2> HIDE DEF T
  <2> QED BY <1>5, <1>6, <2>1, SegmentInduction
<1>8. queries # {} => \A k \in Nat : QueriesAt(k) # {}
  BY DEF QueriesAt
<1> QED
  BY <1>4, <1>7, <1>8

MissingSet(k) ==
  {e \in 0..(NElements(k) - 1) : e \div PackSize(k) \in QueriesAt(k + 1)} \ QueriesAt(k)

LEMMA MissingAre ==
  ASSUME NEW w \in Nat, NEW h \in Nat, NEW s \in Nat, NEW i \in Nat, Sizes(w, h, s, i),
         queries \in SUBSET (0..(NElements(0) - 1)), NEW k \in 0..(h + 1)
  PROVE  /\ Missing(k) = Ascending(MissingSet(k), NElements(k))
         /\ MissingSet(k) \in SUBSET (0..(NElements(k) - 1))
         /\ NElements(k) \in Nat \ {0}
         /\ IsList(Missing(k)) /\ Len(Missing(k)) \in Nat
         /\ \A x \in 1..Len(Missing(k)) : Missing(k)[x] \in MissingSet(k)
         /\ \A x, y \in 1..Len(Missing(k)) : x < y => Missing(k)[x] < Missing(k)[y]
         /\ \A e \in MissingSet(k) : \E x \in 1..Len(Missing(k)) : Missing(k)[x] = e
<1>1. QueriesAt(k + 1) = {e \div PackSize(k) : e \in QueriesAt(k)}
  <2>1. k \in Nat
    OBVIOUS
  <2> QED BY <2>1, QueriesRise
<1>2. Missing(k) = Ascending(MissingSet(k), NElements(k))
  BY <1>1 DEF Missing, Required, MissingSet
<1>3. NElements(k) \in Nat \ {0}
  BY LevelSizes
<1>4. MissingSet(k) \in SUBSET (0..(NElements(k) - 1)) /\ MissingSet(k) \in SUBSET Nat
  BY <1>3 DEF MissingSet
<1>5. PICK n \in Nat \ {0}, S \in SUBSET Nat : n = NElements(k) /\ S = MissingSet(k)
  BY <1>3, <1>4
<1>6. PICK l : l = Ascending(S, n) /\ l = Missing(k)
  BY <1>2, <1>5
<1>7. /\ IsList(l)
      /\ \A x \in 1..Len(l) : l[x] \in S /\ l[x] \in 0..(n - 1)
      /\ \A x, y \in 1..Len(l) : x < y => l[x] < l[y]
      /\ \A e \in S : e < n => \E x \in 1..Len(l) : l[x] = e
  <2>1. n \in Nat
    OBVIOUS
  <2>2. /\ IsList(Ascending(S, n))
        /\ \A x \in 1..Len(Ascending(S, n)) : Ascending(S, n)[x] \in S /\ Ascending(S, n)[x] \in 0..(n - 1)
        /\ \A x, y \in 1..Len(Ascending(S, n)) : x < y => Ascending(S, n)[x] < Ascending(S, n)[y]
        /\ \A e \in S : e < n => \E x \in 1..Len(Ascending(S, n)) : Ascending(S, n)[x] = e
    BY <2>1, AscendingElements
  <2> QED BY ONLY <1>6, <2>2
<1>8. \A e \in S : \E x \in 1..Len(l) : l[x] = e
  <2>1. \A e \in S : e < n
    BY <1>4, <1>5
  <2> QED BY <1>7, <2>1
<1> QED
  BY <1>2, <1>3, <1>4, <1>5, <1>6, <1>7, <1>8, ListProperties

(* How much the prover sends before the missing elements of a level. *)
SentBefore(k) == 1 + SumOfFirst([l \in 1..(Height + 1) |-> Len(Missing(l - 1))], k)

LEMMA SentBeforeIs ==
  ASSUME NEW w \in Nat, NEW h \in Nat, NEW s \in Nat, NEW i \in Nat, Sizes(w, h, s, i),
         queries \in SUBSET (0..(NElements(0) - 1))
  PROVE  /\ SentBefore(0) = 1
         /\ \A k \in 0..(h + 1) : SentBefore(k) \in Nat /\ SentBefore(k) >= 1 /\ SentBefore(k) <= SentBefore(h + 1)
         /\ \A k \in 0..h : SentBefore(k + 1) = SentBefore(k) + Len(Missing(k))
         /\ shape.plain => SentBefore(1) = 1
<1> DEFINE lengths == [l \in 1..(h + 1) |-> Len(Missing(l - 1))]
<1>1. ASSUME NEW l \in 1..(h + 1) PROVE lengths[l] \in Nat /\ lengths[l] = Len(Missing(l - 1))
  <2>1. l - 1 \in 0..(h + 1)
    OBVIOUS
  <2>2. Len(Missing(l - 1)) \in Nat
    BY <2>1, MissingAre
  <2> QED BY <2>2
<1>2. \A k : SentBefore(k) = 1 + SumOfFirst(lengths, k)
  BY DEF SentBefore, Sizes
<1> HIDE DEF lengths
<1>3. /\ SumOfFirst(lengths, 0) = 0
      /\ \A k \in 0..(h + 1) : SumOfFirst(lengths, k) \in Nat
      /\ \A k \in 0..((h + 1) - 1) : SumOfFirst(lengths, k + 1) = SumOfFirst(lengths, k) + lengths[k + 1]
  <2>1. PICK m \in Nat : m = h + 1
    OBVIOUS
  <2>2. \A l \in 1..m : lengths[l] \in Nat
    BY <1>1, <2>1
  <2>3. /\ SumOfFirst(lengths, 0) = 0
        /\ \A k \in 0..m : SumOfFirst(lengths, k) \in Nat
        /\ \A k \in 0..(m - 1) : SumOfFirst(lengths, k + 1) = SumOfFirst(lengths, k) + lengths[k + 1]
    BY <2>2, SumOfFirstIs
  <2> QED BY <2>1, <2>3
<1>4. ASSUME NEW k \in 0..h PROVE SentBefore(k + 1) = SentBefore(k) + Len(Missing(k))
  <2>1. k \in 0..((h + 1) - 1) /\ k + 1 \in 1..(h + 1) /\ (k + 1) - 1 = k /\ k \in 0..(h + 1)
    OBVIOUS
  <2>2. lengths[k + 1] = Len(Missing(k)) /\ lengths[k + 1] \in Nat
    BY <1>1, <2>1
  <2>3. PICK a, b \in Nat : a = SumOfFirst(lengths, k) /\ b = lengths[k + 1]
    BY <1>3, <2>1, <2>2
  <2>4. SumOfFirst(lengths, k + 1) = a + b
    BY <1>3, <2>1, <2>3
  <2>5. SentBefore(k) = 1 + a /\ SentBefore(k + 1) = 1 + (a + b)
    BY <1>2, <2>3, <2>4
  <2> QED BY <2>2, <2>3, <2>5
<1>5. \A k \in 0..(h + 1) : SentBefore(k) \in Nat /\ SentBefore(k) >= 1
  BY <1>2, <1>3
<1> DEFINE T == {m \in 0..(h + 1) : SentBefore((h + 1) - m) <= SentBefore(h + 1)}
<1>6. 0 \in T
  <2>1. (h + 1) - 0 = h + 1 /\ h + 1 \in 0..(h + 1)
    OBVIOUS
  <2> QED BY <1>5, <2>1
<1>7. ASSUME NEW m \in 0..((h + 1) - 1), m \in T PROVE m + 1 \in T
  <2>1. PICK k \in 0..h : k = (h + 1) - (m + 1) /\ (h + 1) - m = k + 1 /\ m + 1 \in 0..(h + 1)
                          /\ k \in 0..(h + 1) /\ k + 1 \in 0..(h + 1)
    OBVIOUS
  <2>2. SentBefore(k + 1) = SentBefore(k) + Len(Missing(k)) /\ Len(Missing(k)) \in Nat
    BY <1>4, <2>1, MissingAre
  <2>3. SentBefore(k + 1) <= SentBefore(h + 1)
    BY <1>7, <2>1
  <2>4. SentBefore(k) \in Nat /\ SentBefore(k + 1) \in Nat /\ SentBefore(h + 1) \in Nat
    BY <1>5, <2>1
  <2>5. SentBefore(k) <= SentBefore(h + 1)
    BY <2>2, <2>3, <2>4
  <2> QED BY <2>1, <2>5
<1>8. ASSUME NEW k \in 0..(h + 1) PROVE SentBefore(k) <= SentBefore(h + 1)
  <2>1. \A m \in 0..(h + 1) : m \in T
    <3>1. h + 1 \in Nat
      OBVIOUS
    <3> HIDE DEF T
    <3> QED BY <1>6, <1>7, <3>1, SegmentInduction
  <2>2. PICK m \in 0..(h + 1) : m = (h + 1) - k /\ (h + 1) - m = k
    OBVIOUS
  <2>3. m \in T
    BY <2>1
  <2> QED BY <2>2, <2>3
<1>9. SentBefore(0) = 1
  BY <1>2, <1>3
<1>10. ASSUME shape.plain PROVE SentBefore(1) = 1
  <2>1. PackSize(0) = 1
    BY <1>10, Pow2Is DEF PackSize, Sizes
  <2>2. QueriesAt(1) = {e \div 1 : e \in QueriesAt(0)} /\ QueriesAt(0) \in SUBSET Nat
    BY <2>1, QueriesRise
  <2>3. \A e \in Nat : e \div 1 = e
    OBVIOUS
  <2>4. 0 \in 0..(h + 1)
    OBVIOUS
  <2>5. NElements(0) \in Nat
    BY <2>4, LevelSizes
  <2>6. MissingSet(0) = {}
    <3>1. QueriesAt(1) = QueriesAt(0)
      BY <2>2, <2>3
    <3>2. QueriesAt(0 + 1) = QueriesAt(0)
      BY <3>1
    <3> QED BY <2>1, <2>3, <2>5, <3>2 DEF MissingSet
  <2>7. Len(Missing(0)) = 0
    <3>1. Ascending({}, NElements(0)) = <<>>
      BY <2>5, AscendingNone
    <3>2. Missing(0) = <<>>
      BY <2>4, <2>6, <3>1, MissingAre
    <3> QED BY <3>2
  <2>8. SentBefore(0 + 1) = SentBefore(0) + Len(Missing(0))
    BY <1>4
  <2> QED BY <1>9, <2>7, <2>8
<1> QED
  BY <1>4, <1>5, <1>8, <1>9, <1>10

-----------------------------------------------------------------------------
(* The queue of a tree.  At one level Q are the queries and R those of the *)
(* level above, of m elements.                                             *)

(* Nodes of a level of n come before those of the level above. *)
InOrder(n, a, b) == IF a >= n THEN b < n \/ a < b ELSE b < n /\ a < b

(* The nodes in the queue when the packages below t are done. *)
Waits(Q, R, n, m, t, node) ==
  \/ \E q \in Q : q >= 2 * t /\ node = n + q
  \/ \E p \in R : p < t /\ node = m + p

Queued(list, Q, R, n, m, t) ==
  /\ IsList(list)
  /\ \A x \in 1..Len(list) : list[x] \in Nat /\ Waits(Q, R, n, m, t, list[x])
  /\ \A node \in Nat : Waits(Q, R, n, m, t, node) => \E x \in 1..Len(list) : list[x] = node
  /\ \A x, z \in 1..Len(list) : x < z => InOrder(n, list[x], list[z])

Halved(Q, R) == R = {q \div 2 : q \in Q}
IsFirst(Q, t, e) == e \in Q /\ e >= 2 * t /\ \A q \in Q : q >= 2 * t => q >= e

LEMMA SiblingIs ==
  ASSUME NEW m \in Nat, NEW e \in Nat
  PROVE  Sibling(2 * m + e) = IF e % 2 = 0 THEN 2 * m + e + 1 ELSE 2 * m + e - 1
<1>1. (2 * m + e) % 2 = e % 2
  OBVIOUS
<1> QED
  BY <1>1 DEF Sibling

LEMMA NodesAre ==
  ASSUME NEW m \in Nat \ {0}, NEW e \in 0..(2 * m - 1)
  PROVE  /\ (2 * m + e) \div 2 = m + (e \div 2) /\ e \div 2 \in 0..(m - 1)
         /\ Sibling(2 * m + e) \in Nat /\ Sibling(2 * m + e) >= 2 * m
<1>1. Sibling(2 * m + e) = IF e % 2 = 0 THEN 2 * m + e + 1 ELSE 2 * m + e - 1
  <2>1. m \in Nat /\ e \in Nat
    OBVIOUS
  <2> QED BY <2>1, SiblingIs
<1>2. e % 2 # 0 => e >= 1
  OBVIOUS
<1>3. (2 * m + e) \div 2 = m + (e \div 2) /\ e \div 2 \in 0..(m - 1)
  OBVIOUS
<1>4. CASE e % 2 = 0
  BY <1>1, <1>3, <1>4
<1>5. CASE e % 2 # 0
  BY <1>1, <1>2, <1>3, <1>5
<1> QED
  BY <1>4, <1>5

StartsWith(list, Q, m, e) ==
  /\ Len(list) \in Nat /\ Len(list) >= 1 /\ list[1] = 2 * m + e
  /\ \A x \in 2..Len(list) : list[x] # 2 * m + e
  /\ Sibling(2 * m + e) - 2 * m \in Q =>
       Len(list) >= 2 /\ list[2] = Sibling(2 * m + e) /\ e % 2 = 0

LEMMA QueueHead ==
  ASSUME NEW m \in Nat \ {0}, NEW Q \in SUBSET (0..(2 * m - 1)), NEW R, Halved(Q, R),
         NEW t \in Nat, NEW list, Queued(list, Q, R, 2 * m, m, t),
         NEW e, IsFirst(Q, t, e)
  PROVE  StartsWith(list, Q, m, e)
<1>1. /\ IsList(list)
      /\ \A x \in 1..Len(list) : list[x] \in Nat /\ Waits(Q, R, 2 * m, m, t, list[x])
      /\ \A node \in Nat : Waits(Q, R, 2 * m, m, t, node) => \E x \in 1..Len(list) : list[x] = node
      /\ \A x, z \in 1..Len(list) : x < z => InOrder(2 * m, list[x], list[z])
  BY DEF Queued
<1>2. Len(list) \in Nat
  BY <1>1, ListProperties
<1>3. /\ \A q \in Q : q \in 0..(2 * m - 1) /\ q \div 2 \in 0..(m - 1)
      /\ e \in Q /\ e \in 0..(2 * m - 1) /\ e >= 2 * t /\ \A q \in Q : q >= 2 * t => q >= e
  BY DEF IsFirst
<1>4. \A p \in R : p \in 0..(m - 1) /\ \E q \in Q : p = q \div 2
  BY <1>3 DEF Halved
<1>5. ASSUME NEW node \in Nat, node >= 2 * m, Waits(Q, R, 2 * m, m, t, node)
      PROVE  \E q \in Q : q >= 2 * t /\ node = 2 * m + q
  BY <1>4, <1>5 DEF Waits
<1>6. PICK x \in 1..Len(list) : list[x] = 2 * m + e
  <2>1. 2 * m + e \in Nat /\ Waits(Q, R, 2 * m, m, t, 2 * m + e)
    BY <1>3 DEF Waits
  <2> QED BY <1>1, <2>1
<1>7. x = 1
  <2>1. ASSUME x # 1 PROVE FALSE
    <3>1. 1 \in 1..Len(list) /\ 1 < x
      BY <1>2, <2>1
    <3>2. PICK a \in Nat : a = list[1] /\ Waits(Q, R, 2 * m, m, t, a) /\ InOrder(2 * m, a, 2 * m + e)
      BY <1>1, <1>6, <3>1
    <3>3. a >= 2 * m /\ a < 2 * m + e
      BY <1>3, <3>2 DEF InOrder
    <3>4. PICK q \in Q : q >= 2 * t /\ a = 2 * m + q
      BY <1>5, <3>2, <3>3
    <3> QED BY <1>3, <3>3, <3>4
  <2> QED BY <2>1
<1>8. ASSUME NEW z \in 2..Len(list) PROVE list[z] # 2 * m + e
  <2>1. 1 < z /\ 1 \in 1..Len(list) /\ z \in 1..Len(list)
    BY <1>2
  <2>2. InOrder(2 * m, 2 * m + e, list[z]) /\ list[z] \in Nat
    BY <1>1, <1>6, <1>7, <2>1
  <2> QED BY <1>3, <2>2 DEF InOrder
<1>9. ASSUME Sibling(2 * m + e) - 2 * m \in Q
      PROVE  Len(list) >= 2 /\ list[2] = Sibling(2 * m + e) /\ e % 2 = 0
  <2>1. Sibling(2 * m + e) = IF e % 2 = 0 THEN 2 * m + e + 1 ELSE 2 * m + e - 1
    <3>1. e \in Nat
      BY <1>3
    <3> QED BY <3>1, SiblingIs
  <2>2. e % 2 = 0
    <3>1. ASSUME e % 2 # 0 PROVE FALSE
      <4>1. e - 1 \in Q
        BY <1>3, <1>9, <2>1, <3>1
      <4>2. e - 1 >= 2 * t
        BY <1>3, <3>1
      <4> QED BY <1>3, <4>1, <4>2
    <3> QED BY <3>1
  <2>3. e + 1 \in Q
    BY <1>3, <1>9, <2>1, <2>2
  <2>4. PICK z \in 1..Len(list) : list[z] = 2 * m + (e + 1)
    <3>1. 2 * m + (e + 1) \in Nat /\ e + 1 >= 2 * t
      BY <1>3
    <3>2. Waits(Q, R, 2 * m, m, t, 2 * m + (e + 1))
      BY <2>3, <3>1 DEF Waits
    <3> QED BY <1>1, <3>1, <3>2
  <2>5. z # 1
    BY <1>3, <1>6, <1>7, <2>4
  <2>6. z = 2
    <3>1. ASSUME z > 2 PROVE FALSE
      <4>1. 1 \in 1..Len(list) /\ 2 \in 1..Len(list) /\ 1 < 2 /\ 2 < z
        BY <1>2, <3>1
      <4>2. PICK a \in Nat : a = list[2] /\ InOrder(2 * m, 2 * m + e, a) /\ InOrder(2 * m, a, 2 * m + (e + 1))
        BY <1>1, <1>6, <1>7, <2>4, <4>1
      <4> QED BY <1>3, <4>2 DEF InOrder
    <3> QED BY <1>2, <2>5, <3>1
  <2> QED BY <1>2, <1>3, <2>1, <2>2, <2>4, <2>6
<1> QED
  BY <1>2, <1>6, <1>7, <1>8, <1>9 DEF StartsWith

(* The first c nodes make room for their parent. *)
Moves(list, left, c, parent) ==
  /\ IsList(left) /\ Len(left) = Len(list) - c + 1
  /\ \A x \in 1..(Len(list) - c) : left[x] = list[x + c]
  /\ left[Len(list) - c + 1] = parent

Taken(Q, m, e) == IF Sibling(2 * m + e) - 2 * m \in Q THEN 2 ELSE 1

LEMMA QueueMoves ==
  ASSUME NEW m \in Nat \ {0}, NEW Q \in SUBSET (0..(2 * m - 1)), NEW R, Halved(Q, R),
         NEW t \in Nat, NEW list, Queued(list, Q, R, 2 * m, m, t),
         NEW e, IsFirst(Q, t, e),
         NEW left, Moves(list, left, Taken(Q, m, e), m + (e \div 2))
  PROVE  Queued(left, Q, R, 2 * m, m, (e \div 2) + 1)
<1>1. /\ IsList(list)
      /\ \A x \in 1..Len(list) : list[x] \in Nat /\ Waits(Q, R, 2 * m, m, t, list[x])
      /\ \A node \in Nat : Waits(Q, R, 2 * m, m, t, node) => \E x \in 1..Len(list) : list[x] = node
      /\ \A x, z \in 1..Len(list) : x < z => InOrder(2 * m, list[x], list[z])
  BY DEF Queued
<1>2. PICK n \in Nat, c \in {1, 2} : n = Len(list) /\ n >= c /\ c = Taken(Q, m, e)
  <2>a. StartsWith(list, Q, m, e)
    BY QueueHead
  <2>1. /\ Len(list) \in Nat /\ Len(list) >= 1
        /\ Sibling(2 * m + e) - 2 * m \in Q => Len(list) >= 2
    BY <2>a DEF StartsWith
  <2> QED BY <2>1 DEF Taken
<1>3. /\ \A q \in Q : q \in 0..(2 * m - 1) /\ q \div 2 \in 0..(m - 1)
      /\ e \in Q /\ e \in 0..(2 * m - 1) /\ e >= 2 * t /\ \A q \in Q : q >= 2 * t => q >= e
  BY DEF IsFirst
<1>4. \A p \in R : p \in 0..(m - 1) /\ \E q \in Q : p = q \div 2
  BY <1>3 DEF Halved
<1>5. PICK p \in 0..(m - 1) : p = e \div 2 /\ p \in R /\ t <= p
  <2>1. e \div 2 \in R /\ t <= e \div 2
    BY <1>3 DEF Halved
  <2> QED BY <1>4, <2>1
<1>6. Sibling(2 * m + e) = IF e % 2 = 0 THEN 2 * m + e + 1 ELSE 2 * m + e - 1
  <2>1. e \in Nat
    BY <1>3
  <2> QED BY <2>1, SiblingIs
<1>7. /\ list[1] = 2 * m + e
      /\ \A x \in 2..n : list[x] # 2 * m + e
      /\ c = 2 => list[2] = 2 * m + e + 1 /\ e % 2 = 0 /\ e + 1 \in Q
      /\ c = 1 => ~(e % 2 = 0 /\ e + 1 \in Q)
  <2>1. /\ list[1] = 2 * m + e
        /\ \A x \in 2..n : list[x] # 2 * m + e
        /\ Sibling(2 * m + e) - 2 * m \in Q => list[2] = Sibling(2 * m + e) /\ e % 2 = 0
    <3>1. StartsWith(list, Q, m, e)
      BY QueueHead
    <3> QED BY <1>2, <3>1 DEF StartsWith
  <2>2. c = IF Sibling(2 * m + e) - 2 * m \in Q THEN 2 ELSE 1
    BY <1>2 DEF Taken
  <2>3. ASSUME e % 2 = 0 PROVE Sibling(2 * m + e) - 2 * m = e + 1
    <3>1. Sibling(2 * m + e) = 2 * m + e + 1
      BY <1>6, <2>3
    <3>2. (2 * m + e + 1) - 2 * m = e + 1
      BY <1>3
    <3> QED BY ONLY <3>1, <3>2
  <2>4. ASSUME c = 2 PROVE list[2] = 2 * m + e + 1 /\ e % 2 = 0 /\ e + 1 \in Q
    <3>1. list[2] = Sibling(2 * m + e) /\ e % 2 = 0 /\ Sibling(2 * m + e) - 2 * m \in Q
      BY <2>1, <2>2, <2>4
    <3>2. Sibling(2 * m + e) = 2 * m + e + 1
      BY <1>6, <3>1
    <3>3. Sibling(2 * m + e) - 2 * m = e + 1
      BY <2>3, <3>1
    <3> QED BY <3>1, <3>2, <3>3
  <2>5. ASSUME c = 1, e % 2 = 0, e + 1 \in Q PROVE FALSE
    <3>1. Sibling(2 * m + e) - 2 * m \notin Q
      BY <2>2, <2>5
    <3>2. Sibling(2 * m + e) - 2 * m = e + 1
      BY <2>3, <2>5
    <3> QED BY ONLY <2>5, <3>1, <3>2
  <2> QED BY <2>1, <2>4, <2>5
<1>8. \A x \in 1..(n - c) : left[x] = list[x + c] /\ x + c \in 1..n /\ x + c \in 2..n
  <2>1. \A x \in 1..(n - c) : left[x] = list[x + c]
    BY <1>2 DEF Moves
  <2>2. \A x \in 1..(n - c) : x + c \in 1..n /\ x + c \in 2..n
    BY <1>2
  <2> QED BY <2>1, <2>2
<1>9. IsList(left) /\ left[n - c + 1] = m + p /\ Len(left) = n - c + 1 /\ n - c \in Nat
  <2>1. n - c \in Nat
    BY <1>2
  <2> QED BY <1>2, <1>5, <2>1 DEF Moves
<1>10. ASSUME NEW x \in 1..(n - c), c = 2 PROVE list[x + c] # 2 * m + e + 1
  <2>1. 2 \in 1..n /\ x + c \in 1..n /\ 2 < x + c
    BY <1>2, <1>10
  <2>2. InOrder(2 * m, 2 * m + e + 1, list[x + c]) /\ list[x + c] \in Nat
    BY <1>1, <1>2, <1>7, <1>10, <2>1
  <2> QED BY <1>3, <2>2 DEF InOrder
<1>11. \A q \in Q : q >= 2 * (p + 1) <=> q >= 2 * t /\ q # e /\ (c = 2 => q # e + 1)
  <2>1. TAKE q \in Q
  <2>2. q \in Nat /\ e \in Nat /\ e = 2 * p + (e % 2) /\ e % 2 \in {0, 1}
    BY <1>3, <1>5
  <2>3. ASSUME q >= 2 * (p + 1) PROVE q >= 2 * t /\ q # e /\ (c = 2 => q # e + 1)
    BY <1>5, <1>7, <2>2, <2>3
  <2>4. ASSUME q >= 2 * t, q # e, c = 2 => q # e + 1 PROVE q >= 2 * (p + 1)
    <3>1. q >= e + 1
      <4>1. q >= e /\ q # e
        BY <1>3, <2>4
      <4> QED BY <2>2, <4>1
    <3>2. CASE e % 2 = 1
      BY <2>2, <3>1, <3>2
    <3>3. CASE e % 2 = 0
      <4>1. q # e + 1
        BY <1>2, <1>7, <2>4, <3>3
      <4> QED BY <2>2, <3>1, <3>3, <4>1
    <3> QED BY <2>2, <3>2, <3>3
  <2> QED BY <2>3, <2>4
<1>12. \A r \in R : r < p + 1 <=> r < t \/ r = p
  <2>1. TAKE r \in R
  <2>2. PICK q \in Q : r = q \div 2
    BY <1>4
  <2>3. ASSUME r >= t PROVE r >= p
    <3>1. q >= 2 * t
      BY <1>3, <2>2, <2>3
    <3>2. q >= e
      BY <1>3, <3>1
    <3> QED BY <1>3, <1>5, <2>2, <3>2
  <2> QED BY <1>4, <1>5, <2>3
<1>13. ASSUME NEW x \in 1..Len(left) PROVE left[x] \in Nat /\ Waits(Q, R, 2 * m, m, p + 1, left[x])
  <2>1. CASE x = n - c + 1
    <3>1. p < p + 1 /\ m + p \in Nat
      BY <1>5
    <3>2. Waits(Q, R, 2 * m, m, p + 1, m + p)
      BY <1>5, <3>1 DEF Waits
    <3> QED BY <1>9, <2>1, <3>1, <3>2
  <2>2. CASE x \in 1..(n - c)
    <3>1. PICK a \in Nat : a = list[x + c] /\ left[x] = a /\ Waits(Q, R, 2 * m, m, t, a)
                           /\ a # 2 * m + e /\ (c = 2 => a # 2 * m + e + 1)
      BY <1>1, <1>2, <1>7, <1>8, <1>10, <2>2
    <3>2. CASE \E q \in Q : q >= 2 * t /\ a = 2 * m + q
      <4>1. PICK q \in Q : q >= 2 * t /\ a = 2 * m + q
        BY <3>2
      <4>2. q >= 2 * (p + 1)
        <5>1. q # e /\ (c = 2 => q # e + 1)
          BY <1>3, <3>1, <4>1
        <5> QED BY <1>11, <4>1, <5>1
      <4> QED BY <3>1, <4>1, <4>2 DEF Waits
    <3>3. CASE \E r \in R : r < t /\ a = m + r
      BY <1>12, <3>1, <3>3 DEF Waits
    <3> QED BY <3>1, <3>2, <3>3 DEF Waits
  <2> QED BY <1>9, <2>1, <2>2
<1>14. ASSUME NEW node \in Nat, Waits(Q, R, 2 * m, m, p + 1, node)
       PROVE  \E x \in 1..Len(left) : left[x] = node
  <2>1. CASE node = m + p
    <3>1. n - c + 1 \in 1..Len(left)
      BY <1>9
    <3> QED BY <1>9, <2>1, <3>1
  <2>2. CASE Waits(Q, R, 2 * m, m, t, node) /\ node # 2 * m + e /\ (c = 2 => node # 2 * m + e + 1)
    <3>1. PICK z \in 1..n : list[z] = node
      BY <1>1, <1>2, <2>2
    <3>2. z # 1 /\ (c = 2 => z # 2)
      BY <1>7, <2>2, <3>1
    <3>3. PICK x \in 1..(n - c) : z = x + c
      <4>1. z - c \in 1..(n - c) /\ z = (z - c) + c
        BY <1>2, <3>2
      <4> QED BY <4>1
    <3>4. x \in 1..Len(left)
      BY <1>9
    <3> QED BY <1>8, <3>1, <3>3, <3>4
  <2>3. CASE \E q \in Q : q >= 2 * (p + 1) /\ node = 2 * m + q
    <3>1. PICK q \in Q : q >= 2 * (p + 1) /\ node = 2 * m + q
      BY <2>3
    <3>2. q >= 2 * t /\ q # e /\ (c = 2 => q # e + 1)
      BY <1>11, <3>1
    <3>3. Waits(Q, R, 2 * m, m, t, node)
      BY <3>1, <3>2 DEF Waits
    <3>4. node # 2 * m + e /\ (c = 2 => node # 2 * m + e + 1)
      BY <1>3, <3>1, <3>2
    <3> QED BY <2>2, <3>3, <3>4
  <2>4. CASE \E r \in R : r < p + 1 /\ node = m + r
    <3>1. PICK r \in R : r < p + 1 /\ node = m + r
      BY <2>4
    <3>2. CASE r = p
      BY <2>1, <3>1, <3>2
    <3>3. CASE r < t
      <4>1. Waits(Q, R, 2 * m, m, t, node)
        BY <3>1, <3>3 DEF Waits
      <4>2. node # 2 * m + e /\ (c = 2 => node # 2 * m + e + 1)
        BY <1>3, <1>4, <3>1
      <4> QED BY <2>2, <4>1, <4>2
    <3> QED BY <1>12, <3>1, <3>2, <3>3
  <2> QED BY <1>14, <2>3, <2>4 DEF Waits
<1>15. ASSUME NEW x \in 1..Len(left), NEW z \in 1..Len(left), x < z
       PROVE  InOrder(2 * m, left[x], left[z])
  <2>1. x \in 1..(n - c) /\ (z \in 1..(n - c) \/ z = n - c + 1)
    BY <1>9, <1>15
  <2>2. CASE z \in 1..(n - c)
    <3>1. x + c \in 1..n /\ z + c \in 1..n /\ x + c < z + c
      BY <1>2, <1>15, <2>1, <2>2
    <3> QED BY <1>1, <1>2, <1>8, <2>1, <2>2, <3>1
  <2>3. CASE z = n - c + 1
    <3>1. PICK a \in Nat : a = left[x] /\ Waits(Q, R, 2 * m, m, t, a)
      BY <1>1, <1>2, <1>8, <2>1
    <3>2. CASE a >= 2 * m
      BY <1>5, <1>9, <2>3, <3>1, <3>2 DEF InOrder
    <3>3. CASE ~(a >= 2 * m)
      <4>1. PICK r \in R : r < t /\ a = m + r
        <5>1. \A q \in Q : a # 2 * m + q
          BY <1>3, <3>1, <3>3
        <5> QED BY <3>1, <5>1 DEF Waits
      <4>2. a < m + p
        BY <1>4, <1>5, <4>1
      <4> QED BY <1>5, <1>9, <2>3, <3>1, <3>3, <4>2 DEF InOrder
    <3> QED BY <3>2, <3>3
  <2> QED BY <2>1, <2>2, <2>3
<1> QED
  BY <1>5, <1>9, <1>13, <1>14, <1>15 DEF Queued

(* When no node of the level is left, the queue is all of the level above. *)
LEMMA QueueRises ==
  ASSUME NEW m \in Nat \ {0}, NEW Q \in SUBSET (0..(2 * m - 1)), NEW R, Halved(Q, R),
         NEW t \in Nat, NEW list, Queued(list, Q, R, 2 * m, m, t),
         \A q \in Q : q < 2 * t, NEW U \in SUBSET Nat, NEW u
  PROVE  Queued(list, R, U, m, u, 0)
<1>1. /\ IsList(list)
      /\ \A x \in 1..Len(list) : list[x] \in Nat /\ Waits(Q, R, 2 * m, m, t, list[x])
      /\ \A node \in Nat : Waits(Q, R, 2 * m, m, t, node) => \E x \in 1..Len(list) : list[x] = node
      /\ \A x, z \in 1..Len(list) : x < z => InOrder(2 * m, list[x], list[z])
  BY DEF Queued
<1>2. \A q \in Q : q \in 0..(2 * m - 1) /\ q < 2 * t /\ q \div 2 \in 0..(m - 1)
  OBVIOUS
<1>3. \A p \in R : p \in 0..(m - 1) /\ p < t
  <2>1. ASSUME NEW p \in R PROVE p \in 0..(m - 1) /\ p < t
    <3>1. PICK q \in Q : p = q \div 2
      BY DEF Halved
    <3> QED BY <1>2, <3>1
  <2> QED BY <2>1
<1>4. ASSUME NEW node \in Nat
      PROVE  /\ Waits(Q, R, 2 * m, m, t, node) <=> \E p \in R : node = m + p
             /\ Waits(R, U, m, u, 0, node) <=> \E p \in R : node = m + p
  <2>1. \A q \in Q : ~(q >= 2 * t)
    BY <1>2
  <2>2. Waits(Q, R, 2 * m, m, t, node) <=> \E p \in R : node = m + p
    BY <1>3, <2>1 DEF Waits
  <2>3. /\ \A p \in U : ~(p < 0)
        /\ \A p \in R : p >= 2 * 0
    BY <1>3
  <2>4. Waits(R, U, m, u, 0, node) <=> \E p \in R : node = m + p
    BY <2>3 DEF Waits
  <2> QED BY <2>2, <2>4
<1>5. \A x \in 1..Len(list) : list[x] \in Nat /\ list[x] < 2 * m /\ Waits(R, U, m, u, 0, list[x])
  <2>1. ASSUME NEW x \in 1..Len(list) PROVE list[x] < 2 * m /\ Waits(R, U, m, u, 0, list[x])
    <3>1. PICK a \in Nat : a = list[x]
      BY <1>1
    <3>2. PICK p \in R : a = m + p
      BY <1>1, <1>4, <3>1
    <3> QED BY <1>3, <1>4, <3>1, <3>2
  <2> QED BY <1>1, <2>1
<1>6. \A node \in Nat : Waits(R, U, m, u, 0, node) => \E x \in 1..Len(list) : list[x] = node
  BY <1>1, <1>4
<1>7. ASSUME NEW x \in 1..Len(list), NEW z \in 1..Len(list), x < z
      PROVE  InOrder(m, list[x], list[z])
  <2>1. PICK a \in Nat, b \in Nat : a = list[x] /\ b = list[z] /\ a < 2 * m /\ b < 2 * m
    BY <1>5
  <2>2. InOrder(2 * m, a, b)
    BY <1>1, <1>7, <2>1
  <2>3. a < b
    BY <2>1, <2>2 DEF InOrder
  <2>4. \E p \in R : a = m + p
    BY <1>4, <1>5, <2>1
  <2>5. a >= m
    BY <1>3, <2>4
  <2> QED BY <2>1, <2>3, <2>5 DEF InOrder
<1> QED
  BY <1>1, <1>5, <1>6, <1>7 DEF Queued

(* What is missing, in ascending order, and the place up to which it is  *)
(* below the packages from t on.                                         *)
Lacking(Q, R, m) == {v \in 0..(2 * m - 1) : v \div 2 \in R} \ Q
ListOf(list, S) ==
  /\ IsList(list)
  /\ \A x \in 1..Len(list) : list[x] \in S
  /\ \A x, z \in 1..Len(list) : x < z => list[x] < list[z]
  /\ \A v \in S : \E x \in 1..Len(list) : list[x] = v
SentUpTo(list, y, t) == \A z \in 1..Len(list) : z <= y <=> list[z] < 2 * t

LEMMA MissingMoves ==
  ASSUME NEW m \in Nat \ {0}, NEW Q \in SUBSET (0..(2 * m - 1)), NEW R, Halved(Q, R),
         NEW t \in Nat, NEW e, IsFirst(Q, t, e),
         NEW list, ListOf(list, Lacking(Q, R, m)), NEW y \in 0..Len(list), SentUpTo(list, y, t)
  PROVE  /\ Taken(Q, m, e) = 2 => SentUpTo(list, y, (e \div 2) + 1)
         /\ Taken(Q, m, e) = 1 => /\ y + 1 \in 1..Len(list)
                                  /\ Sibling(2 * m + e) = 2 * m + list[y + 1]
                                  /\ SentUpTo(list, y + 1, (e \div 2) + 1)
<1>1. /\ \A q \in Q : q \in 0..(2 * m - 1) /\ q \div 2 \in 0..(m - 1)
      /\ e \in Q /\ e \in 0..(2 * m - 1) /\ e >= 2 * t /\ \A q \in Q : q >= 2 * t => q >= e
  BY DEF IsFirst
<1>2. \A p \in R : p \in 0..(m - 1) /\ \E q \in Q : p = q \div 2
  BY <1>1 DEF Halved
<1>3. PICK n \in Nat : n = Len(list)
  BY ListProperties DEF ListOf
<1>4. /\ \A x \in 1..n : list[x] \in Lacking(Q, R, m)
      /\ \A x, z \in 1..n : x < z => list[x] < list[z]
      /\ \A v \in Lacking(Q, R, m) : \E x \in 1..n : list[x] = v
      /\ \A z \in 1..n : z <= y <=> list[z] < 2 * t
  BY <1>3 DEF ListOf, SentUpTo
<1>5. \A v \in Lacking(Q, R, m) : v \in 0..(2 * m - 1) /\ v \notin Q /\ v \div 2 \in R
  BY DEF Lacking
<1>6. PICK p \in 0..(m - 1) : p = e \div 2 /\ p \in R /\ t <= p
  BY <1>1 DEF Halved
<1>7. PICK s : s = IF e % 2 = 0 THEN e + 1 ELSE e - 1
  OBVIOUS
<1>8. s \in 0..(2 * m - 1) /\ s \div 2 = p /\ Sibling(2 * m + e) = 2 * m + s
  <2>1. Sibling(2 * m + e) = IF e % 2 = 0 THEN 2 * m + e + 1 ELSE 2 * m + e - 1
    <3>1. e \in Nat
      BY <1>1
    <3> QED BY <3>1, SiblingIs
  <2>2. CASE e % 2 = 0
    <3>1. s = e + 1
      BY <1>7, <2>2
    <3> QED BY <1>1, <1>6, <2>1, <2>2, <3>1
  <2>3. CASE e % 2 # 0
    <3>1. s = e - 1 /\ e % 2 = 1
      BY <1>1, <1>7, <2>3
    <3> QED BY <1>1, <1>6, <2>1, <2>3, <3>1
  <2> QED BY <2>2, <2>3
<1>9. Taken(Q, m, e) = IF s \in Q THEN 2 ELSE 1
  <2>1. (2 * m + s) - 2 * m = s
    BY <1>8
  <2> QED BY <1>8, <2>1 DEF Taken
<1>10. ASSUME NEW v \in Lacking(Q, R, m), v >= 2 * t, v < 2 * (p + 1) PROVE v = s
  <2>1. v \in 0..(2 * m - 1) /\ v \notin Q /\ v \div 2 \in R
    BY <1>5
  <2>2. PICK q \in Q : v \div 2 = q \div 2
    BY <1>2, <2>1
  <2>3. q >= 2 * t
    BY <1>1, <1>10, <2>1, <2>2
  <2>4. q >= e
    BY <1>1, <2>3
  <2>5. v \div 2 = p
    BY <1>1, <1>6, <1>10, <2>1, <2>2, <2>4
  <2>6. v # e
    BY <1>1, <2>1
  <2> QED BY <1>1, <1>6, <1>7, <2>1, <2>5, <2>6
<1>11. ASSUME s \in Q PROVE SentUpTo(list, y, p + 1)
  <2>1. ASSUME NEW z \in 1..n PROVE z <= y <=> list[z] < 2 * (p + 1)
    <3>1. list[z] \in Lacking(Q, R, m) /\ list[z] # s /\ list[z] \in Nat
      BY <1>4, <1>5, <1>11
    <3>2. ASSUME list[z] < 2 * (p + 1) PROVE list[z] < 2 * t
      BY <1>10, <3>1, <3>2
    <3>3. ASSUME list[z] < 2 * t PROVE list[z] < 2 * (p + 1)
      BY <1>6, <3>1, <3>3
    <3> QED BY <1>4, <3>2, <3>3
  <2> QED BY <1>3, <2>1 DEF SentUpTo
<1>12. ASSUME s \notin Q
       PROVE  y + 1 \in 1..n /\ list[y + 1] = s /\ SentUpTo(list, y + 1, p + 1)
  <2>1. s \in Lacking(Q, R, m) /\ s >= 2 * t /\ s < 2 * (p + 1)
    <3>1. s >= 2 * t /\ s < 2 * (p + 1)
      BY <1>6, <1>8
    <3> QED BY <1>6, <1>8, <1>12, <3>1 DEF Lacking
  <2>2. PICK z \in 1..n : list[z] = s
    BY <1>4, <2>1
  <2>3. ~(z <= y)
    BY <1>4, <1>8, <2>1, <2>2
  <2>4. y + 1 \in 1..n /\ ~(y + 1 <= y)
    BY <1>3, <2>3
  <2>5. list[y + 1] \in Lacking(Q, R, m) /\ list[y + 1] \in Nat /\ ~(list[y + 1] < 2 * t)
    BY <1>4, <1>5, <2>4
  <2>6. z = y + 1
    <3>1. ASSUME y + 1 < z PROVE FALSE
      <4>1. list[y + 1] < s
        BY <1>4, <2>2, <2>4, <3>1
      <4>2. list[y + 1] = s
        BY <1>8, <1>10, <2>1, <2>5, <4>1
      <4> QED BY <1>8, <4>1, <4>2
    <3> QED BY <1>3, <2>3, <2>4, <3>1
  <2>7. ASSUME NEW x \in 1..n PROVE x <= y + 1 <=> list[x] < 2 * (p + 1)
    <3>1. list[x] \in Lacking(Q, R, m) /\ list[x] \in Nat
      BY <1>4, <1>5
    <3>2. CASE x <= y
      <4>1. list[x] < 2 * t
        BY <1>4, <3>2
      <4> QED BY <1>3, <1>6, <3>1, <3>2, <4>1
    <3>3. CASE x = y + 1
      BY <1>3, <2>1, <2>2, <2>6, <3>3
    <3>4. CASE x > y + 1
      <4>1. s < list[x]
        BY <1>4, <2>2, <2>6, <3>4
      <4>2. ~(x <= y)
        BY <1>3, <3>4
      <4>3. ~(list[x] < 2 * t)
        BY <1>4, <4>2
      <4>4. ~(list[x] < 2 * (p + 1))
        <5>1. list[x] # s
          BY <1>8, <3>1, <4>1
        <5>2. list[x] >= 2 * t
          BY <3>1, <4>3
        <5> QED BY <1>10, <3>1, <5>1, <5>2
      <4> QED BY <1>3, <3>4, <4>4
    <3> QED BY <1>3, <3>2, <3>3, <3>4
  <2> QED BY <1>3, <2>2, <2>4, <2>6, <2>7 DEF SentUpTo
<1> QED
  BY <1>3, <1>6, <1>8, <1>9, <1>11, <1>12

-----------------------------------------------------------------------------
(* The walk of prover and verifier through a tree. *)

LEMMA TreeSizes ==
  ASSUME NEW w \in Nat, NEW h \in Nat, NEW s \in Nat, NEW i \in Nat, Sizes(w, h, s, i)
  PROVE  /\ \A k \in 1..(h + 1) : NElements(k) \in Nat \ {0}
         /\ \A k \in 1..h : PackSize(k) = 2 /\ NElements(k) = 2 * NElements(k + 1)
         /\ NElements(h + 1) = 1 /\ NElements(i + 1) = NSegments /\ i <= h
         /\ \A k \in (i + 1)..(h + 1) : NElements(k) <= NSegments
<1>1. i <= h
  BY DEF Sizes
<1>2. \A k \in 1..(h + 1) : NElements(k) \in Nat \ {0}
  <2>1. TAKE k \in 1..(h + 1)
  <2>2. k \in 0..(h + 1)
    OBVIOUS
  <2> QED BY <2>2, LevelSizes
<1>3. ASSUME NEW k \in 1..h PROVE PackSize(k) = 2 /\ NElements(k) = 2 * NElements(k + 1)
  <2>1. PackSize(k) = 2 /\ k \in 0..h /\ k + 1 \in 1..(h + 1)
    BY DEF PackSize
  <2>2. PICK a \in Nat : a = NElements(k + 1)
    BY <1>2, <2>1
  <2>3. NElements(k) = a * 2
    BY <2>1, <2>2, LevelSizes
  <2> QED BY <2>1, <2>2, <2>3
<1>4. NElements(h + 1) = 1
  BY LevelSizes
<1>5. NElements(i + 1) = NSegments
  <2>1. i + 1 \in 1..(h + 1) /\ h - ((i + 1) - 1) = s
    BY <1>1 DEF Sizes
  <2> QED BY <2>1 DEF Sizes
<1>6. ASSUME NEW k \in (i + 1)..(h + 1) PROVE NElements(k) <= NSegments
  <2>1. k \in 1..(h + 1) /\ h - (k - 1) \in Nat /\ h - (k - 1) <= s
    BY <1>1 DEF Sizes
  <2>2. PICK a \in Nat : a = h - (k - 1)
    BY <2>1
  <2>3. Pow2[a] <= Pow2[s]
    BY <2>1, <2>2, PowersGrow
  <2>4. NElements(k) = Pow2[a] /\ NSegments = Pow2[s]
    BY <2>1, <2>2 DEF Sizes
  <2> QED BY <2>3, <2>4
<1> QED
  BY <1>1, <1>2, <1>3, <1>4, <1>5, <1>6

WalkAt(list, done, k, t, y) ==
  /\ Queued(list, QueriesAt(k), QueriesAt(k + 1), NElements(k), NElements(k + 1), t)
  /\ done = SentBefore(k) + y
  /\ SentUpTo(Missing(k), y, t)
  /\ \E q \in QueriesAt(k) : q >= 2 * t

Walk(list, done) ==
  \E k \in (InSegment + 1)..(Height + 1) : \E t \in Nat : \E y \in 0..Len(Missing(k)) :
    WalkAt(list, done, k, t, y)

ValidQueries == queries \in SUBSET (0..(NElements(0) - 1)) /\ queries # {}

(* What WalkAt is made of, for a level below the root. *)
LEMMA WalkLevel ==
  ASSUME NEW w \in Nat, NEW h \in Nat, NEW s \in Nat, NEW i \in Nat, Sizes(w, h, s, i),
         ValidQueries, NEW k \in 1..h
  PROVE  LET m == NElements(k + 1)  Q == QueriesAt(k)  R == QueriesAt(k + 1)
         IN  /\ m \in Nat \ {0} /\ NElements(k) = 2 * m
             /\ Q \in SUBSET (0..(2 * m - 1)) /\ Q \in SUBSET Nat /\ Halved(Q, R)
             /\ R \in SUBSET Nat /\ R # {}
             /\ MissingSet(k) = Lacking(Q, R, m)
             /\ ListOf(Missing(k), Lacking(Q, R, m)) /\ Len(Missing(k)) \in Nat
             /\ SentBefore(k) \in Nat /\ SentBefore(k + 1) = SentBefore(k) + Len(Missing(k))
<1>1. queries \in SUBSET (0..(NElements(0) - 1)) /\ queries # {}
  BY DEF ValidQueries
<1>2. k \in Nat /\ k + 1 \in Nat /\ k \in 0..h /\ k \in 0..(h + 1) /\ k + 1 \in 1..(h + 1) /\ k \in 1..(h + 1)
  OBVIOUS
<1>3. PICK m \in Nat \ {0} : m = NElements(k + 1) /\ NElements(k) = 2 * m /\ PackSize(k) = 2
  BY <1>2, TreeSizes
<1>4. /\ QueriesAt(k) \in SUBSET Nat /\ QueriesAt(k + 1) \in SUBSET Nat /\ QueriesAt(k + 1) # {}
      /\ QueriesAt(k) \in SUBSET (0..(NElements(k) - 1))
      /\ QueriesAt(k + 1) = {e \div PackSize(k) : e \in QueriesAt(k)}
  BY <1>1, <1>2, QueriesRise
<1>5. Halved(QueriesAt(k), QueriesAt(k + 1))
  BY <1>3, <1>4 DEF Halved
<1>6. MissingSet(k) = Lacking(QueriesAt(k), QueriesAt(k + 1), m)
  BY <1>3 DEF MissingSet, Lacking
<1>7. ListOf(Missing(k), MissingSet(k)) /\ Len(Missing(k)) \in Nat
  BY <1>1, <1>2, MissingAre DEF ListOf
<1>8. SentBefore(k) \in Nat /\ SentBefore(k + 1) = SentBefore(k) + Len(Missing(k))
  BY <1>1, <1>2, SentBeforeIs
<1> QED
  BY <1>3, <1>4, <1>5, <1>6, <1>7, <1>8

LEMMA WalkRises ==
  ASSUME NEW w \in Nat, NEW h \in Nat, NEW s \in Nat, NEW i \in Nat, Sizes(w, h, s, i),
         ValidQueries, NEW k \in (i + 1)..h, NEW t \in Nat, NEW y \in 0..Len(Missing(k)), NEW list,
         Queued(list, QueriesAt(k), QueriesAt(k + 1), NElements(k), NElements(k + 1), t),
         SentUpTo(Missing(k), y, t)
  PROVE  Walk(list, SentBefore(k) + y)
<1>1. k \in 1..h /\ k \in (i + 1)..(h + 1) /\ k + 1 \in (i + 1)..(h + 1) /\ k + 1 \in Nat
      /\ (k + 1) + 1 \in Nat
  OBVIOUS
<1>2. PICK m, Q, R : /\ m = NElements(k + 1) /\ Q = QueriesAt(k) /\ R = QueriesAt(k + 1)
                     /\ m \in Nat \ {0} /\ NElements(k) = 2 * m
                     /\ Q \in SUBSET (0..(2 * m - 1)) /\ Q \in SUBSET Nat /\ Halved(Q, R)
                     /\ R \in SUBSET Nat /\ R # {}
  BY <1>1, WalkLevel
<1>3. /\ ListOf(Missing(k), Lacking(Q, R, m)) /\ Len(Missing(k)) \in Nat
      /\ SentBefore(k) \in Nat /\ SentBefore(k + 1) = SentBefore(k) + Len(Missing(k))
  BY <1>1, <1>2, WalkLevel
<1>4. InSegment = i /\ Height = h
  BY DEF Sizes
<1>5. CASE \E q \in Q : q >= 2 * t
  <2>1. WalkAt(list, SentBefore(k) + y, k, t, y)
    BY <1>2, <1>5 DEF WalkAt
  <2> QED BY <1>1, <1>4, <2>1 DEF Walk
<1>6. CASE \A q \in Q : ~(q >= 2 * t)
  <2>1. \A q \in Q : q < 2 * t
    BY <1>2, <1>6
  <2>2. QueriesAt((k + 1) + 1) \in SUBSET Nat
    BY <1>1, QueriesRise DEF ValidQueries
  <2>3. Queued(list, Q, R, 2 * m, m, t)
    BY <1>2
  <2>4. Queued(list, R, QueriesAt((k + 1) + 1), m, NElements((k + 1) + 1), 0)
    <3>1. PICK U \in SUBSET Nat : U = QueriesAt((k + 1) + 1)
      BY <2>2
    <3>2. PICK u : u = NElements((k + 1) + 1)
      OBVIOUS
    <3>3. Queued(list, R, U, m, u, 0)
      BY <1>2, <2>1, <2>3, QueueRises
    <3> QED BY <3>1, <3>2, <3>3
  <2>5. y = Len(Missing(k))
    <3>1. ASSUME y # Len(Missing(k)) PROVE FALSE
      <4>1. Len(Missing(k)) \in 1..Len(Missing(k)) /\ ~(Len(Missing(k)) <= y)
        BY <1>3, <3>1
      <4>2. PICK v : v = Missing(k)[Len(Missing(k))] /\ v \in Lacking(Q, R, m) /\ ~(v < 2 * t)
        BY <1>3, <4>1 DEF ListOf, SentUpTo
      <4>3. v \in Nat /\ v \div 2 \in R
        BY <1>2, <4>2 DEF Lacking
      <4>4. PICK q \in Q : v \div 2 = q \div 2
        BY <1>2, <4>3 DEF Halved
      <4>5. q \in Nat /\ q < 2 * t
        BY <1>2, <2>1
      <4>6. q \div 2 < t
        BY ONLY <4>5, t \in Nat
      <4>7. v < 2 * t
        BY ONLY <4>3, <4>4, <4>6, t \in Nat
      <4> QED BY <4>2, <4>7
    <3> QED BY <3>1
  <2>6. SentBefore(k) + y = SentBefore(k + 1) + 0 /\ SentBefore(k + 1) \in Nat
    BY <1>3, <2>5
  <2>7. ListOf(Missing(k + 1), MissingSet(k + 1)) /\ MissingSet(k + 1) \in SUBSET Nat
        /\ Len(Missing(k + 1)) \in Nat
    <3>1. k + 1 \in 0..(h + 1)
      BY <1>1
    <3>2. /\ MissingSet(k + 1) \in SUBSET (0..(NElements(k + 1) - 1)) /\ NElements(k + 1) \in Nat
          /\ IsList(Missing(k + 1)) /\ Len(Missing(k + 1)) \in Nat
          /\ \A x \in 1..Len(Missing(k + 1)) : Missing(k + 1)[x] \in MissingSet(k + 1)
          /\ \A x, z \in 1..Len(Missing(k + 1)) : x < z => Missing(k + 1)[x] < Missing(k + 1)[z]
          /\ \A e \in MissingSet(k + 1) : \E x \in 1..Len(Missing(k + 1)) : Missing(k + 1)[x] = e
      BY <3>1, MissingAre DEF ValidQueries
    <3> QED BY <3>2 DEF ListOf
  <2>8. SentUpTo(Missing(k + 1), 0, 0)
    <3>1. ASSUME NEW z \in 1..Len(Missing(k + 1)) PROVE z <= 0 <=> Missing(k + 1)[z] < 2 * 0
      <4>1. Missing(k + 1)[z] \in Nat
        BY <2>7 DEF ListOf
      <4> QED BY <2>7, <4>1
    <3> QED BY <3>1 DEF SentUpTo
  <2>9. \E p \in R : p >= 2 * 0
    BY <1>2
  <2>10. WalkAt(list, SentBefore(k) + y, k + 1, 0, 0)
    BY <1>2, <2>4, <2>6, <2>8, <2>9 DEF WalkAt
  <2>11. 0 \in 0..Len(Missing(k + 1)) /\ 0 \in Nat
    BY <2>7
  <2> QED BY <1>1, <1>4, <2>10, <2>11 DEF Walk
<1> QED
  BY <1>5, <1>6

(* One step of the walk, for prover and verifier: the node has a parent in *)
(* the tree, and its sibling is either the next in the queue or the next   *)
(* of the missing elements.                                                *)
Steps(list, done, i, h) ==
  \E c \in {1, 2} :
    /\ list[1] \in 2..(2 * NSegments - 1) /\ list[1] \div 2 \in 1..(NSegments - 1)
    /\ Len(list) >= c
    /\ c = 2 => list[2] = Sibling(list[1])
    /\ c = 1 => /\ ~(Len(list) >= 2 /\ list[2] = Sibling(list[1]))
                /\ \E k \in (i + 1)..h : \E y \in 1..Len(Missing(k)) :
                     done + 1 = SentBefore(k) + y /\ Sibling(list[1]) = NElements(k) + Missing(k)[y]
    /\ \A left : Moves(list, left, c, list[1] \div 2) => Walk(left, done + 2 - c)

LEMMA WalkMoves ==
  ASSUME NEW w \in Nat, NEW h \in Nat, NEW s \in Nat, NEW i \in Nat, Sizes(w, h, s, i),
         ValidQueries, NEW k \in (i + 1)..h, NEW t \in Nat, NEW y \in 0..Len(Missing(k)),
         NEW list, NEW done, WalkAt(list, done, k, t, y)
  PROVE  Len(list) \in Nat \ {0} /\ Steps(list, done, i, h)
<1>1. k \in 1..h
  OBVIOUS
<1>a. PICK m \in Nat \ {0} : m = NElements(k + 1) /\ NElements(k) = 2 * m
  BY <1>1, WalkLevel
<1>b. PICK R : R = QueriesAt(k + 1)
  OBVIOUS
<1>2. PICK Q \in SUBSET (0..(2 * m - 1)) :
        /\ Q = QueriesAt(k) /\ R = QueriesAt(k + 1)
        /\ m = NElements(k + 1) /\ NElements(k) = 2 * m /\ Halved(Q, R)
  BY <1>1, <1>a, <1>b, WalkLevel
<1>3. /\ ListOf(Missing(k), Lacking(Q, R, m)) /\ Len(Missing(k)) \in Nat
      /\ SentBefore(k) \in Nat
  BY <1>1, <1>2, WalkLevel
<1>4. /\ Queued(list, Q, R, 2 * m, m, t) /\ done = SentBefore(k) + y
      /\ SentUpTo(Missing(k), y, t) /\ \E q \in Q : q >= 2 * t
  BY <1>2 DEF WalkAt
<1>5. PICK e \in 0..(2 * m - 1) : IsFirst(Q, t, e)
  <2>1. PICK S \in SUBSET Nat : S = {q \in Q : q >= 2 * t} /\ S # {}
    <3>1. {q \in Q : q >= 2 * t} # {}
      BY <1>4
    <3>2. Q \in SUBSET Nat
      OBVIOUS
    <3> QED BY <3>1, <3>2
  <2>2. PICK e \in {q \in Q : q >= 2 * t} : \A q \in {q \in Q : q >= 2 * t} : e <= q
    <3>1. PICK e \in S : \A q \in S : e <= q
      BY <2>1, LeastOf
    <3> QED BY <2>1, <3>1
  <2>3. IsFirst(Q, t, e)
    BY <1>2, <2>2 DEF IsFirst
  <2> QED BY <2>3
<1>6. e \in 0..(2 * m - 1) /\ e \in Nat /\ m \in Nat
  OBVIOUS
<1>7. PICK node \in Nat : node = 2 * m + e
  OBVIOUS
<1>8. /\ Len(list) \in Nat /\ Len(list) >= 1 /\ list[1] = node
      /\ Sibling(node) - 2 * m \in Q => Len(list) >= 2 /\ list[2] = Sibling(node)
  <2>1. /\ Len(list) \in Nat /\ Len(list) >= 1 /\ list[1] = 2 * m + e
        /\ Sibling(2 * m + e) - 2 * m \in Q => Len(list) >= 2 /\ list[2] = Sibling(2 * m + e)
    <3>1. Halved(Q, R) /\ Queued(list, Q, R, 2 * m, m, t) /\ IsFirst(Q, t, e)
      BY <1>2, <1>4, <1>5
    <3>2. StartsWith(list, Q, m, e)
      BY <3>1, QueueHead
    <3> QED BY <3>2 DEF StartsWith
  <2> QED BY ONLY <2>1, <1>7
<1>9. node \div 2 = m + (e \div 2) /\ node \in Nat /\ node >= 2 * m /\ node < 4 * m
  <2>1. (2 * m + e) \div 2 = m + (e \div 2)
    BY NodesAre
  <2>2. 2 * m + e >= 2 * m /\ 2 * m + e < 4 * m
    OBVIOUS
  <2> QED BY ONLY <1>7, <2>1, <2>2, node \in Nat
<1>10. PICK c \in {1, 2} : c = Taken(Q, m, e)
  BY DEF Taken
<1>11. c = IF Sibling(node) - 2 * m \in Q THEN 2 ELSE 1
  BY <1>7, <1>10 DEF Taken
<1>12. node \in 2..(2 * NSegments - 1) /\ node \div 2 \in 1..(NSegments - 1)
  <2>1. PICK n \in Nat : n = NSegments /\ 2 * m <= n
    <3>1. k \in (i + 1)..(h + 1) /\ i + 1 \in 1..(h + 1)
      OBVIOUS
    <3>2. NElements(k) <= NSegments /\ NSegments \in Nat
      BY <3>1, TreeSizes
    <3> QED BY <1>2, <3>2
  <2>2. e \div 2 \in 0..(m - 1)
    BY NodesAre
  <2>3. m + (e \div 2) \in 1..(n - 1)
    BY <2>1, <2>2
  <2>4. node \in 2..(2 * n - 1) /\ node \div 2 \in 1..(n - 1)
    BY <1>9, <2>1, <2>3
  <2> QED BY <2>1, <2>4
<1>13. ASSUME c = 1, Len(list) >= 2 PROVE list[2] # Sibling(node)
  <2>1. ASSUME list[2] = Sibling(node) PROVE FALSE
    <3>1. PICK b \in Nat : b = list[2] /\ Waits(Q, R, 2 * m, m, t, b)
      <4>1. 2 \in 1..Len(list)
        BY <1>8, <1>13
      <4> QED BY <1>4, <4>1 DEF Queued
    <3>2. InOrder(2 * m, node, b)
      <4>1. 1 \in 1..Len(list) /\ 2 \in 1..Len(list) /\ 1 < 2
        BY <1>8, <1>13
      <4> QED BY <1>4, <1>8, <3>1, <4>1 DEF Queued
    <3>4. b >= 2 * m
      <4>1. Sibling(2 * m + e) >= 2 * m
        BY NodesAre
      <4> QED BY ONLY <1>7, <2>1, <3>1, <4>1
    <3>5. PICK q \in Q : b = 2 * m + q
      <4>1. ASSUME NEW p \in R, b = m + p PROVE FALSE
        <5>1. PICK q \in Q : p = q \div 2
          BY <1>2 DEF Halved
        <5>2. q \in 0..(2 * m - 1)
          OBVIOUS
        <5>3. p \in 0..(m - 1)
          BY ONLY <5>1, <5>2, m \in Nat \ {0}
        <5> QED BY ONLY <3>4, <4>1, <5>3, m \in Nat \ {0}
      <4> QED BY <3>1, <4>1 DEF Waits
    <3>6. Sibling(node) - 2 * m = q
      <4>1. q \in Nat /\ 2 * m + q - 2 * m = q
        BY <1>2
      <4> QED BY <2>1, <3>1, <3>5, <4>1
    <3> QED BY <1>11, <1>13, <3>6
  <2> QED BY <2>1
<1>14. /\ c = 2 => SentUpTo(Missing(k), y, (e \div 2) + 1)
       /\ c = 1 => /\ y + 1 \in 1..Len(Missing(k))
                   /\ Sibling(node) = 2 * m + Missing(k)[y + 1]
                   /\ SentUpTo(Missing(k), y + 1, (e \div 2) + 1)
  <2>1. PICK lacking : lacking = Missing(k) /\ ListOf(lacking, Lacking(Q, R, m)) /\ y \in 0..Len(lacking)
                       /\ SentUpTo(lacking, y, t)
    BY <1>3, <1>4
  <2>2. /\ Taken(Q, m, e) = 2 => SentUpTo(lacking, y, (e \div 2) + 1)
        /\ Taken(Q, m, e) = 1 => /\ y + 1 \in 1..Len(lacking)
                                 /\ Sibling(2 * m + e) = 2 * m + lacking[y + 1]
                                 /\ SentUpTo(lacking, y + 1, (e \div 2) + 1)
    <3>1. Halved(Q, R) /\ IsFirst(Q, t, e)
      BY <1>2, <1>5
    <3> QED BY ONLY <2>1, <3>1, m \in Nat \ {0}, Q \in SUBSET (0..(2 * m - 1)), t \in Nat, MissingMoves
  <2> QED BY ONLY <1>7, <1>10, <2>1, <2>2
<1>15. ASSUME NEW left, Moves(list, left, c, node \div 2) PROVE Walk(left, done + 2 - c)
  <2>1. Moves(list, left, Taken(Q, m, e), m + (e \div 2))
    BY <1>9, <1>10, <1>15
  <2>2. PICK t2 \in Nat : t2 = (e \div 2) + 1
    BY <1>6
  <2>3. Queued(left, Q, R, 2 * m, m, t2)
    BY <1>2, <1>4, <1>5, <2>1, <2>2, QueueMoves
  <2>4. PICK z \in 0..Len(Missing(k)) : SentUpTo(Missing(k), z, t2) /\ done + 2 - c = SentBefore(k) + z
    <3>1. CASE c = 2
      <4>1. done + 2 - c = SentBefore(k) + y
        BY <1>3, <1>4, <3>1
      <4> QED BY <1>14, <2>2, <3>1, <4>1
    <3>2. CASE c = 1
      <4>1. y + 1 \in 0..Len(Missing(k))
        <5>1. y + 1 \in 1..Len(Missing(k))
          BY <1>14, <3>2
        <5> QED BY <1>3, <5>1
      <4>2. done + 2 - c = SentBefore(k) + (y + 1)
        <5>1. PICK a \in Nat : a = SentBefore(k) /\ done = a + y
          BY <1>3, <1>4
        <5>2. y \in Int
          BY <1>3
        <5>3. done + 2 - c = a + (y + 1)
          BY ONLY <3>2, <5>1, <5>2
        <5> QED BY <5>1, <5>3
      <4> QED BY <1>14, <2>2, <3>2, <4>1, <4>2
    <3> QED BY <3>1, <3>2
  <2>5. Walk(left, SentBefore(k) + z)
    BY <1>2, <2>3, <2>4, WalkRises
  <2> QED BY <2>4, <2>5
<1>16. c = 1 => \E l \in (i + 1)..h : \E z \in 1..Len(Missing(l)) :
                  done + 1 = SentBefore(l) + z /\ Sibling(node) = NElements(l) + Missing(l)[z]
  <2>1. ASSUME c = 1 PROVE done + 1 = SentBefore(k) + (y + 1)
    BY <1>3, <1>4
  <2> QED BY <1>2, <1>14, <2>1
<1>17. c = 2 => Len(list) >= 2 /\ list[2] = Sibling(node)
  BY <1>8, <1>11
<1>18. /\ node \in 2..(2 * NSegments - 1) /\ node \div 2 \in 1..(NSegments - 1)
       /\ Len(list) >= c
       /\ c = 2 => list[2] = Sibling(node)
       /\ c = 1 => ~(Len(list) >= 2 /\ list[2] = Sibling(node))
       /\ \A left : Moves(list, left, c, node \div 2) => Walk(left, done + 2 - c)
  <2>1. Len(list) >= c
    BY <1>8, <1>17
  <2> QED BY <1>12, <1>13, <1>15, <1>17, <2>1
<1>19. list[1] = node
  BY <1>8
<1>20. Steps(list, done, i, h)
  BY <1>16, <1>18, <1>19, Zenon DEF Steps
<1> QED
  BY <1>8, <1>20

(* The walk ends at the root, when everything missing has been sent. *)
LEMMA WalkGoesOn ==
  ASSUME NEW w \in Nat, NEW h \in Nat, NEW s \in Nat, NEW i \in Nat, Sizes(w, h, s, i),
         ValidQueries, NEW list, NEW done, Walk(list, done)
  PROVE  /\ IsList(list) /\ Len(list) \in Nat \ {0} /\ done \in Nat
         /\ list[1] = 1 => Len(list) = 1 /\ done = SentBefore(h + 1)
         /\ list[1] # 1 => Steps(list, done, i, h)
<1>1. PICK k \in (i + 1)..(h + 1) : \E t \in Nat : \E y \in 0..Len(Missing(k)) : WalkAt(list, done, k, t, y)
  <2>1. InSegment = i /\ Height = h
    BY DEF Sizes
  <2> QED BY <2>1 DEF Walk
<1>a. PICK t \in Nat, y \in 0..Len(Missing(k)) : WalkAt(list, done, k, t, y)
  BY <1>1
<1>2. IsList(list) /\ done = SentBefore(k) + y
  BY <1>a DEF WalkAt, Queued
<1>3. k \in 0..(h + 1)
  OBVIOUS
<1>4. y \in Nat /\ SentBefore(k) \in Nat /\ done \in Nat
  <2>1. Len(Missing(k)) \in Nat
    BY <1>3, MissingAre DEF ValidQueries
  <2>2. SentBefore(k) \in Nat
    BY <1>3, SentBeforeIs DEF ValidQueries
  <2>3. y \in Nat
    BY <2>1
  <2> QED BY <1>2, <2>2, <2>3
<1>5. CASE k \in (i + 1)..h
  <2>1. Len(list) \in Nat \ {0} /\ Steps(list, done, i, h)
    BY <1>a, <1>5, WalkMoves
  <2>2. list[1] # 1
    BY <2>1 DEF Steps
  <2> QED BY <1>2, <1>4, <2>1, <2>2
<1>6. CASE k = h + 1
  <2>1. PICK Q, R : Q = QueriesAt(k) /\ R = QueriesAt(k + 1)
    OBVIOUS
  <2>2. Q \in SUBSET {0} /\ R \in SUBSET Nat /\ NElements(k) = 1
    <3>1. k \in Nat /\ k + 1 \in Nat /\ k \in 0..(h + 1)
      BY <1>6
    <3>2. NElements(k) = 1
      BY <1>6, LevelSizes
    <3>3. QueriesAt(k) \in SUBSET (0..(NElements(k) - 1)) /\ QueriesAt(k + 1) \in SUBSET Nat
      BY <3>1, QueriesRise DEF ValidQueries
    <3>4. 0..(1 - 1) = {0}
      OBVIOUS
    <3> QED BY <2>1, <3>2, <3>3, <3>4
  <2>3. PICK u : u = NElements(k + 1)
    OBVIOUS
  <2>4. /\ \A x \in 1..Len(list) : list[x] \in Nat /\ Waits(Q, R, 1, u, t, list[x])
        /\ \A node \in Nat : Waits(Q, R, 1, u, t, node) => \E x \in 1..Len(list) : list[x] = node
        /\ \A x, z \in 1..Len(list) : x < z => InOrder(1, list[x], list[z])
        /\ \E q \in Q : q >= 2 * t
    BY <1>a, <2>1, <2>2, <2>3 DEF WalkAt, Queued
  <2>5. t = 0 /\ Q = {0}
    <3>1. PICK q \in Q : q >= 2 * t
      BY <2>4
    <3>2. q = 0
      BY <2>2
    <3>3. t = 0
      BY <3>1, <3>2
    <3>4. Q = {0}
      BY <2>2, <3>1, <3>2, Zenon
    <3> QED BY <3>3, <3>4
  <2>6. \A node \in Nat : Waits(Q, R, 1, u, t, node) <=> node = 1
    <3>1. \A p \in R : ~(p < 0)
      BY <2>2
    <3> QED BY <2>5, <3>1 DEF Waits
  <2>7. PICK n \in Nat : n = Len(list)
    BY <1>2, ListProperties
  <2>8. n = 1 /\ list[1] = 1
    <3>1. PICK x \in 1..n : list[x] = 1
      BY <2>4, <2>6, <2>7
    <3>2. ~(n >= 2)
      <4>1. ASSUME n >= 2 PROVE FALSE
        <5>1. 1 \in 1..n /\ 2 \in 1..n /\ 1 < 2
          BY <4>1
        <5>2. list[1] = 1 /\ list[2] = 1
          BY <2>4, <2>6, <2>7, <5>1
        <5>3. InOrder(1, 1, 1)
          BY <2>4, <2>7, <5>1, <5>2
        <5> QED BY <5>3 DEF InOrder
      <4> QED BY <4>1
    <3>3. n = 1 /\ x = 1
      BY <3>1, <3>2
    <3> QED BY <3>1, <3>3
  <2>9. Missing(k) = <<>>
    <3>1. MissingSet(k) = {}
      <4>1. MissingSet(k) \in SUBSET (0..(1 - 1)) /\ 0..(1 - 1) = {0} /\ 0 \notin MissingSet(k)
        BY <1>3, <2>1, <2>2, <2>5 DEF MissingSet
      <4> QED BY <4>1
    <3>2. Missing(k) = Ascending(MissingSet(k), NElements(k))
      BY <1>3, MissingAre DEF ValidQueries
    <3>3. Ascending({}, 1) = <<>>
      BY AscendingNone
    <3> QED BY <2>2, <3>1, <3>2, <3>3
  <2>10. y = 0
    BY <2>9
  <2> QED BY <1>2, <1>4, <1>6, <2>7, <2>8, <2>10
<1>7. k \in (i + 1)..h \/ k = h + 1
  OBVIOUS
<1> QED
  BY <1>5, <1>6, <1>7

LEMMA WalkStarts ==
  ASSUME NEW w \in Nat, NEW h \in Nat, NEW s \in Nat, NEW i \in Nat, Sizes(w, h, s, i),
         ValidQueries, NEW k \in (i + 1)..(h + 1), NEW list,
         list = [x \in DOMAIN Ascending(QueriesAt(k), NElements(k)) |->
                   NElements(k) + Ascending(QueriesAt(k), NElements(k))[x]]
  PROVE  Walk(list, SentBefore(k))
<1>1. k \in Nat /\ k + 1 \in Nat /\ k \in 0..(h + 1)
  OBVIOUS
<1>2. PICK n \in Nat, Q \in SUBSET Nat, R \in SUBSET Nat :
        /\ n = NElements(k) /\ Q = QueriesAt(k) /\ R = QueriesAt(k + 1)
        /\ Q \in SUBSET (0..(n - 1)) /\ Q # {}
  <2>1. NElements(k) \in Nat
    BY <1>1, LevelSizes
  <2>2. /\ QueriesAt(k) \in SUBSET (0..(NElements(k) - 1)) /\ QueriesAt(k) # {}
        /\ QueriesAt(k) \in SUBSET Nat /\ QueriesAt(k + 1) \in SUBSET Nat
    BY <1>1, QueriesRise DEF ValidQueries
  <2> QED BY <2>1, <2>2
<1>3. PICK l : l = Ascending(Q, n)
  OBVIOUS
<1>4. /\ IsList(l)
      /\ \A x \in 1..Len(l) : l[x] \in Q
      /\ \A x, z \in 1..Len(l) : x < z => l[x] < l[z]
      /\ \A e \in Q : \E x \in 1..Len(l) : l[x] = e
  <2>1. /\ IsList(Ascending(Q, n))
        /\ \A x \in 1..Len(Ascending(Q, n)) : Ascending(Q, n)[x] \in Q /\ Ascending(Q, n)[x] \in 0..(n - 1)
        /\ \A x, y \in 1..Len(Ascending(Q, n)) : x < y => Ascending(Q, n)[x] < Ascending(Q, n)[y]
        /\ \A e \in Q : e < n => \E x \in 1..Len(Ascending(Q, n)) : Ascending(Q, n)[x] = e
    BY AscendingElements
  <2>2. \A e \in Q : e < n
    BY <1>2
  <2> QED BY ONLY <1>3, <2>1, <2>2
<1>5. PICK c \in Nat : c = Len(l) /\ DOMAIN l = 1..c
  BY <1>4, ListProperties
<1>6. list = [x \in 1..c |-> n + l[x]]
  BY <1>2, <1>3, <1>5
<1>7. IsList(list) /\ Len(list) = c /\ \A x \in 1..c : list[x] = n + l[x] /\ l[x] \in Nat /\ l[x] \in Q
  <2>1. \A x \in 1..c : list[x] = n + l[x]
    BY <1>6
  <2>2. list = [x \in 1..c |-> list[x]]
    BY <1>6
  <2> QED BY <1>4, <1>5, <2>1, <2>2, IndexedIsList
<1>8. PICK u : u = NElements(k + 1)
  OBVIOUS
<1>9. \A node \in Nat : Waits(Q, R, n, u, 0, node) <=> \E q \in Q : node = n + q
  <2>1. (\A p \in R : ~(p < 0)) /\ \A q \in Q : q >= 2 * 0
    BY <1>2
  <2> QED BY <2>1 DEF Waits
<1>10. Queued(list, Q, R, n, u, 0)
  <2>1. ASSUME NEW x \in 1..c PROVE list[x] \in Nat /\ Waits(Q, R, n, u, 0, list[x])
    <3>1. PICK q \in Q : list[x] = n + q
      BY <1>7
    <3> QED BY <1>9, <3>1
  <2>2. ASSUME NEW node \in Nat, Waits(Q, R, n, u, 0, node) PROVE \E x \in 1..c : list[x] = node
    <3>1. PICK q \in Q : node = n + q
      BY <1>9, <2>2
    <3>2. PICK x \in 1..c : l[x] = q
      BY <1>4, <1>5
    <3> QED BY <1>7, <3>1, <3>2
  <2>3. ASSUME NEW x \in 1..c, NEW z \in 1..c, x < z PROVE InOrder(n, list[x], list[z])
    <3>1. l[x] < l[z] /\ l[x] \in Nat /\ l[z] \in Nat
      BY <1>4, <1>5, <1>7, <2>3
    <3> QED BY <1>7, <3>1 DEF InOrder
  <2> QED BY <1>7, <2>1, <2>2, <2>3 DEF Queued
<1>11. SentUpTo(Missing(k), 0, 0) /\ Len(Missing(k)) \in Nat
  <2>1. /\ MissingSet(k) \in SUBSET (0..(NElements(k) - 1)) /\ NElements(k) \in Nat
        /\ Len(Missing(k)) \in Nat
        /\ \A x \in 1..Len(Missing(k)) : Missing(k)[x] \in MissingSet(k)
    BY <1>1, MissingAre DEF ValidQueries
  <2>2. ASSUME NEW z \in 1..Len(Missing(k)) PROVE z <= 0 <=> Missing(k)[z] < 2 * 0
    <3>1. Missing(k)[z] \in Nat
      BY <2>1
    <3> QED BY <2>1, <3>1
  <2> QED BY <2>1, <2>2 DEF SentUpTo
<1>12. SentBefore(k) = SentBefore(k) + 0
  <2>1. SentBefore(k) \in Nat
    BY <1>1, SentBeforeIs DEF ValidQueries
  <2> QED BY <2>1
<1>13. WalkAt(list, SentBefore(k), k, 0, 0)
  <2>1. \E q \in Q : q >= 2 * 0
    BY <1>2
  <2> QED BY <1>2, <1>8, <1>10, <1>11, <1>12, <2>1 DEF WalkAt
<1>14. InSegment = i /\ Height = h
  BY DEF Sizes
<1> QED
  BY <1>11, <1>13, <1>14 DEF Walk

-----------------------------------------------------------------------------
(* The second invariant, of the decommitment: what has been sent are the   *)
(* labels and values of the missing elements, level by level; a tree is    *)
(* walked in this order; and the verifier has the committed values as long *)
(* as what it has read is intact, and only then.                           *)

Value(k, j) == IF shape.plain THEN nodes[NElements(k) + j] ELSE Element(k, j)

IsSent(list) ==
  /\ Len(list) <= SentBefore(Height + 1)
  /\ \A l \in 0..Height : \A y \in 1..Len(Missing(l)) :
       SentBefore(l) + y <= Len(list) =>
         list[SentBefore(l) + y] = <<Label(l, Missing(l)[y]), Value(l, Missing(l)[y])>>

RightSent == IsSent(sent)

GivenRight ==
  /\ Len(sent) = SentBefore(level)
  /\ \A x \in 1..Len(given) : given[x] = Element(level, Asks[level][x])

RightRows == \A q \in queries : claimed[q] = Row(q)

(* What the verifier has read so far is what was committed. *)
Intact(n) == RightRows /\ \A x \in 2..n : proof[x] = sent[x][2]

Verifying == {"reads", "walks", "accepted", "rejected"}

ProofInv ==
  /\ Len(sent) = SentBefore(Height + 1)
  /\ IsList(proof) /\ Len(proof) = Len(sent)
  /\ proof[1] = sent[1][2] \/ Intact(Len(sent))
  /\ IsList(notes) /\ Len(notes) \in 1..Len(sent)
  /\ \A x \in 1..Len(notes) : notes[x] = sent[x][1]

ReadsInv ==
  /\ level \in 0..VTreeLevel /\ Len(notes) = SentBefore(level)
  /\ DOMAIN known = QueriesAt(level)
  /\ Intact(Len(notes)) <=> \A e \in QueriesAt(level) : known[e] = Element(level, e)

NodesOf(pairs) == [x \in DOMAIN pairs |-> pairs[x][1]]

WalksInv ==
  /\ IsList(queue)
  /\ Walk(NodesOf(queue), Len(notes))
  /\ Intact(Len(notes)) <=> \A x \in 1..Len(queue) : queue[x][2] = nodes[queue[x][1]]

DecommitInv ==
  /\ at \notin Verifying => notes = <<>>
  /\ at \in {"committed", "requested"} => Len(sent) = 1
  /\ at \in Decommitting \ {"committed"} => ValidQueries
  /\ at \in Decommitting \ {"committed", "requested"} => RightSent
  /\ at = "packages" => GivenRight
  /\ at = "tree" => Walk(queue, Len(sent))
  /\ at \in Verifying => ProofInv
  /\ at = "reads" => ReadsInv
  /\ at = "walks" => WalksInv
  /\ at = "accepted" => Intact(Len(sent)) /\ proof[1] = sent[1][2]
  /\ at = "rejected" => ~(Intact(Len(sent)) /\ proof[1] = sent[1][2])

LEMMA DecommitStays ==
  ASSUME shape' = shape, queries' = queries
  PROVE  /\ ValidQueries' <=> ValidQueries
         /\ \A k : SentBefore(k)' = SentBefore(k)
         /\ \A k, j : Label(k, j)' = Label(k, j)
         /\ \A list, done : Walk(list, done)' <=> Walk(list, done)
         /\ nodes' = nodes => \A k, j : Value(k, j)' = Value(k, j)
<1>1. /\ Height' = Height /\ InSegment' = InSegment
      /\ \A k : PackSize(k)' = PackSize(k) /\ NElements(k)' = NElements(k)
      /\ \A k : QueriesAt(k)' = QueriesAt(k) /\ Missing(k)' = Missing(k)
      /\ \A k, j : Element(k, j)' = Element(k, j)
  BY SizesStay, RequestsStay, TableStays
<1>2. ValidQueries' <=> ValidQueries
  BY <1>1 DEF ValidQueries
<1>3. \A k : SentBefore(k)' = SentBefore(k)
  BY <1>1 DEF SentBefore
<1>4. \A k, j : Label(k, j)' = Label(k, j)
  BY <1>1 DEF Label
<1>5. \A list, done, k, t, y : WalkAt(list, done, k, t, y)' <=> WalkAt(list, done, k, t, y)
  BY <1>1, <1>3 DEF WalkAt
<1>6. \A list, done : Walk(list, done)' <=> Walk(list, done)
  BY <1>1, <1>5 DEF Walk
<1>7. nodes' = nodes => \A k, j : Value(k, j)' = Value(k, j)
  BY <1>1 DEF Value
<1> QED
  BY <1>2, <1>3, <1>4, <1>6, <1>7

LEMMA SentStays ==
  ASSUME shape' = shape, queries' = queries, nodes' = nodes, sent' = sent
  PROVE  RightSent' <=> RightSent
<1>1. /\ Height' = Height
      /\ \A k : Missing(k)' = Missing(k) /\ SentBefore(k)' = SentBefore(k)
      /\ \A k, j : Label(k, j)' = Label(k, j) /\ Value(k, j)' = Value(k, j)
  BY SizesStay, RequestsStay, DecommitStays
<1> QED
  BY <1>1 DEF RightSent, IsSent

LEMMA IntactStays ==
  ASSUME queries' = queries, claimed' = claimed, proof' = proof, sent' = sent
  PROVE  \A n : Intact(n)' <=> Intact(n)
BY DEF Intact, RightRows, Row

LEMMA DecommitInitHolds ==
  CommitmentInit => DecommitInv
BY DEF CommitmentInit, DecommitInv, Decommitting, Verifying

LEMMA BuildingKeepsDecommit ==
  ASSUME DecommitInv, (\E w \in Workers : StartsTask(w) \/ AddsSegment(w)) \/ NextSegment \/ Commit
  PROVE  DecommitInv'
<1>1. at = "adding" /\ notes' = notes
  BY DEF StartsTask, AddsSegment, NextSegment, Commit
<1>2. notes' = <<>>
  BY <1>1 DEF DecommitInv, Verifying
<1>3. CASE at' = "adding"
  BY <1>2, <1>3 DEF DecommitInv, Decommitting, Verifying
<1>4. CASE Commit
  <2>1. at' = "committed" /\ \E root : sent' = << << <<"root">>, root>> >>
    BY <1>4 DEF Commit
  <2>2. Len(sent') = 1
    BY <2>1
  <2> QED BY <1>2, <2>1, <2>2 DEF DecommitInv, Decommitting, Verifying
<1>5. at' = "adding" \/ Commit
  <2>1. ASSUME NEW v \in Workers, StartsTask(v) \/ AddsSegment(v) PROVE at' = "adding"
    BY <2>1 DEF StartsTask, AddsSegment
  <2>2. ASSUME NextSegment PROVE at' = "adding"
    BY <2>2 DEF NextSegment
  <2> QED BY <2>1, <2>2
<1> QED
  BY <1>3, <1>4, <1>5

LEMMA StartDecommitmentKeepsDecommit ==
  ASSUME DecommitInv, CommitmentInv, StartDecommitmentPhase
  PROVE  DecommitInv'
<1>1. /\ at = "committed" /\ at' = "requested" /\ shape' = shape /\ sent' = sent /\ notes' = notes
      /\ \E Q \in SUBSET (0..(NElements(0) - 1)) :
           Cardinality(Q) \in 1..shape.maxQueries /\ queries' = Q
  BY DEF StartDecommitmentPhase
<1>2. notes' = <<>> /\ Len(sent') = 1
  BY <1>1 DEF DecommitInv, Verifying
<1>3. ValidQueries'
  <2>1. PICK Q \in SUBSET (0..(NElements(0) - 1)) : Cardinality(Q) \in 1..shape.maxQueries /\ queries' = Q
    BY <1>1
  <2>2. Q # {}
    <3>1. ASSUME Q = {} PROVE FALSE
      <4>1. Cardinality(Q) = 0
        BY <3>1, FS_EmptySet
      <4> QED BY <2>1, <4>1
    <3> QED BY <3>1
  <2>3. NElements(0)' = NElements(0)
    BY <1>1, SizesStay
  <2> QED BY <2>1, <2>2, <2>3 DEF ValidQueries
<1> QED
  BY <1>1, <1>2, <1>3 DEF DecommitInv, Decommitting, Verifying

-----------------------------------------------------------------------------
(* What the prover's levels are given. *)

LEMMA PackagesAreInRange ==
  ASSUME NEW packages, IsList(packages), NEW size \in Nat \ {0}, NEW m \in Nat,
         \A x \in 1..Len(packages) : packages[x] \in 0..(m - 1)
  PROVE  \A x \in 1..Len(ElementsInPackages(packages, size)) :
           ElementsInPackages(packages, size)[x] \in 0..(m * size - 1)
<1>1. PICK all : all = ElementsInPackages(packages, size)
  OBVIOUS
<1>2. PICK n \in Nat : n = Len(packages)
  BY ListProperties
<1>3. /\ Len(all) = n * size
      /\ \A x \in 1..n : \A y \in 1..size : all[(x - 1) * size + y] = packages[x] * size + y - 1
  BY <1>1, <1>2, ElementsInPackagesAre
<1>4. ASSUME NEW x \in 1..(n * size) PROVE all[x] \in 0..(m * size - 1)
  <2>1. n * size \in Nat
    OBVIOUS
  <2>2. x - 1 \in 0..(n * size - 1)
    BY <2>1
  <2>3. PICK a \in 0..(n - 1), b \in 0..(size - 1) : x - 1 = a * size + b
    <3>1. PICK j \in 0..(n * size - 1) : j = x - 1
      BY <2>2
    <3>2. j \div size \in 0..(n - 1) /\ j % size \in 0..(size - 1) /\ j = (j \div size) * size + (j % size)
      BY DividedInto
    <3> QED BY <3>1, <3>2
  <2>4. a + 1 \in 1..n /\ b + 1 \in 1..size /\ (a + 1) - 1 = a /\ (b + 1) - 1 = b
    OBVIOUS
  <2>5. PICK c \in Nat : c = a * size
    OBVIOUS
  <2>6. x = c + (b + 1)
    BY <2>1, <2>3, <2>5
  <2>7. all[x] = packages[a + 1] * size + (b + 1) - 1
    BY <1>3, <2>4, <2>5, <2>6
  <2>8. PICK p \in 0..(m - 1) : p = packages[a + 1]
    BY <1>2, <2>4
  <2>9. p * size + b \in 0..(m * size - 1)
    BY <2>8, InPart
  <2>10. all[x] = p * size + b
    <3>1. PICK d \in Nat : d = p * size
      OBVIOUS
    <3>2. d + (b + 1) - 1 = d + b
      BY <2>3
    <3> QED BY <2>7, <2>8, <3>1, <3>2
  <2> QED BY <2>9, <2>10
<1> QED
  BY <1>1, <1>3, <1>4

LEMMA AsksInRange ==
  ASSUME NEW w \in Nat, NEW h \in Nat, NEW s \in Nat, NEW i \in Nat, Sizes(w, h, s, i), ValidQueries
  PROVE  \A k \in 0..TreeLevel : \A x \in 1..Len(Asks[k]) : Asks[k][x] \in 0..(NElements(k) - 1)
<1>1. PICK n \in Nat : n = TreeLevel /\ n <= h + 1
  BY LevelSizes
<1> DEFINE InRange(k) == \A x \in 1..Len(Asks[k]) : Asks[k][x] \in 0..(NElements(k) - 1)
           T == {m \in 0..n : InRange(n - m)}
<1>2. 0 \in T
  <2>1. Asks[n] = <<>> /\ n - 0 = n
    BY <1>1, AsksAre
  <2> QED BY <2>1
<1>3. ASSUME NEW m \in 0..(n - 1), m \in T PROVE m + 1 \in T
  <2>1. PICK k \in 0..(n - 1) : k = n - (m + 1) /\ k + 1 = n - m /\ m + 1 \in 0..n
    OBVIOUS
  <2>2. k \in 0..h /\ k \in 0..(h + 1) /\ k + 1 \in 0..(h + 1) /\ k \in Nat /\ k + 1 \in 0..n
    BY <1>1
  <2>3. InRange(k + 1)
    BY <1>3, <2>1
  <2>4. PICK a \in Nat, size \in Nat \ {0} : a = NElements(k + 1) /\ size = PackSize(k)
    BY <2>2, LevelSizes
  <2>5. NElements(k) = a * size
    BY <2>2, <2>4, LevelSizes
  <2>6. PICK packages : packages = IF Cached(k + 1) THEN <<>> ELSE Asks[k + 1]
    OBVIOUS
  <2>7. IsList(packages) /\ \A x \in 1..Len(packages) : packages[x] \in 0..(a - 1)
    <3>1. CASE Cached(k + 1)
      BY <2>6, <3>1, EmptyList
    <3>2. CASE ~Cached(k + 1)
      <4>1. IsList(Asks[k + 1])
        BY <1>1, <2>2, AsksAre
      <4> QED BY <2>3, <2>4, <2>6, <3>2, <4>1
    <3> QED BY <3>1, <3>2
  <2>8. PICK rest : /\ rest = ElementsInPackages(packages, size) /\ IsList(rest)
                    /\ \A x \in 1..Len(rest) : rest[x] \in 0..(a * size - 1)
    BY <2>7, PackagesAreInRange, ElementsInPackagesAre
  <2>9. Asks[k] = Missing(k) \o rest
    BY <1>1, <2>1, <2>4, <2>6, <2>8, AsksAre
  <2>10. /\ IsList(Missing(k))
         /\ \A x \in 1..Len(Missing(k)) : Missing(k)[x] \in 0..(a * size - 1)
    <3>1. /\ IsList(Missing(k)) /\ MissingSet(k) \in SUBSET (0..(NElements(k) - 1))
          /\ \A x \in 1..Len(Missing(k)) : Missing(k)[x] \in MissingSet(k)
      BY <2>2, MissingAre DEF ValidQueries
    <3> QED BY <2>5, <3>1
  <2>11. ASSUME NEW x \in 1..Len(Asks[k]) PROVE Asks[k][x] \in 0..(a * size - 1)
    <3>1. PICK b \in Nat, c \in Nat : b = Len(Missing(k)) /\ c = Len(rest)
      BY <2>8, <2>10, ListProperties
    <3>2. /\ Len(Asks[k]) = b + c
          /\ \A z \in 1..b : Asks[k][z] = Missing(k)[z]
          /\ \A z \in 1..c : Asks[k][b + z] = rest[z]
      BY <2>8, <2>9, <2>10, <3>1, Joined
    <3>3. CASE x \in 1..b
      BY <2>10, <3>1, <3>2, <3>3
    <3>4. CASE ~(x \in 1..b)
      <4>1. PICK z \in 1..c : x = b + z
        <5>1. x - b \in 1..c /\ x = b + (x - b)
          BY <3>1, <3>2, <3>4
        <5> QED BY <5>1
      <4> QED BY <2>8, <3>1, <3>2, <4>1
    <3> QED BY <3>3, <3>4
  <2>12. InRange(k)
    BY <2>5, <2>11
  <2> QED BY <2>1, <2>12
<1>4. ASSUME NEW k \in 0..n PROVE InRange(k)
  <2>1. \A m \in 0..n : m \in T
    <3> HIDE DEF T
    <3> QED BY <1>2, <1>3, SegmentInduction
  <2>2. PICK m \in 0..n : m = n - k /\ n - m = k
    OBVIOUS
  <2>3. m \in T
    BY <2>1
  <2> QED BY <2>2, <2>3
<1> QED
  BY <1>1, <1>4

-----------------------------------------------------------------------------
(* Places in what is sent. *)

LEMMA SentGrows ==
  ASSUME NEW w \in Nat, NEW h \in Nat, NEW s \in Nat, NEW i \in Nat, Sizes(w, h, s, i), ValidQueries,
         NEW k \in 0..(h + 1), NEW l \in 0..(h + 1), k <= l
  PROVE  SentBefore(k) <= SentBefore(l)
<1> DEFINE T == {m \in 0..(l - k) : SentBefore(k) <= SentBefore(k + m)}
<1>1. /\ \A x \in 0..(h + 1) : SentBefore(x) \in Nat
      /\ \A x \in 0..h : SentBefore(x + 1) = SentBefore(x) + Len(Missing(x))
  BY SentBeforeIs DEF ValidQueries
<1>2. PICK n \in Nat : n = l - k /\ k + n = l
  <2>1. l - k \in Nat /\ k + (l - k) = l
    OBVIOUS
  <2> QED BY <2>1
<1>3. 0 \in T
  <2>1. k + 0 = k /\ 0 \in 0..(l - k)
    OBVIOUS
  <2> QED BY <1>1, <2>1
<1>4. ASSUME NEW m \in 0..(n - 1), m \in T PROVE m + 1 \in T
  <2>1. PICK x \in 0..h : x = k + m /\ x + 1 = k + (m + 1) /\ m + 1 \in 0..(l - k)
                          /\ x \in 0..(h + 1) /\ x + 1 \in 0..(h + 1)
    <3>1. k + m \in 0..h /\ (k + m) + 1 = k + (m + 1) /\ m + 1 \in 0..(l - k)
          /\ k + m \in 0..(h + 1) /\ (k + m) + 1 \in 0..(h + 1)
      BY <1>2
    <3> QED BY <3>1
  <2>2. Len(Missing(x)) \in Nat
    BY <2>1, MissingAre DEF ValidQueries
  <2>3. PICK a \in Nat, b \in Nat, c \in Nat :
          a = SentBefore(k) /\ b = SentBefore(x) /\ c = Len(Missing(x))
    BY <1>1, <2>1, <2>2
  <2>4. SentBefore(x + 1) = b + c
    BY <1>1, <2>3
  <2>5. a <= b
    BY <1>4, <2>1, <2>3
  <2>6. SentBefore(k) <= SentBefore(x + 1)
    BY <2>3, <2>4, <2>5
  <2> QED BY <2>1, <2>6
<1>5. n \in T
  <2>1. \A m \in 0..n : m \in T
    <3> HIDE DEF T
    <3> QED BY <1>3, <1>4, SegmentInduction
  <2> QED BY <2>1
<1> QED
  BY <1>2, <1>5

(* A missing element comes before those of the levels above. *)
LEMMA PlacesFit ==
  ASSUME NEW w \in Nat, NEW h \in Nat, NEW s \in Nat, NEW i \in Nat, Sizes(w, h, s, i), ValidQueries,
         NEW k \in 0..h, NEW y \in 1..Len(Missing(k)), NEW l \in 0..(h + 1)
  PROVE  /\ SentBefore(k) \in Nat /\ SentBefore(l) \in Nat /\ SentBefore(k) >= 1
         /\ k < l => SentBefore(k) + y <= SentBefore(l)
         /\ l <= k => SentBefore(l) < SentBefore(k) + y
         /\ SentBefore(k) + y <= SentBefore(h + 1)
<1>1. k \in 0..(h + 1) /\ k + 1 \in 0..(h + 1) /\ h + 1 \in 0..(h + 1) /\ k + 1 <= h + 1
  OBVIOUS
<1>2. PICK a \in Nat, b \in Nat, n \in Nat, e \in Nat :
        /\ a = SentBefore(k) /\ b = SentBefore(l) /\ n = Len(Missing(k)) /\ e = SentBefore(h + 1) /\ a >= 1
  <2>1. Len(Missing(k)) \in Nat
    BY <1>1, MissingAre DEF ValidQueries
  <2>2. \A x \in 0..(h + 1) : SentBefore(x) \in Nat /\ SentBefore(x) >= 1
    BY SentBeforeIs DEF ValidQueries
  <2> QED BY <1>1, <2>1, <2>2
<1>3. SentBefore(k + 1) = a + n
  BY <1>2, SentBeforeIs DEF ValidQueries
<1>4. a + n <= e
  BY <1>1, <1>2, <1>3, SentGrows
<1>5. ASSUME k < l PROVE a + n <= b
  <2>1. k + 1 <= l
    BY <1>5
  <2> QED BY <1>1, <1>2, <1>3, <2>1, SentGrows
<1>6. ASSUME l <= k PROVE b <= a
  BY <1>1, <1>2, <1>6, SentGrows
<1>7. y \in 1..n
  BY <1>2
<1>8. /\ k < l => a + y <= b
      /\ l <= k => b < a + y
      /\ a + y <= e
  BY ONLY <1>4, <1>5, <1>6, <1>7, a \in Nat, b \in Nat, n \in Nat, e \in Nat
<1> QED
  BY <1>2, <1>8

LEMMA PlacesDiffer ==
  ASSUME NEW w \in Nat, NEW h \in Nat, NEW s \in Nat, NEW i \in Nat, Sizes(w, h, s, i), ValidQueries,
         NEW k \in 0..h, NEW y \in 1..Len(Missing(k)), NEW l \in 0..h, NEW z \in 1..Len(Missing(l)),
         SentBefore(k) + y = SentBefore(l) + z
  PROVE  k = l /\ y = z
<1>1. k \in 0..(h + 1) /\ l \in 0..(h + 1)
  OBVIOUS
<1>2. PICK a \in Nat, b \in Nat : a = SentBefore(k) /\ b = SentBefore(l)
  BY <1>1, PlacesFit
<1>3. (k < l => a + y <= b) /\ (l < k => b + z <= a)
  BY <1>1, <1>2, PlacesFit
<1>4. y \in Nat /\ z \in Nat /\ y >= 1 /\ z >= 1
  <2>1. Len(Missing(k)) \in Nat /\ Len(Missing(l)) \in Nat
    BY <1>1, MissingAre DEF ValidQueries
  <2> QED BY <2>1
<1>5. a + y = b + z
  BY <1>2
<1>6. ~(k < l) /\ ~(l < k)
  BY ONLY <1>3, <1>4, <1>5, a \in Nat, b \in Nat
<1>7. k = l
  BY <1>6
<1>8. a = b
  BY <1>2, <1>7
<1> QED
  BY ONLY <1>4, <1>5, <1>7, <1>8, a \in Nat, b \in Nat

(* The nodes of the tree have the values of their elements. *)
LEMMA NodesHaveValues ==
  ASSUME CommitmentInv, at \in Decommitting,
         NEW w \in Nat, NEW h \in Nat, NEW s \in Nat, NEW i \in Nat, Sizes(w, h, s, i),
         NEW k \in (i + 1)..(h + 1), NEW j \in 0..(NElements(k) - 1)
  PROVE  nodes[NElements(k) + j] = Value(k, j)
<1>1. CommittedInv /\ shape \in Shapes /\ Builds(NSegments)
  BY DEF CommitmentInv, Decommitting
<1>2. CASE shape.plain
  BY <1>2 DEF Value
<1>3. CASE ~shape.plain
  <2>1. nodes[NElements(k) + j] = Element(k, j)
    BY <1>1, <1>3, TreeValues DEF CommittedInv
  <2> QED BY <1>3, <2>1 DEF Value
<1> QED
  BY <1>2, <1>3

-----------------------------------------------------------------------------
(* The prover's decommitment. *)

LEMMA DecommitKeepsDecommit ==
  ASSUME CommitmentInv, DecommitInv, Decommit
  PROVE  DecommitInv'
<1>1. /\ at = "requested" /\ at' = "packages" /\ level' = 0
      /\ given' = [x \in DOMAIN Asks[0] |-> Row(Asks[0][x])]
      /\ shape' = shape /\ nodes' = nodes /\ sent' = sent /\ queries' = queries /\ notes' = notes
  BY DEF Decommit, building
<1>2. ValidQueries /\ Len(sent) = 1 /\ notes = <<>>
  BY <1>1 DEF DecommitInv, Decommitting, Verifying
<1>3. shape \in Shapes /\ Builds(NSegments)
  BY <1>1 DEF CommitmentInv, Decommitting
<1>4. PICK w, h, s, i \in Nat : Sizes(w, h, s, i)
  BY <1>3, SizesAre
<1>5. h = Height
  BY <1>4 DEF Sizes
<1>6. /\ SentBefore(0) = 1
      /\ \A k \in 0..(h + 1) : SentBefore(k) \in Nat /\ SentBefore(k) >= 1
  BY <1>2, <1>4, SentBeforeIs DEF ValidQueries
<1>7. RightSent
  <2>1. ASSUME NEW l \in 0..h, NEW y \in 1..Len(Missing(l)) PROVE ~(SentBefore(l) + y <= 1)
    <3>1. SentBefore(l) \in Nat /\ SentBefore(l) >= 1 /\ y \in Int /\ y >= 1
      BY <1>2, <1>4, <1>6, MissingAre DEF ValidQueries
    <3> QED BY <3>1
  <2>2. 1 <= SentBefore(h + 1)
    BY <1>6
  <2> QED BY <1>2, <1>5, <2>1, <2>2 DEF RightSent, IsSent
<1>8. 0 \in 0..TreeLevel
  BY <1>4, LevelSizes
<1>9. PICK n \in Nat : n = Len(Asks[0]) /\ DOMAIN Asks[0] = 1..n
  BY <1>4, <1>8, AsksAre, ListProperties
<1>10. Len(given') = n
  <2>1. PICK g : g = given' /\ g = [x \in 1..n |-> g[x]]
    BY <1>1, <1>9
  <2> QED BY <2>1, IndexedIsList
<1>11. ASSUME NEW x \in 1..n PROVE given'[x] = Element(0, Asks[0][x])
  <2>1. Asks[0][x] \in 0..(NElements(0) - 1)
    BY <1>2, <1>4, <1>8, <1>9, AsksInRange
  <2>2. given'[x] = Row(Asks[0][x])
    BY <1>1, <1>9
  <2> QED BY <1>3, <1>4, <2>1, <2>2, ElementsAre
<1>12. Asks' = Asks /\ (\A k : SentBefore(k)' = SentBefore(k)) /\ \A k, j : Element(k, j)' = Element(k, j)
  BY <1>1, RequestsStay, DecommitStays, TableStays
<1>13. GivenRight'
  BY <1>1, <1>2, <1>6, <1>10, <1>11, <1>12 DEF GivenRight
<1>14. RightSent' /\ ValidQueries'
  BY <1>1, <1>2, <1>7, SentStays, DecommitStays
<1> QED
  BY <1>1, <1>2, <1>13, <1>14 DEF DecommitInv, Decommitting, Verifying

Sends(k) == [x \in 1..Len(Missing(k)) |-> <<Label(k, Missing(k)[x]), given[x]>>]
Answers(k) ==
  IF Cached(k + 1) THEN [x \in DOMAIN Asks[k + 1] |-> cache[k + 1][Asks[k + 1][x]]]
  ELSE Packed([x \in 1..(Len(Asks[k + 1]) * PackSize(k)) |-> given[Len(Missing(k)) + x]],
              Len(Asks[k + 1]), PackSize(k), PHash(k))

LEMMA LevelAnswers ==
  ASSUME CommitmentInv, DecommitLevel
  PROVE  /\ at = "packages" /\ at' = at /\ level \in 0..(TreeLevel - 1) /\ level' = level + 1
         /\ sent' = sent \o Sends(level) /\ given' = Answers(level)
         /\ IsList(given) /\ Len(given) = Len(Asks[level])
         /\ shape' = shape /\ nodes' = nodes /\ queries' = queries /\ notes' = notes
<1> DEFINE n == Len(Missing(level))
           rest == SubSeq(given, n + 1, Len(given))
           packed == PackAndHash(rest, PackSize(level), PHash(level))
           cached == [x \in DOMAIN Asks[level + 1] |-> cache[level + 1][Asks[level + 1][x]]]
           m == IF Cached(level + 1) THEN 0 ELSE Len(Asks[level + 1])
<1>1. /\ at = "packages" /\ level < TreeLevel
      /\ IF Len(given) # Len(Asks[level]) \/ (Cached(level + 1) /\ packed # <<>>)
         THEN at' = "failed" /\ UNCHANGED <<sent, given, level>>
         ELSE /\ sent' = sent \o Sends(level)
              /\ given' = IF Cached(level + 1) THEN cached ELSE packed
              /\ level' = level + 1
              /\ UNCHANGED at
      /\ shape' = shape /\ nodes' = nodes /\ queries' = queries /\ notes' = notes
  BY DEF DecommitLevel, building, Sends
<1>2. GivenInv
  BY <1>1 DEF CommitmentInv
<1>3. PICK w, h, s, i \in Nat : Sizes(w, h, s, i)
  BY <1>1, SizesAre DEF CommitmentInv, Decommitting
<1>4. /\ level \in Nat /\ level + 1 \in 0..TreeLevel /\ m \in Nat
      /\ rest = [x \in 1..(m * PackSize(level)) |-> given[n + x]]
      /\ packed = Packed(rest, m, PackSize(level), PHash(level))
      /\ IsList(packed) /\ Len(packed) = m
  BY <1>1, GivenPacked
<1> HIDE DEF packed, rest
<1>5. Cached(level + 1) => packed = <<>>
  BY <1>4, NothingInList
<1>6. /\ sent' = sent \o Sends(level)
      /\ given' = IF Cached(level + 1) THEN cached ELSE packed
      /\ level' = level + 1 /\ at' = at
  BY <1>1, <1>2, <1>5 DEF GivenInv
<1>7. given' = Answers(level)
  <2>1. CASE Cached(level + 1)
    BY <1>6, <2>1 DEF Answers
  <2>2. CASE ~Cached(level + 1)
    <3>1. m = Len(Asks[level + 1])
      BY <2>2
    <3>2. packed = Packed([x \in 1..(Len(Asks[level + 1]) * PackSize(level)) |-> given[Len(Missing(level)) + x]],
                          Len(Asks[level + 1]), PackSize(level), PHash(level))
      BY <1>4, <3>1
    <3> QED BY <1>6, <2>2, <3>2 DEF Answers
  <2> QED BY <2>1, <2>2
<1>8. level \in 0..(TreeLevel - 1)
  <2>1. TreeLevel \in Nat
    BY <1>3, LevelSizes
  <2> QED BY <1>1, <1>4, <2>1
<1> QED
  BY <1>1, <1>2, <1>6, <1>7, <1>8 DEF GivenInv

(* What a level asks for: its missing elements, then those of the packages *)
(* that the level above asks for.                                          *)
AsksForPackages(k, n, m, size) ==
  /\ Len(Asks[k]) = n + m * size
  /\ \A x \in 1..m : \A y \in 1..size :
       Asks[k][n + ((x - 1) * size + y)] = Asks[k + 1][x] * size + y - 1

LEMMA AskedAre ==
  ASSUME NEW w \in Nat, NEW h \in Nat, NEW s \in Nat, NEW i \in Nat, Sizes(w, h, s, i), ValidQueries,
         NEW k \in 0..(TreeLevel - 1)
  PROVE  LET n == Len(Missing(k))
             m == Len(Asks[k + 1])
         IN  /\ n \in Nat /\ m \in Nat /\ n <= Len(Asks[k]) /\ Len(Asks[k]) \in Nat
             /\ \A x \in 1..n : Asks[k][x] = Missing(k)[x]
             /\ ~Cached(k + 1) => AsksForPackages(k, n, m, PackSize(k))
<1>1. k \in Nat /\ k + 1 \in 0..TreeLevel /\ k \in 0..TreeLevel /\ k \in 0..(h + 1)
  <2>1. TreeLevel \in 0..(h + 1)
    BY LevelSizes
  <2> QED BY <2>1
<1>2. PICK size \in Nat \ {0} : size = PackSize(k)
  BY <1>1, LevelSizes
<1>3. PICK missing : missing = Missing(k) /\ IsList(missing)
  BY <1>1, MissingAre DEF ValidQueries
<1>a. PICK n \in Nat : n = Len(missing)
  BY <1>3, ListProperties
<1>4. PICK m \in Nat : m = Len(Asks[k + 1]) /\ IsList(Asks[k + 1])
  BY <1>1, AsksAre, ListProperties
<1>5. PICK packages : packages = (IF Cached(k + 1) THEN <<>> ELSE Asks[k + 1]) /\ IsList(packages)
  BY <1>4, EmptyList
<1>6. PICK rest : rest = ElementsInPackages(packages, size)
  OBVIOUS
<1>7. /\ IsList(rest) /\ Len(rest) = Len(packages) * size
      /\ \A x \in 1..Len(packages) : \A y \in 1..size : rest[(x - 1) * size + y] = packages[x] * size + y - 1
  <2>1. IsList(packages)
    BY <1>5
  <2>2. LET e == ElementsInPackages(packages, size)
        IN  /\ IsList(e) /\ Len(e) = Len(packages) * size
            /\ \A x \in 1..Len(packages) : \A y \in 1..size : e[(x - 1) * size + y] = packages[x] * size + y - 1
    BY ONLY <2>1, size \in Nat \ {0}, ElementsInPackagesAre
  <2> QED BY <1>6, <2>2
<1>8. Asks[k] = missing \o rest
  BY <1>2, <1>3, <1>5, <1>6, AsksAre
<1>9. PICK l \in Nat : l = Len(rest)
  BY <1>7, ListProperties
<1>10. /\ Len(Asks[k]) = n + l
       /\ \A x \in 1..n : Asks[k][x] = missing[x]
       /\ \A x \in 1..l : Asks[k][n + x] = rest[x]
  <2>1. IsList(missing) /\ IsList(rest)
    BY <1>3, <1>7
  <2>2. /\ Len(missing \o rest) = Len(missing) + Len(rest)
        /\ \A x \in 1..Len(missing) : (missing \o rest)[x] = missing[x]
        /\ \A x \in 1..Len(rest) : (missing \o rest)[Len(missing) + x] = rest[x]
    BY ONLY <2>1, Joined
  <2> QED BY <1>a, <1>8, <1>9, <2>2
<1>11. ASSUME ~Cached(k + 1), NEW x \in 1..m, NEW y \in 1..size
       PROVE  Asks[k][n + ((x - 1) * size + y)] = Asks[k + 1][x] * size + y - 1
  <2>1. l = m * size /\ packages = Asks[k + 1] /\ Len(packages) = m
    BY <1>4, <1>5, <1>7, <1>9, <1>11
  <2>2. x - 1 \in 0..(m - 1) /\ y - 1 \in 0..(size - 1)
    BY <1>4
  <2>3. (x - 1) * size + (y - 1) \in 0..(m * size - 1)
    BY <2>2, InPart
  <2>4. PICK b \in Nat : b = (x - 1) * size
    <3>1. (x - 1) * size \in Nat
      BY <2>2
    <3> QED BY <3>1
  <2>5. b + y \in 1..l
    BY <2>1, <2>3, <2>4
  <2> QED BY <1>7, <1>10, <2>1, <2>4, <2>5
<1>12. ~Cached(k + 1) => AsksForPackages(k, n, m, size)
  <2>1. ~Cached(k + 1) => Len(Asks[k]) = n + m * size
    BY <1>4, <1>5, <1>7, <1>9, <1>10
  <2> QED BY <1>11, <2>1 DEF AsksForPackages
<1>13. n <= Len(Asks[k]) /\ Len(Asks[k]) \in Nat
  BY <1>9, <1>10
<1> QED
  BY <1>2, <1>3, <1>a, <1>4, <1>10, <1>12, <1>13

(* What the level above is given are the elements it asks for. *)
LEMMA AnswersAreRight ==
  ASSUME CommitmentInv, at \in Decommitting,
         NEW w \in Nat, NEW h \in Nat, NEW s \in Nat, NEW i \in Nat, Sizes(w, h, s, i), ValidQueries,
         NEW k \in 0..(TreeLevel - 1), IsList(given), Len(given) = Len(Asks[k]),
         \A x \in 1..Len(given) : given[x] = Element(k, Asks[k][x])
  PROVE  /\ Len(Answers(k)) = Len(Asks[k + 1])
         /\ \A x \in 1..Len(Asks[k + 1]) : Answers(k)[x] = Element(k + 1, Asks[k + 1][x])
<1>1. CommittedInv /\ shape \in Shapes /\ Builds(NSegments)
  BY DEF CommitmentInv, Decommitting
<1>2. ~shape.plain /\ TreeLevel = i + 1 /\ i <= h /\ InSegment = i
  BY DEF TreeLevel, Sizes
<1>3. /\ k \in Nat /\ k + 1 \in 0..TreeLevel /\ k \in 0..TreeLevel /\ k \in 0..h /\ k \in 0..i
      /\ k + 1 \in 0..(h + 1) /\ k + 1 \in 1..(i + 1)
  BY <1>2
<1>4. PICK size \in Nat \ {0} : size = PackSize(k)
  BY <1>3, LevelSizes
<1>5. PICK n \in Nat, m \in Nat : n = Len(Missing(k)) /\ m = Len(Asks[k + 1])
  BY AskedAre
<1>6. DOMAIN Asks[k + 1] = 1..m
  BY <1>3, <1>5, AsksAre, ListProperties
<1>7. \A x \in 1..m : Asks[k + 1][x] \in 0..(NElements(k + 1) - 1)
  BY <1>3, <1>5, AsksInRange
<1>8. CASE Cached(k + 1)
  <2>1. k + 1 \in CachedLevels
    BY <1>2, <1>8 DEF CachedLevels, Cached
  <2>2. PICK g : g = Answers(k) /\ g = [x \in 1..m |-> cache[k + 1][Asks[k + 1][x]]]
    BY <1>6, <1>8 DEF Answers
  <2>3. g = [x \in 1..m |-> g[x]]
    BY <2>2
  <2>4. Len(g) = m
    BY <2>3, IndexedIsList
  <2>5. \A x \in 1..m : g[x] = Element(k + 1, Asks[k + 1][x])
    BY <1>1, <1>7, <2>1, <2>2 DEF CommittedInv
  <2> QED BY <1>5, <2>2, <2>4, <2>5
<1>9. CASE ~Cached(k + 1)
  <2>1. PICK l \in Nat : l = m * size
    OBVIOUS
  <2>2. PICK rest : rest = [x \in 1..l |-> given[n + x]]
    OBVIOUS
  <2>3. Answers(k) = Packed(rest, m, size, PHash(k))
    BY <1>4, <1>5, <1>9, <2>1, <2>2 DEF Answers
  <2>4. Len(Answers(k)) = m
    <3>1. PICK g : g = Answers(k) /\ g = [x \in 1..m |-> g[x]]
      BY <2>3 DEF Packed
    <3> QED BY <3>1, IndexedIsList
  <2>5. ASSUME NEW x \in 1..m PROVE Answers(k)[x] = Element(k + 1, Asks[k + 1][x])
    <3>1. PICK e \in 0..(NElements(k + 1) - 1) : e = Asks[k + 1][x]
      BY <1>7
    <3>2. Element(k + 1, e) = Hash(VHash(k), Children(k, e))
      BY <1>1, <1>2, <1>3, ElementsAre
    <3>3. PHash(k) = VHash(k)
      BY <1>1, <1>2, <1>3, SameKinds
    <3>4. Answers(k)[x] = Hash(PHash(k), [y \in 1..size |-> rest[(x - 1) * size + y]])
      BY <2>3 DEF Packed
    <3>5. ASSUME NEW y \in 1..size PROVE rest[(x - 1) * size + y] = Element(k, e * size + y - 1)
      <4>1. PICK z \in 1..l : z = (x - 1) * size + y
        <5>1. x - 1 \in 0..(m - 1) /\ y - 1 \in 0..(size - 1)
          OBVIOUS
        <5>2. (x - 1) * size + (y - 1) \in 0..(m * size - 1)
          BY <5>1, InPart
        <5>3. PICK b \in Nat : b = (x - 1) * size
          <6>1. (x - 1) * size \in Nat
            BY <5>1
          <6> QED BY <6>1
        <5>4. b + y \in 1..l
          BY <2>1, <5>2, <5>3
        <5> QED BY <5>3, <5>4
      <4>2. Asks[k][n + z] = e * size + y - 1 /\ Len(given) = n + l
        <5>1. /\ Len(Asks[k]) = n + m * size
              /\ \A v \in 1..m : \A u \in 1..size :
                   Asks[k][n + ((v - 1) * size + u)] = Asks[k + 1][v] * size + u - 1
          <6>1. AsksForPackages(k, n, m, size)
            BY <1>4, <1>5, <1>9, AskedAre
          <6> QED BY <6>1 DEF AsksForPackages
        <5>2. Asks[k][n + ((x - 1) * size + y)] = Asks[k + 1][x] * size + y - 1
          BY <5>1
        <5> QED BY <2>1, <3>1, <4>1, <5>1, <5>2
      <4>3. n + z \in 1..(n + l)
        OBVIOUS
      <4>4. given[n + z] = Element(k, Asks[k][n + z])
        BY <4>2, <4>3
      <4> QED BY <2>2, <4>1, <4>2, <4>4
    <3>6. [y \in 1..size |-> rest[(x - 1) * size + y]] = Children(k, e)
      BY <1>4, <3>5 DEF Children
    <3> QED BY <3>1, <3>2, <3>3, <3>4, <3>6
  <2> QED BY <1>5, <2>4, <2>5
<1> QED
  BY <1>8, <1>9

(* What a level sends comes after what was sent before. *)
SentSoFar(more, k, y) ==
  /\ Len(sent) \in Nat /\ SentBefore(k) <= Len(sent) /\ Len(more) = SentBefore(k) + y
  /\ \A x \in 1..Len(sent) : more[x] = sent[x]
  /\ \A z \in 1..y : Len(sent) < SentBefore(k) + z =>
       more[SentBefore(k) + z] = <<Label(k, Missing(k)[z]), Value(k, Missing(k)[z])>>

LEMMA SentOn ==
  ASSUME NEW w \in Nat, NEW h \in Nat, NEW s \in Nat, NEW i \in Nat, Sizes(w, h, s, i), ValidQueries,
         RightSent, NEW k \in 0..h, NEW y \in 0..Len(Missing(k)), NEW more, SentSoFar(more, k, y)
  PROVE  IsSent(more)
<1>1. Height = h /\ k \in 0..(h + 1) /\ k + 1 \in 0..(h + 1) /\ h + 1 \in 0..(h + 1) /\ k + 1 <= h + 1
  BY DEF Sizes
<1>2. PICK a \in Nat, n \in Nat : a = SentBefore(k) /\ n = Len(Missing(k)) /\ SentBefore(k + 1) = a + n
  <2>1. Len(Missing(k)) \in Nat
    BY <1>1, MissingAre DEF ValidQueries
  <2>2. SentBefore(k) \in Nat /\ SentBefore(k + 1) = SentBefore(k) + Len(Missing(k))
    BY <1>1, SentBeforeIs DEF ValidQueries
  <2> QED BY <2>1, <2>2
<1>6. /\ Len(sent) \in Nat /\ SentBefore(k) <= Len(sent) /\ Len(more) = SentBefore(k) + y
      /\ \A x \in 1..Len(sent) : more[x] = sent[x]
      /\ \A z \in 1..y : Len(sent) < SentBefore(k) + z =>
           more[SentBefore(k) + z] = <<Label(k, Missing(k)[z]), Value(k, Missing(k)[z])>>
  BY DEF SentSoFar
<1>3. a + n <= SentBefore(h + 1) /\ SentBefore(h + 1) \in Nat
  <2>1. SentBefore(h + 1) \in Nat
    BY <1>1, SentBeforeIs DEF ValidQueries
  <2> QED BY <1>1, <1>2, <2>1, SentGrows
<1>4. Len(more) <= SentBefore(h + 1)
  <2>1. y \in Nat /\ y <= n /\ Len(more) = a + y
    BY <1>2, <1>6
  <2> QED BY <1>3, <2>1
<1>5. ASSUME NEW l \in 0..h, NEW z \in 1..Len(Missing(l)), SentBefore(l) + z <= Len(more)
      PROVE  more[SentBefore(l) + z] = <<Label(l, Missing(l)[z]), Value(l, Missing(l)[z])>>
  <2>1. PICK b \in Nat, c \in Nat : b = SentBefore(l) /\ c = Len(Missing(l)) /\ l \in 0..(h + 1) /\ b >= 1
    <3>1. l \in 0..(h + 1)
      OBVIOUS
    <3>2. Len(Missing(l)) \in Nat
      BY <3>1, MissingAre DEF ValidQueries
    <3> QED BY <3>1, <3>2, PlacesFit
  <2>2. z \in 1..c
    BY <2>1
  <2>3. CASE b + z <= Len(sent)
    <3>1. b + z \in 1..Len(sent)
      BY <2>1, <2>2, <2>3
    <3> QED BY <1>1, <1>6, <2>1, <2>3, <3>1 DEF RightSent, IsSent
  <2>4. CASE ~(b + z <= Len(sent))
    <3>1. ~(l < k)
      <4>1. ASSUME l < k PROVE b + z <= a
        BY <1>1, <1>2, <2>1, <4>1, PlacesFit
      <4>2. a <= Len(sent) /\ Len(sent) \in Nat
        BY <1>2, <1>6
      <4>3. ~(b + z <= a)
        BY <2>1, <2>2, <2>4, <4>2
      <4> QED BY <4>1, <4>3
    <3>2. ~(k < l)
      <4>1. ASSUME k < l PROVE a + n <= b
        <5>1. k + 1 <= l /\ l \in 0..(h + 1)
          BY <2>1, <4>1
        <5>2. SentBefore(k + 1) <= SentBefore(l)
          BY <1>1, <5>1, SentGrows
        <5> QED BY <1>2, <2>1, <5>2
      <4>2. b + z <= a + y /\ y <= n /\ y \in Nat
        BY <1>2, <1>5, <1>6, <2>1
      <4> QED BY <2>1, <2>2, <4>1, <4>2
    <3>3. l = k
      BY <3>1, <3>2
    <3>4. a = b /\ a + z <= a + y
      BY <1>2, <1>5, <1>6, <2>1, <3>3
    <3>5. z \in 1..y
      <4>1. z \in Nat /\ z >= 1 /\ y \in Nat
        BY <1>2, <2>1, <2>2
      <4> QED BY ONLY <3>4, <4>1, a \in Nat
    <3>6. Len(sent) < a + z
      <4>1. Len(sent) \in Nat /\ z \in Nat
        BY <1>6, <2>1, <2>2
      <4>2. ~(a + z <= Len(sent))
        BY <2>4, <3>4
      <4> QED BY ONLY <4>1, <4>2, a \in Nat
    <3> QED BY <1>2, <1>6, <3>3, <3>4, <3>5, <3>6
  <2> QED BY <2>1, <2>3, <2>4
<1> QED
  BY <1>1, <1>4, <1>5 DEF IsSent

LEMMA DecommitLevelKeepsDecommit ==
  ASSUME CommitmentInv, DecommitInv, DecommitLevel
  PROVE  DecommitInv'
<1>1. /\ at = "packages" /\ at' = at /\ level \in 0..(TreeLevel - 1) /\ level' = level + 1
      /\ sent' = sent \o Sends(level) /\ given' = Answers(level)
      /\ IsList(given) /\ Len(given) = Len(Asks[level])
      /\ shape' = shape /\ nodes' = nodes /\ queries' = queries /\ notes' = notes
  BY LevelAnswers
<1>2. ValidQueries /\ RightSent /\ GivenRight /\ notes = <<>> /\ at \in Decommitting
  BY <1>1 DEF DecommitInv, Decommitting, Verifying
<1>3. CommittedInv /\ shape \in Shapes /\ Builds(NSegments)
  BY <1>1 DEF CommitmentInv, Decommitting
<1>4. PICK w, h, s, i \in Nat : Sizes(w, h, s, i)
  BY <1>3, SizesAre
<1>5. PICK k \in Nat : k = level /\ k \in 0..(TreeLevel - 1) /\ k + 1 \in 0..TreeLevel /\ k \in 0..h
                       /\ k \in 0..(h + 1)
  <2>1. TreeLevel \in 0..(h + 1)
    BY <1>4, LevelSizes
  <2> QED BY <1>1, <2>1
<1>6. ~shape.plain
  BY <1>5 DEF TreeLevel
<1>7. PICK n \in Nat : n = Len(Missing(k)) /\ n <= Len(given) /\ \A x \in 1..n : Asks[k][x] = Missing(k)[x]
  BY <1>1, <1>2, <1>4, <1>5, AskedAre
<1>8. PICK a \in Nat : a = Len(sent) /\ a = SentBefore(k) /\ IsList(sent)
  <2>1. IsList(sent) /\ Len(sent) = SentBefore(k)
    BY <1>2, <1>3, <1>5 DEF CommittedInv, GivenRight
  <2> QED BY <2>1, ListProperties
<1>9. \A x \in 1..n : given[x] = Element(k, Missing(k)[x])
  <2>1. TAKE x \in 1..n
  <2>2. x \in 1..Len(given)
    BY <1>1, <1>7, ListProperties
  <2> QED BY <1>2, <1>5, <1>7, <2>2 DEF GivenRight
<1>10. PICK added : added = Sends(k) /\ IsList(added) /\ Len(added) = n
                    /\ \A x \in 1..n : added[x] = <<Label(k, Missing(k)[x]), Value(k, Missing(k)[x])>>
  <2>1. PICK added : added = Sends(k) /\ added = [x \in 1..n |-> <<Label(k, Missing(k)[x]), given[x]>>]
    BY <1>7 DEF Sends
  <2>2. added = [x \in 1..n |-> added[x]]
    BY <2>1
  <2>3. IsList(added) /\ Len(added) = n
    BY <2>2, IndexedIsList
  <2>4. \A x \in 1..n : added[x] = <<Label(k, Missing(k)[x]), Value(k, Missing(k)[x])>>
    BY <1>6, <1>9, <2>1 DEF Value
  <2> QED BY <2>1, <2>3, <2>4
<1>11. PICK more : more = sent \o added
  OBVIOUS
<1>12. /\ Len(more) = a + n
       /\ \A x \in 1..a : more[x] = sent[x]
       /\ \A x \in 1..n : more[a + x] = added[x]
  <2>1. /\ Len(sent \o added) = Len(sent) + Len(added)
        /\ \A x \in 1..Len(sent) : (sent \o added)[x] = sent[x]
        /\ \A x \in 1..Len(added) : (sent \o added)[Len(sent) + x] = added[x]
    <3>1. IsList(sent) /\ IsList(added)
      BY <1>8, <1>10
    <3> QED BY ONLY <3>1, Joined
  <2> QED BY <1>8, <1>10, <1>11, <2>1
<1>13. IsSent(more)
  <2>1. n \in 0..Len(Missing(k))
    BY <1>7
  <2>2. \A z \in 1..n : Len(sent) < SentBefore(k) + z =>
          more[SentBefore(k) + z] = <<Label(k, Missing(k)[z]), Value(k, Missing(k)[z])>>
    BY <1>8, <1>10, <1>12
  <2>3. Len(sent) \in Nat /\ SentBefore(k) <= Len(sent) /\ Len(more) = SentBefore(k) + n
        /\ \A x \in 1..Len(sent) : more[x] = sent[x]
    BY <1>8, <1>12
  <2>4. SentSoFar(more, k, n)
    BY <2>2, <2>3 DEF SentSoFar
  <2> QED BY <1>2, <1>4, <1>5, <2>1, <2>4, SentOn
<1>14. sent' = more
  BY <1>1, <1>5, <1>10, <1>11
<1>15. /\ Height' = Height
       /\ \A l : Missing(l)' = Missing(l) /\ SentBefore(l)' = SentBefore(l)
       /\ \A l, j : Label(l, j)' = Label(l, j) /\ Value(l, j)' = Value(l, j) /\ Element(l, j)' = Element(l, j)
       /\ Asks' = Asks
  BY <1>1, SizesStay, RequestsStay, DecommitStays, TableStays
<1>16. RightSent'
  BY <1>13, <1>14, <1>15 DEF RightSent, IsSent
<1>17. GivenRight'
  <2>1. SentBefore(k + 1) = a + n
    BY <1>2, <1>4, <1>5, <1>7, <1>8, SentBeforeIs DEF ValidQueries
  <2>2. /\ Len(Answers(k)) = Len(Asks[k + 1])
        /\ \A x \in 1..Len(Asks[k + 1]) : Answers(k)[x] = Element(k + 1, Asks[k + 1][x])
    BY <1>1, <1>2, <1>4, <1>5, AnswersAreRight DEF GivenRight
  <2>3. PICK g : g = given' /\ g = Answers(k)
    BY <1>1, <1>5
  <2>4. level' = k + 1
    BY <1>1, <1>5
  <2>5. Len(sent') = SentBefore(k + 1)
    BY <1>12, <1>14, <2>1
  <2>6. \A x \in 1..Len(given') : given'[x] = Element(k + 1, Asks[k + 1][x])
    BY <2>2, <2>3
  <2> QED BY <1>15, <2>4, <2>5, <2>6 DEF GivenRight
<1>18. ValidQueries'
  BY <1>1, <1>2, DecommitStays
<1> QED
  BY <1>1, <1>2, <1>16, <1>17, <1>18 DEF DecommitInv, Decommitting, Verifying

-----------------------------------------------------------------------------
(* Queues. *)

LEMMA TailIs ==
  ASSUME NEW list, IsList(list), Len(list) # 0
  PROVE  /\ Head(list) = list[1]
         /\ IsList(Tail(list)) /\ Len(Tail(list)) = Len(list) - 1
         /\ \A x \in 1..(Len(list) - 1) : Tail(list)[x] = list[x + 1]
<1>1. PICK V : list \in Seq(V)
  BY DEF IsList
<1>2. list # <<>>
  BY EmptyList
<1>3. /\ Tail(list) \in Seq(V) /\ Len(Tail(list)) = Len(list) - 1
      /\ \A x \in 1..Len(Tail(list)) : Tail(list)[x] = list[x + 1]
  BY <1>1, <1>2, HeadTailProperties
<1>4. Head(list) = list[1]
  BY <1>1, <1>2
<1> QED
  BY <1>3, <1>4, ListIs

LEMMA AppendIs ==
  ASSUME NEW list, IsList(list), NEW e
  PROVE  /\ IsList(Append(list, e)) /\ Len(Append(list, e)) = Len(list) + 1
         /\ \A x \in 1..Len(list) : Append(list, e)[x] = list[x]
         /\ Append(list, e)[Len(list) + 1] = e
<1>1. /\ IsList(list \o <<e>>) /\ Len(list \o <<e>>) = Len(list) + 1
      /\ \A x \in 1..Len(list) : (list \o <<e>>)[x] = list[x]
      /\ (list \o <<e>>)[Len(list) + 1] = e
  BY OneMoreElement
<1>2. Append(list, e) = list \o <<e>>
  BY DEF IsList
<1> QED
  BY <1>1, <1>2

LEMMA OneMoves ==
  ASSUME NEW list, IsList(list), Len(list) \in Nat \ {0}, NEW e
  PROVE  /\ Moves(list, Append(Tail(list), e), 1, e)
         /\ Head(Append(Tail(list), e)) = IF Len(list) = 1 THEN e ELSE list[2]
<1>1. PICK n \in Nat \ {0} : n = Len(list)
  OBVIOUS
<1>2. PICK rest : rest = Tail(list) /\ IsList(rest) /\ Len(rest) = n - 1 /\ \A x \in 1..(n - 1) : rest[x] = list[x + 1]
  BY <1>1, TailIs
<1>3. PICK left : left = Append(rest, e)
  OBVIOUS
<1>4. /\ IsList(left) /\ Len(left) = n
      /\ \A x \in 1..(n - 1) : left[x] = list[x + 1]
      /\ left[n] = e
  <2>1. /\ IsList(left) /\ Len(left) = (n - 1) + 1
        /\ \A x \in 1..(n - 1) : left[x] = rest[x]
        /\ left[(n - 1) + 1] = e
    BY <1>2, <1>3, AppendIs
  <2>2. (n - 1) + 1 = n
    OBVIOUS
  <2> QED BY <1>2, <2>1, <2>2
<1>5. Moves(list, left, 1, e)
  <2>1. n - 1 + 1 = n
    OBVIOUS
  <2> QED BY <1>1, <1>4, <2>1 DEF Moves
<1>6. Head(left) = left[1]
  BY <1>4, TailIs
<1>7. left[1] = IF n = 1 THEN e ELSE list[2]
  <2>1. CASE n = 1
    BY <1>4, <2>1
  <2>2. CASE n # 1
    <3>1. 1 \in 1..(n - 1) /\ 1 + 1 = 2
      BY <2>2
    <3>2. left[1] = list[1 + 1]
      BY <1>4, <3>1
    <3> QED BY <2>2, <3>1, <3>2
  <2> QED BY <2>1, <2>2
<1> QED
  BY <1>1, <1>2, <1>3, <1>5, <1>6, <1>7

LEMMA TwoMove ==
  ASSUME NEW list, IsList(list), Len(list) \in Nat, Len(list) >= 2, NEW e
  PROVE  /\ Moves(list, Tail(Append(Tail(list), e)), 2, e)
         /\ Moves(list, Append(Tail(Tail(list)), e), 2, e)
<1>1. PICK n \in Nat : n = Len(list) /\ n >= 2
  OBVIOUS
<1>2. PICK rest : rest = Tail(list) /\ IsList(rest) /\ Len(rest) = n - 1 /\ \A x \in 1..(n - 1) : rest[x] = list[x + 1]
  <2>1. Len(list) # 0
    BY <1>1
  <2> QED BY <1>1, <2>1, TailIs
<1>3. PICK m \in Nat : m = n - 2 /\ n - 1 = m + 1 /\ n - 2 + 1 = m + 1 /\ m + 1 # 0 /\ m + 1 \in Nat
  <2>1. n - 2 \in Nat /\ n - 1 = (n - 2) + 1 /\ (n - 2) + 1 # 0 /\ (n - 2) + 1 \in Nat
    BY <1>1
  <2> QED BY <2>1
<1>6. Len(rest) = m + 1 /\ \A x \in 1..(m + 1) : rest[x] = list[x + 1]
  BY <1>2, <1>3
<1>4. Moves(list, Tail(Append(rest, e)), 2, e)
  <2>1. PICK all : all = Append(rest, e)
    OBVIOUS
  <2>2. /\ IsList(all) /\ Len(all) = (m + 1) + 1
        /\ \A x \in 1..(m + 1) : all[x] = rest[x]
        /\ all[(m + 1) + 1] = e
    BY <1>2, <1>3, <2>1, AppendIs
  <2>3. PICK left : left = Tail(all)
    OBVIOUS
  <2>4. /\ IsList(left) /\ Len(left) = m + 1
        /\ \A x \in 1..(m + 1) : left[x] = all[x + 1]
    <3>1. Len(all) # 0 /\ Len(all) - 1 = m + 1
      BY <2>2
    <3> QED BY <2>2, <2>3, <3>1, TailIs
  <2>5. \A x \in 1..m : left[x] = list[x + 2]
    <3>1. TAKE x \in 1..m
    <3>2. x \in 1..(m + 1) /\ x + 1 \in 1..(m + 1) /\ (x + 1) + 1 = x + 2
      OBVIOUS
    <3>3. left[x] = rest[x + 1]
      BY <2>2, <2>4, <3>2
    <3>4. rest[x + 1] = list[(x + 1) + 1]
      BY <1>6, <3>2
    <3> QED BY <3>2, <3>3, <3>4
  <2>6. left[m + 1] = e
    BY <2>2, <2>4
  <2> QED BY <1>1, <1>3, <2>1, <2>3, <2>4, <2>5, <2>6 DEF Moves
<1>5. Moves(list, Append(Tail(rest), e), 2, e)
  <2>1. PICK last : last = Tail(rest)
    OBVIOUS
  <2>2. /\ IsList(last) /\ Len(last) = m
        /\ \A x \in 1..m : last[x] = rest[x + 1]
    <3>1. Len(rest) # 0 /\ Len(rest) - 1 = m
      BY <1>3, <1>6
    <3> QED BY <1>2, <2>1, <3>1, TailIs
  <2>3. PICK left : left = Append(last, e)
    OBVIOUS
  <2>4. /\ IsList(left) /\ Len(left) = m + 1
        /\ \A x \in 1..m : left[x] = last[x]
        /\ left[m + 1] = e
    BY <2>2, <2>3, AppendIs
  <2>5. \A x \in 1..m : left[x] = list[x + 2]
    <3>1. TAKE x \in 1..m
    <3>2. x + 1 \in 1..(m + 1) /\ (x + 1) + 1 = x + 2
      OBVIOUS
    <3>3. left[x] = rest[x + 1]
      BY <2>2, <2>4
    <3>4. rest[x + 1] = list[(x + 1) + 1]
      BY <1>6, <3>2
    <3> QED BY <3>2, <3>3, <3>4
  <2> QED BY <1>1, <1>3, <2>1, <2>3, <2>4, <2>5 DEF Moves
<1> QED
  BY <1>2, <1>4, <1>5

(* A plain table has its rows as leaves. *)
LEMMA PlainQueries ==
  ASSUME NEW w \in Nat, NEW h \in Nat, NEW s \in Nat, NEW i \in Nat, Sizes(w, h, s, i), ValidQueries,
         shape.plain
  PROVE  QueriesAt(0 + 1) = QueriesAt(0) /\ NElements(0 + 1) = NElements(0)
<1>1. PackSize(0) = 1
  BY Pow2Is DEF PackSize, Sizes
<1>2. QueriesAt(0 + 1) = {e \div 1 : e \in QueriesAt(0)} /\ QueriesAt(0) \in SUBSET Nat
  BY <1>1, QueriesRise DEF ValidQueries
<1>3. \A e \in Nat : e \div 1 = e
  OBVIOUS
<1>4. QueriesAt(0 + 1) = QueriesAt(0)
  BY <1>2, <1>3
<1>5. 0 \in 0..h /\ 0 + 1 \in 0..(h + 1)
  OBVIOUS
<1>6. NElements(0) = NElements(0 + 1) * 1 /\ NElements(0 + 1) \in Nat
  BY <1>1, <1>5, LevelSizes
<1> QED
  BY <1>4, <1>6

LEMMA StartTreeKeepsDecommit ==
  ASSUME CommitmentInv, DecommitInv, StartTree
  PROVE  DecommitInv'
<1>1. /\ at = "packages" /\ level = TreeLevel /\ at' = IF given = <<>> THEN "tree" ELSE "failed"
      /\ queue' = TreeQueue /\ notes' = notes
      /\ shape' = shape /\ nodes' = nodes /\ sent' = sent /\ queries' = queries
  BY DEF StartTree, building, proving
<1>2. ValidQueries /\ RightSent /\ GivenRight /\ notes = <<>>
  BY <1>1 DEF DecommitInv, Decommitting, Verifying
<1>3. GivenInv /\ shape \in Shapes /\ Builds(NSegments)
  BY <1>1 DEF CommitmentInv, Decommitting
<1>4. PICK w, h, s, i \in Nat : Sizes(w, h, s, i)
  BY <1>3, SizesAre
<1>5. at' = "tree"
  <2>1. Len(given) = 0 /\ IsList(given)
    BY <1>1, <1>3, <1>4, AsksAre, EmptyList DEF GivenInv
  <2> QED BY <1>1, <2>1, NothingInList
<1>6. PICK k \in (i + 1)..(h + 1) : /\ NElements(k) = NSegments /\ QueriesAt(k) = QueriesAt(TreeLevel)
                                   /\ SentBefore(k) = SentBefore(TreeLevel)
  <2>1. i + 1 \in (i + 1)..(h + 1) /\ NElements(i + 1) = NSegments
    BY <1>4, TreeSizes
  <2>2. CASE shape.plain
    <3>1. TreeLevel = 0 /\ i = 0
      BY <1>4, <2>2 DEF TreeLevel, Sizes
    <3>2. SentBefore(0) = 1 /\ SentBefore(0 + 1) = 1
      BY <1>2, <1>4, <2>2, SentBeforeIs DEF ValidQueries
    <3>3. QueriesAt(0 + 1) = QueriesAt(0)
      BY <1>2, <1>4, <2>2, PlainQueries
    <3> QED BY <2>1, <3>1, <3>2, <3>3
  <2>3. CASE ~shape.plain
    <3>1. TreeLevel = i + 1
      BY <1>4, <2>3 DEF TreeLevel, Sizes
    <3> QED BY <2>1, <3>1
  <2> QED BY <2>2, <2>3
<1>7. PICK list : list = TreeQueue
  OBVIOUS
<1>8. list = [x \in DOMAIN Ascending(QueriesAt(k), NElements(k)) |->
                NElements(k) + Ascending(QueriesAt(k), NElements(k))[x]]
  BY <1>6, <1>7 DEF TreeQueue
<1>9. Walk(list, SentBefore(k))
  BY <1>2, <1>4, <1>8, WalkStarts
<1>10. Walk(list, Len(sent))
  BY <1>1, <1>2, <1>6, <1>9 DEF GivenRight
<1>11. Walk(queue, Len(sent))'
  BY <1>1, <1>7, <1>10, DecommitStays
<1>12. RightSent' /\ ValidQueries'
  BY <1>1, <1>2, SentStays, DecommitStays
<1> QED
  BY <1>1, <1>2, <1>5, <1>11, <1>12 DEF DecommitInv, Decommitting, Verifying

LEMMA IsSentStays ==
  ASSUME shape' = shape, queries' = queries, nodes' = nodes
  PROVE  \A list : IsSent(list)' <=> IsSent(list)
<1>1. /\ Height' = Height
      /\ \A k : Missing(k)' = Missing(k) /\ SentBefore(k)' = SentBefore(k)
      /\ \A k, j : Label(k, j)' = Label(k, j) /\ Value(k, j)' = Value(k, j)
  BY SizesStay, RequestsStay, DecommitStays
<1> QED
  BY <1>1 DEF IsSent

(* The sibling that a step of a tree sends or reads is the missing element *)
(* whose turn it is.                                                       *)
LEMMA SiblingIsMissing ==
  ASSUME CommitmentInv, at \in Decommitting,
         NEW w \in Nat, NEW h \in Nat, NEW s \in Nat, NEW i \in Nat, Sizes(w, h, s, i), ValidQueries,
         NEW k \in (i + 1)..h, NEW y \in 1..Len(Missing(k)), NEW sibling,
         sibling = NElements(k) + Missing(k)[y]
  PROVE  /\ Label(k, Missing(k)[y]) = <<"node", sibling>>
         /\ Value(k, Missing(k)[y]) = nodes[sibling]
<1>1. k # 0 /\ k \in 0..(h + 1) /\ k \in (i + 1)..(h + 1)
  OBVIOUS
<1>2. Missing(k)[y] \in 0..(NElements(k) - 1)
  <2>1. /\ MissingSet(k) \in SUBSET (0..(NElements(k) - 1))
        /\ \A x \in 1..Len(Missing(k)) : Missing(k)[x] \in MissingSet(k)
    BY <1>1, MissingAre DEF ValidQueries
  <2> QED BY <2>1
<1>3. Label(k, Missing(k)[y]) = <<"node", sibling>>
  BY <1>1 DEF Label
<1>4. nodes[NElements(k) + Missing(k)[y]] = Value(k, Missing(k)[y])
  BY <1>1, <1>2, NodesHaveValues
<1> QED
  BY <1>3, <1>4

LEMMA TreeStepKeepsDecommit ==
  ASSUME CommitmentInv, DecommitInv, TreeStep
  PROVE  DecommitInv'
<1> DEFINE node == Head(queue)
           rest == Append(Tail(queue), node \div 2)
<1>1. /\ at = "tree" /\ at' = at /\ node # 1
      /\ IF SiblingIsNext(rest, node)
         THEN queue' = Tail(rest) /\ UNCHANGED sent
         ELSE /\ queue' = rest
              /\ sent' = Append(sent, << <<"node", Sibling(node)>>, nodes[Sibling(node)] >>)
      /\ shape' = shape /\ nodes' = nodes /\ queries' = queries /\ notes' = notes
  BY DEF TreeStep, building
<1>2. ValidQueries /\ RightSent /\ Walk(queue, Len(sent)) /\ notes = <<>> /\ at \in Decommitting
  BY <1>1 DEF DecommitInv, Decommitting, Verifying
<1>3. CommittedInv /\ shape \in Shapes /\ Builds(NSegments)
  BY <1>1 DEF CommitmentInv, Decommitting
<1>4. PICK w, h, s, i \in Nat : Sizes(w, h, s, i)
  BY <1>3, SizesAre
<1>5. PICK done : done = Len(sent) /\ Walk(queue, done)
  BY <1>2
<1>6. IsList(queue) /\ Len(queue) \in Nat \ {0} /\ done \in Nat
  BY <1>2, <1>4, <1>5, WalkGoesOn
<1>7. node = queue[1]
  <2>1. Len(queue) # 0
    BY <1>6
  <2> QED BY <1>6, <2>1, TailIs
<1>8. Steps(queue, done, i, h)
  BY <1>1, <1>2, <1>4, <1>5, <1>7, WalkGoesOn
<1> HIDE DEF node
<1>9. PICK c \in {1, 2} :
        /\ node \in 2..(2 * NSegments - 1) /\ node \div 2 \in 1..(NSegments - 1)
        /\ Len(queue) >= c
        /\ c = 2 => queue[2] = Sibling(node)
        /\ c = 1 => /\ ~(Len(queue) >= 2 /\ queue[2] = Sibling(node))
                    /\ \E k \in (i + 1)..h : \E y \in 1..Len(Missing(k)) :
                         done + 1 = SentBefore(k) + y /\ Sibling(node) = NElements(k) + Missing(k)[y]
        /\ \A left : Moves(queue, left, c, node \div 2) => Walk(left, done + 2 - c)
  BY <1>7, <1>8 DEF Steps
<1>10. Moves(queue, rest, 1, node \div 2) /\ Head(rest) = IF Len(queue) = 1 THEN node \div 2 ELSE queue[2]
  BY <1>6, OneMoves
<1>11. SiblingIsNext(rest, node) <=> c = 2
  <2>1. CASE c = 2
    BY <1>9, <1>10, <2>1 DEF SiblingIsNext
  <2>2. CASE c = 1 /\ Len(queue) = 1
    <3>1. node \div 2 # Sibling(node)
      <4>1. PICK n \in Nat : n = node /\ n >= 2
        <5>1. node \in Nat /\ node >= 2
          BY <1>3, <1>9, SegmentsAre
        <5> QED BY <5>1
      <4>2. n \div 2 # n + 1 /\ (n % 2 # 0 => n \div 2 # n - 1)
        BY <4>1
      <4> QED BY <4>1, <4>2 DEF Sibling
    <3> QED BY <1>10, <2>2, <3>1 DEF SiblingIsNext
  <2>3. CASE c = 1 /\ Len(queue) # 1
    <3>1. PICK n \in Nat \ {0} : n = Len(queue) /\ n # 1
      BY <1>6, <2>3
    <3>2. Len(queue) >= 2
      BY <3>1
    <3> QED BY <1>9, <1>10, <2>3, <3>2 DEF SiblingIsNext
  <2> QED BY <2>1, <2>2, <2>3
<1> HIDE DEF rest
<1>12. IsSent(sent') /\ Walk(queue', Len(sent'))
  <2>1. CASE c = 2
    <3>1. queue' = Tail(rest) /\ sent' = sent
      BY <1>1, <1>11, <2>1
    <3>2. Moves(queue, Tail(rest), 2, node \div 2)
      <4>1. Len(queue) \in Nat /\ Len(queue) >= 2
        BY <1>6, <1>9, <2>1
      <4> QED BY <1>6, <4>1, TwoMove DEF rest
    <3>3. done + 2 - 2 = done
      BY <1>6
    <3>4. Walk(Tail(rest), done)
      BY <1>9, <2>1, <3>2, <3>3
    <3> QED BY <1>2, <1>5, <3>1, <3>4 DEF RightSent
  <2>2. CASE c = 1
    <3>1. queue' = rest /\ sent' = Append(sent, << <<"node", Sibling(node)>>, nodes[Sibling(node)] >>)
      BY <1>1, <1>11, <2>2
    <3>2. Walk(rest, done + 1)
      <4>1. done + 2 - 1 = done + 1
        BY <1>6
      <4> QED BY <1>9, <1>10, <2>2, <4>1
    <3>3. PICK k \in (i + 1)..h : \E y \in 1..Len(Missing(k)) :
            done + 1 = SentBefore(k) + y /\ Sibling(node) = NElements(k) + Missing(k)[y]
      BY <1>9, <2>2
    <3>4. PICK y \in 1..Len(Missing(k)) :
            done + 1 = SentBefore(k) + y /\ Sibling(node) = NElements(k) + Missing(k)[y]
      BY <3>3
    <3>5. PICK e : e = << <<"node", Sibling(node)>>, nodes[Sibling(node)] >>
                   /\ e = <<Label(k, Missing(k)[y]), Value(k, Missing(k)[y])>>
      <4>1. /\ Label(k, Missing(k)[y]) = <<"node", Sibling(node)>>
            /\ Value(k, Missing(k)[y]) = nodes[Sibling(node)]
        BY <1>2, <1>4, <3>4, SiblingIsMissing
      <4> QED BY <4>1
    <3>6. PICK more : /\ more = Append(sent, e) /\ Len(more) = done + 1
                      /\ \A x \in 1..done : more[x] = sent[x]
                      /\ more[done + 1] = e
      <4>1. IsList(sent)
        BY <1>3 DEF CommittedInv
      <4>2. /\ Len(Append(sent, e)) = Len(sent) + 1
            /\ \A x \in 1..Len(sent) : Append(sent, e)[x] = sent[x]
            /\ Append(sent, e)[Len(sent) + 1] = e
        BY <4>1, AppendIs
      <4> QED BY <1>5, <4>2
    <3>7. k \in 0..h /\ y \in 0..Len(Missing(k))
      BY <3>3
    <3>8. PICK a \in Nat : a = SentBefore(k) /\ done + 1 = a + y
      <4>1. k \in 0..(h + 1)
        BY <3>3
      <4> QED BY <1>2, <1>4, <3>4, <4>1, SentBeforeIs DEF ValidQueries
    <3>9. SentSoFar(more, k, y)
      <4>1. a <= done
        BY <1>6, <3>4, <3>8
      <4>2. ASSUME NEW z \in 1..y, done < a + z
            PROVE  more[a + z] = <<Label(k, Missing(k)[z]), Value(k, Missing(k)[z])>>
        <5>1. z = y
          BY <1>6, <3>4, <3>8, <4>2
        <5> QED BY <3>5, <3>6, <3>8, <5>1
      <4> QED BY <1>5, <1>6, <3>6, <3>8, <4>1, <4>2 DEF SentSoFar
    <3>10. IsSent(more)
      BY <1>2, <1>4, <3>7, <3>9, SentOn
    <3> QED BY <3>1, <3>2, <3>5, <3>6, <3>10
  <2> QED BY <1>9, <2>1, <2>2
<1>13. RightSent'
  BY <1>1, <1>12, IsSentStays DEF RightSent
<1>14. Walk(queue, Len(sent))' /\ ValidQueries'
  BY <1>1, <1>2, <1>12, DecommitStays
<1> QED
  BY <1>1, <1>2, <1>13, <1>14 DEF DecommitInv, Decommitting, Verifying

-----------------------------------------------------------------------------
(* The verifier. *)

LEMMA HandOverKeepsDecommit ==
  ASSUME CommitmentInv, DecommitInv, HandOver
  PROVE  DecommitInv'
<1> DEFINE honest == [q \in queries |-> Row(q)]
<1>1. /\ at = "tree" /\ Head(queue) = 1 /\ at' = "reads" /\ level' = 0
      /\ \/ claimed' = honest /\ proof' = Contents(sent)
         \/ proof' = Contents(sent) /\ \E q \in queries : claimed' = [honest EXCEPT ![q] = Altered]
         \/ claimed' = honest /\ \E x \in DOMAIN sent : proof' = [Contents(sent) EXCEPT ![x] = Altered]
      /\ known' = claimed' /\ notes' = << <<"root">> >>
      /\ shape' = shape /\ nodes' = nodes /\ sent' = sent /\ queries' = queries
  BY DEF HandOver, building, proving
<1>2. ValidQueries /\ RightSent /\ Walk(queue, Len(sent))
  BY <1>1 DEF DecommitInv, Decommitting
<1>3. CommittedInv /\ shape \in Shapes /\ Builds(NSegments)
  BY <1>1 DEF CommitmentInv, Decommitting
<1>4. PICK w, h, s, i \in Nat : Sizes(w, h, s, i)
  BY <1>3, SizesAre
<1>5. PICK a \in Nat : /\ a = Len(sent) /\ a = SentBefore(h + 1) /\ a >= 1 /\ DOMAIN sent = 1..a
                       /\ sent[1] = << <<"root">>, nodes[1] >>
  <2>1. IsList(sent) /\ Len(sent) >= 1 /\ sent[1] = << <<"root">>, nodes[1] >>
    BY <1>3 DEF CommittedInv
  <2>2. IsList(queue) /\ Len(queue) \in Nat \ {0}
    BY <1>2, <1>4, WalkGoesOn
  <2>3. queue[1] = 1
    <3>1. Len(queue) # 0
      BY <2>2
    <3> QED BY <1>1, <2>2, <3>1, TailIs
  <2>4. Len(sent) = SentBefore(h + 1)
    BY <1>2, <1>4, <2>3, WalkGoesOn
  <2> QED BY <2>1, <2>4, ListProperties
<1>6. PICK contents : contents = Contents(sent) /\ contents = [x \in 1..a |-> sent[x][2]]
  BY <1>5 DEF Contents
<1>7. PICK p : /\ p = proof' /\ IsList(p) /\ Len(p) = a
               /\ p[1] = sent[1][2] \/ (claimed' = honest /\ \A x \in 2..a : p[x] = sent[x][2])
  <2>1. PICK p : p = proof'
    OBVIOUS
  <2>2. CASE p = contents
    <3>1. p = [x \in 1..a |-> p[x]] /\ p[1] = sent[1][2]
      BY <1>5, <1>6, <2>2
    <3> QED BY <2>1, <3>1, IndexedIsList
  <2>3. CASE p # contents
    <3>1. PICK x \in 1..a : p = [contents EXCEPT ![x] = Altered] /\ claimed' = honest
      BY <1>1, <1>5, <1>6, <2>1, <2>3
    <3>2. p = [z \in 1..a |-> p[z]] /\ \A z \in 1..a : z # x => p[z] = sent[z][2]
      BY <1>6, <3>1
    <3>3. p[1] = sent[1][2] \/ \A z \in 2..a : p[z] = sent[z][2]
      <4>1. CASE x = 1
        BY <3>2, <4>1
      <4>2. CASE x # 1
        BY <1>5, <3>2, <4>2
      <4> QED BY <4>1, <4>2
    <3> QED BY <2>1, <3>1, <3>2, <3>3, IndexedIsList
  <2> QED BY <2>2, <2>3
<1>8. DOMAIN claimed' = queries
  BY <1>1
<1>9. notes' = << <<"root">> >> /\ IsList(notes') /\ Len(notes') = 1 /\ notes'[1] = <<"root">>
  <2>1. PICK n : n = << <<"root">> >> /\ IsList(n) /\ Len(n) = 1 /\ n[1] = <<"root">>
    BY OneElement
  <2>2. n = notes'
    BY <1>1, <2>1
  <2> QED BY <2>1, <2>2 DEF IsList
<1>10. Height' = Height /\ Height = h /\ VTreeLevel' = VTreeLevel /\ VTreeLevel \in Nat
       /\ (\A k : SentBefore(k)' = SentBefore(k)) /\ (\A k : QueriesAt(k)' = QueriesAt(k))
       /\ \A k, j : Element(k, j)' = Element(k, j)
  <2>1. Height = h /\ VTreeLevel \in Nat
    BY <1>4 DEF Sizes, VTreeLevel
  <2> QED BY <1>1, <2>1, SizesStay, DecommitStays, RequestsStay, TableStays
<1>11. ASSUME claimed' = honest PROVE RightRows'
  BY <1>1, <1>11 DEF RightRows, Row
<1>12. proof'[1] = sent'[1][2] \/ Intact(Len(sent))'
  <2>1. CASE p[1] = sent[1][2]
    BY <1>1, <1>7, <2>1
  <2>2. CASE claimed' = honest /\ \A x \in 2..a : p[x] = sent[x][2]
    <3>1. RightRows'
      BY <1>11, <2>2
    <3>2. \A x \in 2..Len(sent') : proof'[x] = sent'[x][2]
      BY <1>1, <1>5, <1>7, <2>2
    <3> QED BY <3>1, <3>2 DEF Intact
  <2> QED BY <1>7, <2>1, <2>2
<1>13. ProofInv'
  <2>1. Len(sent') = SentBefore(Height + 1)'
    BY <1>1, <1>5, <1>10
  <2>2. IsList(proof') /\ Len(proof') = Len(sent')
    BY <1>1, <1>5, <1>7
  <2>3. \A x \in 1..Len(notes') : notes'[x] = sent'[x][1]
    BY <1>1, <1>5, <1>9
  <2>4. Len(notes') \in 1..Len(sent')
    BY <1>1, <1>5, <1>9
  <2> QED BY <1>9, <1>12, <2>1, <2>2, <2>3, <2>4 DEF ProofInv, IsList
<1>14. ReadsInv'
  <2>1. SentBefore(0) = 1
    BY <1>2, <1>4, SentBeforeIs DEF ValidQueries
  <2>2. QueriesAt(0) = queries
    BY DEF QueriesAt
  <2>3. \A q \in queries : Element(0, q) = Row(q)
    BY <1>2, <1>3, <1>4, ElementsAre DEF ValidQueries
  <2>4. Intact(1)' <=> \A q \in queries : claimed'[q] = Row(q)
    <3>1. 2..1 = {}
      OBVIOUS
    <3> QED BY <1>1, <3>1 DEF Intact, RightRows, Row
  <2>5. Intact(Len(notes))' <=> \A e \in QueriesAt(0) : known'[e] = Element(0, e)
    BY <1>1, <1>9, <2>2, <2>3, <2>4
  <2> QED BY <1>1, <1>8, <1>9, <1>10, <2>1, <2>2, <2>5 DEF ReadsInv
<1>15. RightSent' /\ ValidQueries'
  BY <1>1, <1>2, SentStays, DecommitStays
<1> QED
  BY <1>1, <1>13, <1>14, <1>15 DEF DecommitInv, Decommitting, Verifying

LEMMA VerifyLevelKeepsDecommit ==
  ASSUME CommitmentInv, DecommitInv, VerifyLevel
  PROVE  DecommitInv'
<1> DEFINE size == PackSize(level)
           missing == Required(DOMAIN known, size, NElements(level))
           n == Len(missing)
           full == [e \in DOMAIN known \union Range(missing) |->
                      IF e \in DOMAIN known THEN known[e]
                      ELSE proof[Len(notes) + (CHOOSE x \in 1..n : missing[x] = e)]]
           hashed == [p \in {e \div size : e \in DOMAIN full} |->
                        Hash(VHash(level), [j \in 1..size |-> full[p * size + j - 1]])]
           labels == [x \in 1..n |-> Label(level, missing[x])]
<1>1. /\ at = "reads" /\ level < VTreeLevel
      /\ IF Len(notes) + n > Len(proof) THEN at' = "rejected" /\ UNCHANGED <<known, notes, level>>
         ELSE notes' = notes \o labels /\ known' = hashed /\ level' = level + 1 /\ at' = at
      /\ shape' = shape /\ nodes' = nodes /\ sent' = sent /\ queries' = queries
      /\ claimed' = claimed /\ proof' = proof
  BY DEF VerifyLevel, building, proving
<1>2. ValidQueries /\ RightSent /\ ProofInv /\ ReadsInv
  BY <1>1 DEF DecommitInv, Decommitting, Verifying
<1>3. CommittedInv /\ shape \in Shapes /\ Builds(NSegments)
  BY <1>1 DEF CommitmentInv, Decommitting
<1>4. PICK w, h, s, i \in Nat : Sizes(w, h, s, i)
  BY <1>3, SizesAre
<1>5. PICK k \in Nat : /\ k = level /\ k \in 0..h /\ k \in 0..(h + 1) /\ k + 1 \in 0..(h + 1) /\ Height = h
                       /\ ~shape.plain /\ k + 1 \in 0..VTreeLevel
  <2>1. level \in 0..VTreeLevel
    BY <1>2 DEF ReadsInv
  <2>2. Height = h
    BY <1>4 DEF Sizes
  <2>3. ~shape.plain
    BY <1>1, <2>1 DEF VTreeLevel
  <2>4. VTreeLevel = h + 1
    BY <2>2, <2>3 DEF VTreeLevel
  <2> QED BY <1>1, <2>1, <2>2, <2>3, <2>4
<1>6. DOMAIN known = QueriesAt(k)
  BY <1>2, <1>5 DEF ReadsInv
<1>7. missing = Missing(k)
  BY <1>5, <1>6 DEF Missing
<1> HIDE DEF missing
<1>8. /\ IsList(missing) /\ n \in Nat
      /\ MissingSet(k) \in SUBSET (0..(NElements(k) - 1))
      /\ \A x \in 1..n : missing[x] \in MissingSet(k)
      /\ \A x, y \in 1..n : x < y => missing[x] < missing[y]
      /\ \A e \in MissingSet(k) : \E x \in 1..n : missing[x] = e
  <2>1. queries \in SUBSET (0..(NElements(0) - 1))
    BY <1>2 DEF ValidQueries
  <2>2. /\ IsList(Missing(k)) /\ Len(Missing(k)) \in Nat
        /\ MissingSet(k) \in SUBSET (0..(NElements(k) - 1))
        /\ \A x \in 1..Len(Missing(k)) : Missing(k)[x] \in MissingSet(k)
        /\ \A x, y \in 1..Len(Missing(k)) : x < y => Missing(k)[x] < Missing(k)[y]
        /\ \A e \in MissingSet(k) : \E x \in 1..Len(Missing(k)) : Missing(k)[x] = e
    <3>1. k \in 0..(h + 1)
      BY <1>5
    <3> QED BY <1>4, <2>1, <3>1, MissingAre
  <2> QED BY <1>7, <2>2
<1>9. PICK a \in Nat : a = Len(notes) /\ a = SentBefore(k) /\ SentBefore(k + 1) = a + n /\ a >= 1
                       /\ a + n <= Len(sent) /\ Len(proof) = Len(sent) /\ Len(sent) \in Nat
  <2>1. SentBefore(k) \in Nat /\ SentBefore(k) >= 1 /\ SentBefore(k + 1) <= SentBefore(h + 1)
        /\ SentBefore(h + 1) \in Nat
    <3>1. h + 1 \in 0..(h + 1)
      OBVIOUS
    <3> QED BY <1>2, <1>4, <1>5, <3>1, SentBeforeIs DEF ValidQueries
  <2>2. SentBefore(k + 1) = SentBefore(k) + n
    BY <1>2, <1>4, <1>5, <1>7, SentBeforeIs DEF ValidQueries
  <2>3. Len(notes) = SentBefore(k) /\ Len(sent) = SentBefore(h + 1) /\ Len(proof) = Len(sent)
    BY <1>2, <1>5 DEF ReadsInv, ProofInv
  <2> QED BY <2>1, <2>2, <2>3
<1>10. notes' = notes \o labels /\ known' = hashed /\ level' = k + 1 /\ at' = at
  <2>1. ~(Len(notes) + n > Len(proof))
    BY <1>8, <1>9
  <2> QED BY <1>1, <1>5, <2>1
<1>11. PICK m \in Nat, sz \in Nat \ {0} : m = NElements(k + 1) /\ sz = PackSize(k) /\ sz = size
                                         /\ NElements(k) = m * sz
  <2>1. NElements(k + 1) \in Nat /\ PackSize(k) \in Nat \ {0} /\ NElements(k) = NElements(k + 1) * PackSize(k)
    BY <1>4, <1>5, LevelSizes
  <2> QED BY <1>5, <2>1
<1>12. /\ QueriesAt(k) \in SUBSET (0..(m * sz - 1)) /\ QueriesAt(k + 1) \in SUBSET (0..(m - 1))
       /\ QueriesAt(k + 1) = {e \div sz : e \in QueriesAt(k)}
       /\ MissingSet(k) = {e \in 0..(m * sz - 1) : e \div sz \in QueriesAt(k + 1)} \ QueriesAt(k)
  <2>1. queries \in SUBSET (0..(NElements(0) - 1))
    BY <1>2 DEF ValidQueries
  <2>2. /\ QueriesAt(k) \in SUBSET (0..(NElements(k) - 1))
        /\ QueriesAt(k + 1) \in SUBSET (0..(NElements(k + 1) - 1))
        /\ QueriesAt(k + 1) = {e \div PackSize(k) : e \in QueriesAt(k)}
    BY ONLY <1>4, <1>5, <2>1, QueriesRise
  <2>3. NElements(k) = m * sz /\ PackSize(k) = sz /\ NElements(k + 1) = m
    BY <1>11
  <2>4. MissingSet(k) = {e \in 0..(m * sz - 1) : e \div sz \in QueriesAt(k + 1)} \ QueriesAt(k)
    BY <2>3 DEF MissingSet
  <2> QED BY <2>2, <2>3, <2>4
<1>13. PICK F : F = full
  OBVIOUS
<1>14. /\ DOMAIN F = QueriesAt(k) \cup MissingSet(k)
       /\ \A e \in QueriesAt(k) : F[e] = known[e]
       /\ \A y \in 1..n : F[missing[y]] = proof[a + y]
  <2>1. Range(missing) = MissingSet(k)
    <3>1. DOMAIN missing = 1..n
      BY <1>8, ListProperties
    <3> QED BY <1>8, <3>1 DEF Range
  <2>2. DOMAIN F = QueriesAt(k) \cup MissingSet(k)
    BY <1>6, <1>13, <2>1
  <2>3. \A e \in QueriesAt(k) : F[e] = known[e]
    BY <1>6, <1>13
  <2>4. ASSUME NEW y \in 1..n PROVE F[missing[y]] = proof[a + y]
    <3>1. missing[y] \in MissingSet(k) /\ missing[y] \notin QueriesAt(k)
      BY <1>8, <1>12
    <3>2. PICK e : e = missing[y]
      OBVIOUS
    <3>3. F[e] = proof[a + (CHOOSE x \in 1..n : missing[x] = e)]
      BY <1>6, <1>9, <1>13, <2>1, <3>1, <3>2
    <3>4. \A x \in 1..n : missing[x] = e => x = y
      <4>1. TAKE x \in 1..n
      <4>2. missing[x] \in Nat /\ missing[y] \in Nat
        BY <1>8, <1>11, <1>12
      <4> QED BY <1>8, <3>2, <4>2
    <3>5. (CHOOSE x \in 1..n : missing[x] = e) = y
      BY <3>2, <3>4
    <3> QED BY <3>2, <3>3, <3>5
  <2> QED BY <2>2, <2>3, <2>4
<1>15. DOMAIN known' = QueriesAt(k + 1)
       /\ \A p \in QueriesAt(k + 1) : known'[p] = Hash(VHash(k), [j \in 1..sz |-> F[p * sz + j - 1]])
  <2>1. {e \div sz : e \in DOMAIN F} = QueriesAt(k + 1)
    BY <1>12, <1>14
  <2>2. known' = [p \in QueriesAt(k + 1) |-> Hash(VHash(k), [j \in 1..sz |-> F[p * sz + j - 1]])]
    BY <1>5, <1>10, <1>11, <1>13, <2>1
  <2> QED BY <2>2
<1> HIDE DEF full, hashed
<1>16. ASSUME NEW y \in 1..n
       PROVE  sent[a + y][1] = Label(k, missing[y]) /\ sent[a + y][2] = Element(k, missing[y])
  <2>1. a + y <= Len(sent)
    BY <1>8, <1>9
  <2>2. sent[SentBefore(k) + y] = <<Label(k, Missing(k)[y]), Value(k, Missing(k)[y])>>
    BY <1>2, <1>5, <1>7, <1>9, <2>1 DEF RightSent, IsSent
  <2> QED BY <1>5, <1>7, <1>9, <2>2 DEF Value
<1>17. Intact(a + n) <=> Intact(a) /\ \A y \in 1..n : proof[a + y] = Element(k, missing[y])
  <2>1. ASSUME Intact(a + n), NEW y \in 1..n PROVE proof[a + y] = Element(k, missing[y])
    <3>1. a + y \in 2..(a + n)
      BY <1>8, <1>9
    <3> QED BY <1>16, <2>1, <3>1 DEF Intact
  <2>2. ASSUME Intact(a + n) PROVE Intact(a)
    <3>1. \A x \in 2..a : x \in 2..(a + n)
      BY <1>8
    <3> QED BY <2>2, <3>1 DEF Intact
  <2>3. ASSUME Intact(a), \A y \in 1..n : proof[a + y] = Element(k, missing[y]) PROVE Intact(a + n)
    <3>1. ASSUME NEW x \in 2..(a + n) PROVE proof[x] = sent[x][2]
      <4>1. CASE x <= a
        <5>1. x \in 2..a
          BY <4>1
        <5> QED BY <2>3, <5>1 DEF Intact
      <4>2. CASE ~(x <= a)
        <5>1. x - a \in 1..n /\ a + (x - a) = x
          BY <1>8, <4>2
        <5> QED BY <1>16, <2>3, <5>1
      <4> QED BY <4>1, <4>2
    <3> QED BY <2>3, <3>1 DEF Intact
  <2> QED BY <2>1, <2>2, <2>3
<1>18. Intact(a) <=> \A e \in QueriesAt(k) : known[e] = Element(k, e)
  BY <1>2, <1>5, <1>9 DEF ReadsInv
<1>19. Intact(a + n) <=> \A e \in DOMAIN F : F[e] = Element(k, e)
  <2>1. (\A e \in MissingSet(k) : F[e] = Element(k, e)) <=> \A y \in 1..n : proof[a + y] = Element(k, missing[y])
    <3>1. \A y \in 1..n : missing[y] \in MissingSet(k) /\ F[missing[y]] = proof[a + y]
      BY <1>8, <1>14
    <3>2. \A e \in MissingSet(k) : \E y \in 1..n : missing[y] = e
      BY <1>8
    <3> QED BY <3>1, <3>2
  <2>2. (\A e \in QueriesAt(k) : F[e] = Element(k, e)) <=> \A e \in QueriesAt(k) : known[e] = Element(k, e)
    BY <1>14
  <2> QED BY <1>14, <1>17, <1>18, <2>1, <2>2
<1>20. ASSUME NEW p \in QueriesAt(k + 1)
       PROVE  known'[p] = Element(k + 1, p) <=> \A j \in 1..sz : F[p * sz + j - 1] = Element(k, p * sz + j - 1)
  <2>1. Element(k + 1, p) = Hash(VHash(k), Children(k, p))
    <3>1. k \in 0..h /\ p \in 0..(NElements(k + 1) - 1)
      BY <1>5, <1>11, <1>12
    <3>2. \A l \in 0..h : \A j \in 0..(NElements(l + 1) - 1) : Element(l + 1, j) = Hash(VHash(l), Children(l, j))
      BY <1>3, <1>4, <1>5, ElementsAre
    <3> QED BY <3>1, <3>2
  <2>2. Children(k, p) = [j \in 1..sz |-> Element(k, p * sz + j - 1)]
    BY <1>11 DEF Children
  <2>3. known'[p] = Hash(VHash(k), [j \in 1..sz |-> F[p * sz + j - 1]])
    BY <1>15
  <2>4. PICK c, d : c = [j \in 1..sz |-> F[p * sz + j - 1]] /\ d = [j \in 1..sz |-> Element(k, p * sz + j - 1)]
    OBVIOUS
  <2>5. c = d <=> \A j \in 1..sz : F[p * sz + j - 1] = Element(k, p * sz + j - 1)
    <3>1. c = d => \A j \in 1..sz : c[j] = d[j]
      OBVIOUS
    <3>2. (\A j \in 1..sz : F[p * sz + j - 1] = Element(k, p * sz + j - 1)) => c = d
      BY <2>4
    <3> QED BY <2>4, <3>1, <3>2
  <2>6. Hash(VHash(k), c) = Hash(VHash(k), d) <=> c = d
    BY DEF Hash
  <2> QED BY <2>1, <2>2, <2>3, <2>4, <2>5, <2>6
<1>21. (\A e \in DOMAIN F : F[e] = Element(k, e)) <=>
         \A p \in QueriesAt(k + 1) : \A j \in 1..sz : F[p * sz + j - 1] = Element(k, p * sz + j - 1)
  <2>1. ASSUME NEW e \in DOMAIN F
        PROVE  \E p \in QueriesAt(k + 1) : \E j \in 1..sz : e = p * sz + j - 1
    <3>1. e \in 0..(m * sz - 1) /\ e \div sz \in QueriesAt(k + 1)
      BY <1>12, <1>14
    <3>2. e % sz \in 0..(sz - 1) /\ e = (e \div sz) * sz + (e % sz)
      BY <3>1, DividedInto
    <3>3. PICK p \in Nat : p = e \div sz
      BY <1>12, <3>1
    <3>4. PICK r \in 0..(sz - 1) : r = e % sz
      BY <3>2
    <3>5. PICK b \in Nat : b = p * sz
      OBVIOUS
    <3>6. r + 1 \in 1..sz /\ e = b + (r + 1) - 1
      <4>1. e = b + r
        BY <3>2, <3>3, <3>4, <3>5
      <4> QED BY ONLY <3>4, <3>5, <4>1
    <3> QED BY <3>1, <3>3, <3>5, <3>6
  <2>2. ASSUME NEW p \in QueriesAt(k + 1), NEW j \in 1..sz PROVE p * sz + j - 1 \in DOMAIN F
    <3>1. p \in 0..(m - 1) /\ j - 1 \in 0..(sz - 1) /\ p \in Nat
      BY <1>12
    <3>2. p * sz + (j - 1) \in 0..(m * sz - 1) /\ (p * sz + (j - 1)) \div sz = p
      BY <3>1, InPart
    <3>3. p * sz + j - 1 = p * sz + (j - 1)
      <4>1. PICK b \in Nat : b = p * sz
        BY <3>1
      <4> QED BY <4>1
    <3> QED BY <1>12, <1>14, <3>2, <3>3
  <2> QED BY <2>1, <2>2
<1>22. Intact(a + n) <=> \A p \in QueriesAt(k + 1) : known'[p] = Element(k + 1, p)
  BY <1>19, <1>20, <1>21
<1>23. /\ IsList(notes') /\ Len(notes') = a + n
       /\ \A x \in 1..(a + n) : notes'[x] = sent[x][1]
  <2>1. PICK l : l = labels /\ IsList(l) /\ Len(l) = n /\ \A y \in 1..n : l[y] = Label(k, missing[y])
    <3>1. PICK l : l = labels /\ l = [x \in 1..n |-> Label(k, missing[x])]
      BY <1>5
    <3>2. l = [x \in 1..n |-> l[x]] /\ \A y \in 1..n : l[y] = Label(k, missing[y])
      BY <3>1
    <3> QED BY <1>8, <3>1, <3>2, IndexedIsList
  <2>2. IsList(notes) /\ \A x \in 1..a : notes[x] = sent[x][1]
    BY <1>2, <1>9 DEF ProofInv
  <2>3. PICK more : more = notes \o l
    OBVIOUS
  <2>4. /\ IsList(more) /\ Len(more) = a + n
        /\ \A x \in 1..a : more[x] = notes[x]
        /\ \A y \in 1..n : more[a + y] = l[y]
    <3>1. IsList(notes) /\ IsList(l)
      BY <2>1, <2>2
    <3>2. /\ IsList(notes \o l) /\ Len(notes \o l) = Len(notes) + Len(l)
          /\ \A x \in 1..Len(notes) : (notes \o l)[x] = notes[x]
          /\ \A x \in 1..Len(l) : (notes \o l)[Len(notes) + x] = l[x]
      BY ONLY <3>1, Joined
    <3> QED BY <1>9, <2>1, <2>3, <3>2
  <2>5. ASSUME NEW x \in 1..(a + n) PROVE more[x] = sent[x][1]
    <3>1. CASE x <= a
      BY <2>2, <2>4, <3>1
    <3>2. CASE ~(x <= a)
      <4>1. PICK y \in 1..n : x = a + y
        <5>1. x - a \in 1..n /\ x = a + (x - a)
          BY <1>8, <3>2
        <5> QED BY <5>1
      <4>2. more[a + y] = l[y] /\ l[y] = Label(k, missing[y]) /\ sent[a + y][1] = Label(k, missing[y])
        BY <1>16, <2>1, <2>4
      <4> QED BY <4>1, <4>2
    <3> QED BY <3>1, <3>2
  <2>6. notes' = more
    BY <1>10, <2>1, <2>3
  <2> QED BY <2>4, <2>5, <2>6 DEF IsList
<1>24. /\ Height' = Height /\ VTreeLevel' = VTreeLevel /\ (\A l : SentBefore(l)' = SentBefore(l))
       /\ (\A l : QueriesAt(l)' = QueriesAt(l)) /\ \A l, j : Element(l, j)' = Element(l, j)
       /\ \A l : Intact(l)' <=> Intact(l)
  BY <1>1, SizesStay, DecommitStays, RequestsStay, TableStays, IntactStays
<1>25. ReadsInv'
  <2>1. Len(notes') = SentBefore(k + 1)
    BY <1>9, <1>23
  <2>2. Intact(Len(notes))' <=> \A p \in QueriesAt(k + 1) : known'[p] = Element(k + 1, p)
    BY <1>22, <1>23, <1>24
  <2> QED BY <1>5, <1>10, <1>15, <1>24, <2>1, <2>2 DEF ReadsInv
<1>26. ProofInv'
  <2>1. Intact(Len(sent))' <=> Intact(Len(sent))
    BY <1>1, <1>24
  <2>2. Len(notes') \in 1..Len(sent')
    BY <1>1, <1>8, <1>9, <1>23
  <2>3. \A x \in 1..Len(notes') : notes'[x] = sent'[x][1]
    BY <1>1, <1>23
  <2> QED BY <1>1, <1>2, <1>23, <1>24, <2>1, <2>2, <2>3 DEF ProofInv, IsList
<1>27. RightSent' /\ ValidQueries'
  BY <1>1, <1>2, SentStays, DecommitStays
<1> QED
  BY <1>1, <1>10, <1>25, <1>26, <1>27 DEF DecommitInv, Decommitting, Verifying

(* The verifier's tree has its leaves at level VTreeLevel of its stack, and *)
(* the nodes of the prover's tree are what it must find there.              *)
LeavesAt(k, l) ==
  /\ QueriesAt(k) = QueriesAt(l) /\ NElements(k) = NElements(l) /\ SentBefore(k) = SentBefore(l)
  /\ NElements(l) \in Nat
  /\ QueriesAt(l) \in SUBSET (0..(NElements(l) - 1))
  /\ \A j \in 0..(NElements(l) - 1) : nodes[NElements(l) + j] = Element(l, j)

LEMMA LeavesOfVerifier ==
  ASSUME CommitmentInv, at \in Decommitting,
         NEW w \in Nat, NEW h \in Nat, NEW s \in Nat, NEW i \in Nat, Sizes(w, h, s, i), ValidQueries
  PROVE  \E k \in (i + 1)..(h + 1) : LeavesAt(k, VTreeLevel)
<1>1. CommittedInv /\ shape \in Shapes /\ Builds(NSegments) /\ queries \in SUBSET (0..(NElements(0) - 1))
  BY DEF CommitmentInv, Decommitting, ValidQueries
<1>2. Height = h /\ h = s + i
  BY DEF Sizes
<1>3. CASE shape.plain
  <2>1. VTreeLevel = 0 /\ TreeLevel = 0 /\ i = 0
    BY <1>3 DEF VTreeLevel, TreeLevel, Sizes
  <2>2. QueriesAt(0 + 1) = QueriesAt(0) /\ NElements(0 + 1) = NElements(0)
    BY <1>3, PlainQueries
  <2>3. SentBefore(0 + 1) = SentBefore(0)
    BY <1>1, <1>3, SentBeforeIs
  <2>4. 0 \in 0..(h + 1) /\ 0 + 1 \in (i + 1)..(h + 1)
    BY <2>1
  <2>5. NElements(0) \in Nat /\ NElements(0) = NSegments
    BY <2>1, <2>4, LevelSizes
  <2>6. QueriesAt(0) \in SUBSET (0..(NElements(0) - 1))
    BY <1>1, <2>4, QueriesRise
  <2>7. \A j \in 0..(NElements(0) - 1) : nodes[NElements(0) + j] = Element(0, j)
    BY <1>1, <2>1, <2>5 DEF CommittedInv
  <2> QED BY <2>1, <2>2, <2>3, <2>4, <2>5, <2>6, <2>7 DEF LeavesAt
<1>4. CASE ~shape.plain
  <2>1. VTreeLevel = h + 1
    BY <1>2, <1>4 DEF VTreeLevel
  <2>2. h + 1 \in 0..(h + 1) /\ h + 1 \in (i + 1)..(h + 1)
    BY <1>2
  <2>3. NElements(h + 1) \in Nat
    BY <2>2, LevelSizes
  <2>4. QueriesAt(h + 1) \in SUBSET (0..(NElements(h + 1) - 1))
    BY <1>1, <2>2, QueriesRise
  <2>5. ASSUME NEW j \in 0..(NElements(h + 1) - 1)
        PROVE  nodes[NElements(h + 1) + j] = Element(h + 1, j)
    <3>1. nodes[NElements(h + 1) + j] = Value(h + 1, j)
      BY <2>2, NodesHaveValues
    <3> QED BY <1>4, <3>1 DEF Value
  <2> QED BY <2>1, <2>2, <2>3, <2>4, <2>5 DEF LeavesAt
<1> QED
  BY <1>3, <1>4

LEMMA VStartTreeKeepsDecommit ==
  ASSUME CommitmentInv, DecommitInv, VStartTree
  PROVE  DecommitInv'
<1> DEFINE leaves == NElements(VTreeLevel)
           inOrder == Ascending(DOMAIN known, leaves)
<1>1. /\ at = "reads" /\ level = VTreeLevel /\ at' = "walks"
      /\ queue' = [x \in DOMAIN inOrder |-> <<leaves + inOrder[x], known[inOrder[x]]>>]
      /\ shape' = shape /\ nodes' = nodes /\ sent' = sent /\ queries' = queries
      /\ claimed' = claimed /\ proof' = proof /\ notes' = notes
  BY DEF VStartTree, building, proving
<1>2. ValidQueries /\ RightSent /\ ProofInv /\ ReadsInv /\ at \in Decommitting
  BY <1>1 DEF DecommitInv, Decommitting, Verifying
<1>3. CommittedInv /\ shape \in Shapes /\ Builds(NSegments)
  BY <1>1 DEF CommitmentInv, Decommitting
<1>4. PICK w, h, s, i \in Nat : Sizes(w, h, s, i)
  BY <1>3, SizesAre
<1>5. PICK k \in (i + 1)..(h + 1) : LeavesAt(k, VTreeLevel)
  BY <1>2, <1>4, LeavesOfVerifier
<1>6. PICK l, n \in Nat : l = VTreeLevel /\ n = NElements(l) /\ n = leaves /\ n = NElements(k)
  <2>1. VTreeLevel \in Nat
    BY <1>2, <1>1 DEF ReadsInv
  <2> QED BY <1>5, <2>1 DEF LeavesAt
<1>7. /\ DOMAIN known = QueriesAt(k) /\ QueriesAt(l) = QueriesAt(k) /\ Len(notes) = SentBefore(k)
      /\ Intact(Len(notes)) <=> \A e \in QueriesAt(k) : known[e] = Element(l, e)
  BY <1>1, <1>2, <1>5, <1>6 DEF ReadsInv, LeavesAt
<1>8. /\ QueriesAt(k) \in SUBSET (0..(n - 1))
      /\ \A j \in 0..(n - 1) : nodes[n + j] = Element(l, j)
  BY <1>5, <1>6, <1>7 DEF LeavesAt
<1>9. PICK order : order = Ascending(QueriesAt(k), n) /\ order = inOrder
  BY <1>6, <1>7
<1>10. PICK c \in Nat :
         /\ IsList(order) /\ Len(order) = c /\ DOMAIN order = 1..c
         /\ \A x \in 1..c : order[x] \in QueriesAt(k)
         /\ \A e \in QueriesAt(k) : \E x \in 1..c : order[x] = e
  <2>1. QueriesAt(k) \in SUBSET Nat
    BY <1>8
  <2>2. /\ IsList(order)
        /\ \A x \in 1..Len(order) : order[x] \in QueriesAt(k)
        /\ \A e \in QueriesAt(k) : e < n => \E x \in 1..Len(order) : order[x] = e
    <3>1. PICK Q \in SUBSET Nat : Q = QueriesAt(k)
      BY <2>1
    <3>2. order = Ascending(Q, n)
      BY <1>9, <3>1
    <3>3. /\ IsList(order)
          /\ \A x \in 1..Len(order) : order[x] \in Q
          /\ \A e \in Q : e < n => \E x \in 1..Len(order) : order[x] = e
      BY <3>2, AscendingElements
    <3> QED BY <3>1, <3>3
  <2>3. Len(order) \in Nat /\ DOMAIN order = 1..Len(order)
    BY <2>2, ListProperties
  <2>4. \A e \in QueriesAt(k) : e < n
    BY <1>8
  <2> QED BY <2>2, <2>3, <2>4
<1> HIDE DEF leaves, inOrder
<1>11. PICK new : new = queue' /\ new = [x \in 1..c |-> <<n + order[x], known[order[x]]>>]
  BY <1>1, <1>6, <1>9, <1>10
<1>12. IsList(new) /\ Len(new) = c /\ DOMAIN new = 1..c
  <2>1. new = [x \in 1..c |-> new[x]]
    BY <1>11
  <2> QED BY <1>10, <2>1, IndexedIsList
<1>13. Walk(NodesOf(new), SentBefore(k))
  <2>1. NodesOf(new) = [x \in DOMAIN order |-> n + order[x]]
    BY <1>10, <1>11, <1>12 DEF NodesOf
  <2>2. NodesOf(new) = [x \in DOMAIN Ascending(QueriesAt(k), NElements(k)) |->
                          NElements(k) + Ascending(QueriesAt(k), NElements(k))[x]]
    BY <1>6, <1>9, <2>1
  <2> QED BY <1>2, <1>4, <1>5, <2>2, WalkStarts
<1>14. (\A e \in QueriesAt(k) : known[e] = Element(l, e)) <=>
         \A x \in 1..c : new[x][2] = nodes[new[x][1]]
  <2>1. ASSUME NEW x \in 1..c
        PROVE  new[x][2] = known[order[x]] /\ nodes[new[x][1]] = Element(l, order[x])
    <3>1. new[x] = <<n + order[x], known[order[x]]>> /\ order[x] \in 0..(n - 1)
      BY <1>8, <1>10, <1>11
    <3> QED BY <1>8, <3>1
  <2> QED BY <1>10, <2>1
<1>15. WalksInv'
  <2>1. Intact(Len(notes))' <=> Intact(Len(notes))
    BY <1>1, IntactStays
  <2>2. Walk(NodesOf(queue), Len(notes))' <=> Walk(NodesOf(new), SentBefore(k))
    <3>1. NodesOf(queue)' = NodesOf(new)
      BY <1>11 DEF NodesOf
    <3>2. \A list, done : Walk(list, done)' <=> Walk(list, done)
      BY <1>1, DecommitStays
    <3> QED BY <1>1, <1>7, <3>1, <3>2
  <2> QED BY <1>1, <1>7, <1>11, <1>12, <1>13, <1>14, <2>1, <2>2 DEF WalksInv, IsList
<1>16. ProofInv'
  <2>1. Intact(Len(sent))' <=> Intact(Len(sent))
    BY <1>1, IntactStays
  <2>2. SentBefore(Height + 1)' = SentBefore(Height + 1)
    <3>1. (\A l1 : SentBefore(l1)' = SentBefore(l1)) /\ Height' = Height
      BY <1>1, DecommitStays, SizesStay
    <3> QED BY <3>1
  <2> QED BY <1>1, <1>2, <2>1, <2>2 DEF ProofInv, IsList
<1>17. RightSent' /\ ValidQueries'
  BY <1>1, <1>2, SentStays, DecommitStays
<1> QED
  BY <1>1, <1>15, <1>16, <1>17 DEF DecommitInv, Decommitting, Verifying

LEMMA NodesOfIs ==
  ASSUME NEW list, IsList(list)
  PROVE  /\ IsList(NodesOf(list)) /\ Len(NodesOf(list)) = Len(list)
         /\ \A x \in 1..Len(list) : NodesOf(list)[x] = list[x][1]
<1>1. PICK n \in Nat : n = Len(list) /\ DOMAIN list = 1..n
  BY ListProperties
<1>2. PICK f : f = NodesOf(list)
  OBVIOUS
<1>3. f = [x \in 1..n |-> list[x][1]]
  BY <1>1, <1>2 DEF NodesOf
<1>4. f = [x \in 1..n |-> f[x]] /\ \A x \in 1..n : f[x] = list[x][1]
  BY <1>3
<1>5. IsList(f) /\ Len(f) = n
  BY <1>4, IndexedIsList
<1> QED
  BY <1>1, <1>2, <1>4, <1>5

(* The nodes of a queue move as the queue does; and it is right after the *)
(* step when what is left of it and the parent are.                       *)
AllRight(list) == \A x \in 1..Len(list) : list[x][2] = nodes[list[x][1]]

LEMMA NodesMove ==
  ASSUME NEW list, IsList(list), NEW c \in {1, 2}, Len(list) >= c, NEW left, NEW e, Moves(list, left, c, e)
  PROVE  /\ Moves(NodesOf(list), NodesOf(left), c, e[1])
         /\ AllRight(left) <=> /\ \A x \in (c + 1)..Len(list) : list[x][2] = nodes[list[x][1]]
                               /\ e[2] = nodes[e[1]]
<1>1. PICK n \in Nat : n = Len(list) /\ n >= c
  BY ListProperties
<1>2. /\ IsList(left) /\ Len(left) = n - c + 1
      /\ \A x \in 1..(n - c) : left[x] = list[x + c]
      /\ left[n - c + 1] = e
  BY <1>1 DEF Moves
<1>3. /\ IsList(NodesOf(left)) /\ Len(NodesOf(left)) = n - c + 1
      /\ \A x \in 1..(n - c + 1) : NodesOf(left)[x] = left[x][1]
      /\ Len(NodesOf(list)) = n
      /\ \A x \in 1..n : NodesOf(list)[x] = list[x][1]
  BY <1>1, <1>2, NodesOfIs
<1>4. Moves(NodesOf(list), NodesOf(left), c, e[1])
  <2>1. ASSUME NEW x \in 1..(n - c) PROVE NodesOf(left)[x] = NodesOf(list)[x + c]
    <3>1. x \in 1..(n - c + 1) /\ x + c \in 1..n
      BY <1>1
    <3> QED BY <1>2, <1>3, <3>1
  <2>2. n - c + 1 \in 1..(n - c + 1)
    BY <1>1
  <2> QED BY <1>2, <1>3, <2>1, <2>2 DEF Moves
<1>5. AllRight(left) <=> /\ \A x \in 1..(n - c) : list[x + c][2] = nodes[list[x + c][1]]
                         /\ e[2] = nodes[e[1]]
  <2>1. \A x \in 1..(n - c + 1) : x \in 1..(n - c) \/ x = n - c + 1
    BY <1>1
  <2>2. (n - c + 1) \in 1..(n - c + 1) /\ \A x \in 1..(n - c) : x \in 1..(n - c + 1)
    BY <1>1
  <2>3. PICK m : m = n - c + 1 /\ Len(left) = m /\ left[m] = e /\ m \in 1..m
    BY <1>2, <2>2
  <2>4. \A x \in 1..(n - c) : left[x] = list[x + c] /\ x \in 1..m
    BY <1>2, <2>2, <2>3
  <2>5. \A x \in 1..m : x \in 1..(n - c) \/ x = m
    BY <2>1, <2>3
  <2>6. AllRight(left) <=> \A x \in 1..m : left[x][2] = nodes[left[x][1]]
    BY <2>3 DEF AllRight
  <2> QED BY <2>3, <2>4, <2>5, <2>6
<1>6. (\A x \in 1..(n - c) : list[x + c][2] = nodes[list[x + c][1]]) <=>
        \A x \in (c + 1)..n : list[x][2] = nodes[list[x][1]]
  <2>1. \A x \in 1..(n - c) : x + c \in (c + 1)..n
    BY <1>1
  <2>2. \A x \in (c + 1)..n : x - c \in 1..(n - c) /\ (x - c) + c = x
    BY <1>1
  <2> QED BY <2>1, <2>2
<1> QED
  BY <1>1, <1>4, <1>5, <1>6

LEMMA ParentIsRight ==
  ASSUME CommittedInv, NSegments \in Nat,
         NEW node \in 2..(2 * NSegments - 1), node \div 2 \in 1..(NSegments - 1), NEW hash, NEW sibling
  PROVE  Hash(TreeHash, InPlace(node, hash, sibling)) = nodes[node \div 2] <=>
           hash = nodes[node] /\ sibling = nodes[Sibling(node)]
<1>1. PICK n \in Nat, p \in Nat : n = NSegments /\ p = node \div 2 /\ p >= 1 /\ p < n
  OBVIOUS
<1>2. IsTree(nodes, nodes, n, TreeHash)
  BY <1>1 DEF CommittedInv
<1>3. nodes[p] = Hash(TreeHash, <<nodes[2 * p], nodes[2 * p + 1]>>)
  <2>1. p \in 1..(2 * n - 1) /\ ~(p >= n)
    BY <1>1
  <2>2. PICK f : f = nodes /\ f = [x \in 1..(2 * n - 1) |->
            IF x >= n THEN nodes[x] ELSE Hash(TreeHash, <<nodes[2 * x], nodes[2 * x + 1]>>)]
    BY <1>2 DEF IsTree
  <2> QED BY <2>1, <2>2
<1>4. /\ node % 2 = 0 => node = 2 * p /\ Sibling(node) = 2 * p + 1
      /\ node % 2 # 0 => node = 2 * p + 1 /\ Sibling(node) = 2 * p
  <2>1. node \in Nat
    OBVIOUS
  <2>2. /\ node % 2 = 0 => node = 2 * p /\ node + 1 = 2 * p + 1
        /\ node % 2 # 0 => node = 2 * p + 1 /\ node - 1 = 2 * p
    BY <1>1, <2>1
  <2> QED BY <2>2 DEF Sibling
<1>5. CASE node % 2 = 0
  <2>1. InPlace(node, hash, sibling) = <<hash, sibling>>
    BY <1>5 DEF InPlace
  <2> QED BY <1>1, <1>3, <1>4, <1>5, <2>1 DEF Hash
<1>6. CASE node % 2 # 0
  <2>1. InPlace(node, hash, sibling) = <<sibling, hash>>
    BY <1>6 DEF InPlace
  <2> QED BY <1>1, <1>3, <1>4, <1>6, <2>1 DEF Hash
<1> QED
  BY <1>5, <1>6

LEMMA VTreeStepKeepsDecommit ==
  ASSUME CommitmentInv, DecommitInv, VTreeStep
  PROVE  DecommitInv'
<1> DEFINE node == Head(queue)[1]
           hash == Head(queue)[2]
           rest == Tail(queue)
           inQueue == rest # <<>> /\ Head(rest)[1] = Sibling(node)
           Parent(sibling) == <<node \div 2, Hash(TreeHash, InPlace(node, hash, sibling))>>
<1>1. /\ at = "walks" /\ node # 1
      /\ inQueue => /\ queue' = Append(Tail(rest), Parent(Head(rest)[2]))
                    /\ at' = at /\ notes' = notes
      /\ ~inQueue /\ Len(notes) < Len(proof) =>
           /\ queue' = Append(rest, Parent(proof[Len(notes) + 1]))
           /\ notes' = Append(notes, <<"node", Sibling(node)>>)
           /\ at' = at
      /\ ~inQueue /\ ~(Len(notes) < Len(proof)) => at' = "rejected" /\ queue' = queue /\ notes' = notes
      /\ shape' = shape /\ nodes' = nodes /\ sent' = sent /\ queries' = queries
      /\ claimed' = claimed /\ proof' = proof
  BY DEF VTreeStep, building, proving
<1>2. ValidQueries /\ RightSent /\ ProofInv /\ WalksInv /\ at \in Decommitting
  BY <1>1 DEF DecommitInv, Decommitting, Verifying
<1>3. CommittedInv /\ shape \in Shapes /\ Builds(NSegments)
  BY <1>1 DEF CommitmentInv, Decommitting
<1>4. PICK w, h, s, i \in Nat : Sizes(w, h, s, i)
  BY <1>3, SizesAre
<1>5. PICK done, list : done = Len(notes) /\ list = NodesOf(queue) /\ Walk(list, done)
  BY <1>2 DEF WalksInv
<1>6. IsList(list) /\ Len(list) \in Nat \ {0} /\ done \in Nat /\ (list[1] # 1 => Steps(list, done, i, h))
  BY <1>2, <1>4, <1>5, WalkGoesOn
<1>7. PICK n \in Nat \ {0} : /\ n = Len(queue) /\ n = Len(list) /\ IsList(queue)
                             /\ \A x \in 1..n : list[x] = queue[x][1]
  <2>1. IsList(queue)
    BY <1>2 DEF WalksInv
  <2> QED BY <1>5, <1>6, <2>1, NodesOfIs
<1>8. /\ Head(queue) = queue[1] /\ IsList(rest) /\ Len(rest) = n - 1
      /\ \A x \in 1..(n - 1) : rest[x] = queue[x + 1]
  BY <1>7, TailIs
<1>9. node = queue[1][1] /\ hash = queue[1][2] /\ node = list[1]
  BY <1>7, <1>8
<1>10. n >= 2 => Head(rest) = queue[2]
  <2>1. SUFFICES ASSUME n >= 2 PROVE Head(rest) = queue[2]
    OBVIOUS
  <2>2. Head(rest) = rest[1]
    <3>1. Len(rest) # 0
      BY <1>8, <2>1
    <3> QED BY <1>8, <3>1, TailIs
  <2>3. rest[1] = queue[2]
    <3>1. 1 \in 1..(n - 1) /\ 1 + 1 = 2
      BY <2>1
    <3> QED BY <1>8, <3>1
  <2> QED BY <2>2, <2>3
<1>11. rest # <<>> <=> n >= 2
  <2>1. PICK r, l : r = rest /\ l = Len(r) /\ IsList(r) /\ l = n - 1
    BY <1>8
  <2>2. r = <<>> => l = 0
    BY <2>1
  <2>3. l = 0 => r = <<>>
    <3>1. PICK S : r \in Seq(S)
      BY <2>1 DEF IsList
    <3>2. Len(r) = l
      BY <2>1
    <3> QED BY ONLY <3>1, <3>2
  <2>4. l = 0 <=> ~(n >= 2)
    <3>1. l = n - 1
      BY <2>1
    <3> QED BY ONLY <3>1, n \in Nat \ {0}
  <2> QED BY <2>1, <2>2, <2>3, <2>4
<1> HIDE DEF node, hash, rest
<1>12. inQueue <=> n >= 2 /\ list[2] = Sibling(node)
  <2>1. n >= 2 => list[2] = queue[2][1]
    BY <1>7
  <2> QED BY <1>10, <1>11, <2>1
<1>13. PICK c \in {1, 2} :
         /\ node \in 2..(2 * NSegments - 1) /\ node \div 2 \in 1..(NSegments - 1)
         /\ n >= c
         /\ c = 2 => list[2] = Sibling(node)
         /\ c = 1 => /\ ~(n >= 2 /\ list[2] = Sibling(node))
                     /\ \E k \in (i + 1)..h : \E y \in 1..Len(Missing(k)) :
                          done + 1 = SentBefore(k) + y /\ Sibling(node) = NElements(k) + Missing(k)[y]
         /\ \A left : Moves(list, left, c, node \div 2) => Walk(left, done + 2 - c)
  BY <1>1, <1>6, <1>7, <1>9 DEF Steps
<1>14. inQueue <=> c = 2
  BY <1>12, <1>13
<1> HIDE DEF inQueue
<1>15. IsList(notes) /\ IsList(proof) /\ Len(proof) = Len(sent) /\ Len(sent) = SentBefore(h + 1)
       /\ done >= 1 /\ done <= Len(sent) /\ Len(sent) \in Nat
       /\ \A x \in 1..done : notes[x] = sent[x][1]
  <2>1. Height = h
    BY <1>4 DEF Sizes
  <2>2. Len(sent) \in Nat
    <3>1. IsList(sent)
      BY <1>3 DEF CommittedInv
    <3> QED BY <3>1, ListProperties
  <2> QED BY <1>2, <1>5, <2>1, <2>2 DEF ProofInv
<1>16. Intact(done) <=> AllRight(queue)
  BY <1>2, <1>5 DEF WalksInv, AllRight
<1>17. \A sibling : Parent(sibling)[2] = nodes[Parent(sibling)[1]] <=>
                      hash = nodes[node] /\ sibling = nodes[Sibling(node)]
  <2>1. NSegments \in Nat
    BY <1>3, SegmentsAre
  <2>2. TAKE sibling
  <2>3. Hash(TreeHash, InPlace(node, hash, sibling)) = nodes[node \div 2] <=>
           hash = nodes[node] /\ sibling = nodes[Sibling(node)]
    BY <1>3, <1>13, <2>1, ParentIsRight
  <2> QED BY <2>3
<1>18. \A sibling : Parent(sibling)[1] = node \div 2
  OBVIOUS
<1> HIDE DEF Parent
<1>19. /\ at' = at /\ IsList(queue') /\ IsList(notes') /\ Len(notes') \in 1..Len(sent)
       /\ \A x \in 1..Len(notes') : notes'[x] = sent[x][1]
       /\ Walk(NodesOf(queue'), Len(notes'))
       /\ Intact(Len(notes')) <=> AllRight(queue')
  <2>1. CASE c = 2
    <3>1. PICK e : e = Parent(queue[2][2])
      OBVIOUS
    <3>2. n >= 2 /\ queue[2][1] = Sibling(node)
      <4>1. n >= 2 /\ list[2] = Sibling(node)
        BY <1>13, <2>1
      <4>2. 2 \in 1..n
        BY <4>1
      <4> QED BY <1>7, <4>1, <4>2
    <3>3. PICK left : left = queue' /\ left = Append(Tail(Tail(queue)), e)
      BY <1>1, <1>10, <1>14, <2>1, <3>1, <3>2 DEF rest
    <3>4. at' = at /\ notes' = notes
      BY <1>1, <1>14, <2>1
    <3>5. Moves(queue, left, 2, e)
      BY <1>7, <3>2, <3>3, TwoMove
    <3>6. /\ Moves(NodesOf(queue), NodesOf(left), 2, e[1])
          /\ AllRight(left) <=> /\ \A x \in (2 + 1)..n : queue[x][2] = nodes[queue[x][1]]
                                /\ e[2] = nodes[e[1]]
      <4>1. PICK d \in {1, 2} : d = 2
        OBVIOUS
      <4>2. Len(queue) >= d /\ Moves(queue, left, d, e) /\ IsList(queue)
        BY <1>7, <3>2, <3>5, <4>1
      <4>3. /\ Moves(NodesOf(queue), NodesOf(left), d, e[1])
            /\ AllRight(left) <=> /\ \A x \in (d + 1)..Len(queue) : queue[x][2] = nodes[queue[x][1]]
                                  /\ e[2] = nodes[e[1]]
        BY <4>2, NodesMove
      <4> QED BY <1>7, <4>1, <4>3
    <3>7. Walk(NodesOf(left), done)
      <4>1. done + 2 - 2 = done
        BY <1>6
      <4>2. Moves(list, NodesOf(left), 2, node \div 2)
        BY <1>5, <1>18, <3>1, <3>6
      <4> QED BY <1>13, <2>1, <4>1, <4>2
    <3>8. AllRight(left) <=> AllRight(queue)
      <4>1. e[2] = nodes[e[1]] <=> queue[1][2] = nodes[queue[1][1]] /\ queue[2][2] = nodes[queue[2][1]]
        BY <1>9, <1>17, <3>1, <3>2
      <4>2. AllRight(queue) <=> /\ queue[1][2] = nodes[queue[1][1]] /\ queue[2][2] = nodes[queue[2][1]]
                                /\ \A x \in (2 + 1)..n : queue[x][2] = nodes[queue[x][1]]
        <5>1. /\ 1 \in 1..n /\ 2 \in 1..n /\ \A x \in (2 + 1)..n : x \in 1..n
              /\ \A x \in 1..n : x = 1 \/ x = 2 \/ x \in (2 + 1)..n
          BY <3>2
        <5> QED BY <1>7, <5>1 DEF AllRight
      <4> QED BY <3>6, <4>1, <4>2
    <3>9. IsList(left)
      BY <3>5 DEF Moves
    <3> QED BY <1>5, <1>15, <1>16, <3>3, <3>4, <3>7, <3>8, <3>9
  <2>2. CASE c = 1
    <3>1. PICK k \in (i + 1)..h : \E y \in 1..Len(Missing(k)) :
            done + 1 = SentBefore(k) + y /\ Sibling(node) = NElements(k) + Missing(k)[y]
      BY <1>13, <2>2
    <3>2. PICK y \in 1..Len(Missing(k)) :
            done + 1 = SentBefore(k) + y /\ Sibling(node) = NElements(k) + Missing(k)[y]
      BY <3>1
    <3>3. k \in 0..h
      BY <3>1
    <3>4. done + 1 <= Len(sent)
      <4>1. 0 \in 0..(h + 1)
        OBVIOUS
      <4>2. SentBefore(k) + y <= SentBefore(h + 1)
        BY <1>2, <1>4, <3>3, <4>1, PlacesFit
      <4> QED BY <1>15, <3>2, <4>2
    <3>5. sent[done + 1] = << <<"node", Sibling(node)>>, nodes[Sibling(node)] >>
      <4>1. sent[SentBefore(k) + y] = <<Label(k, Missing(k)[y]), Value(k, Missing(k)[y])>>
        <5>1. k \in 0..Height
          BY <1>4, <3>3 DEF Sizes
        <5>2. SentBefore(k) + y <= Len(sent)
          BY <3>2, <3>4
        <5> QED BY <1>2, <5>1, <5>2 DEF RightSent, IsSent
      <4>2. /\ Label(k, Missing(k)[y]) = <<"node", Sibling(node)>>
            /\ Value(k, Missing(k)[y]) = nodes[Sibling(node)]
        BY <1>2, <1>4, <3>2, SiblingIsMissing
      <4> QED BY <3>2, <4>1, <4>2
    <3>6. PICK e : e = Parent(proof[done + 1])
      OBVIOUS
    <3>7. /\ queue' = Append(Tail(queue), e) /\ notes' = Append(notes, <<"node", Sibling(node)>>)
          /\ at' = at
      <4>1. Len(notes) < Len(proof)
        BY <1>5, <1>6, <1>15, <3>4
      <4> QED BY <1>1, <1>5, <1>14, <2>2, <3>6, <4>1 DEF rest
    <3>8. PICK left : left = queue' /\ left = Append(Tail(queue), e)
      BY <3>7
    <3>9. Moves(queue, left, 1, e)
      BY <1>7, <3>8, OneMoves
    <3>10. /\ Moves(NodesOf(queue), NodesOf(left), 1, e[1])
           /\ AllRight(left) <=> /\ \A x \in (1 + 1)..n : queue[x][2] = nodes[queue[x][1]]
                                 /\ e[2] = nodes[e[1]]
      <4>1. PICK d \in {1, 2} : d = 1
        OBVIOUS
      <4>2. Len(queue) >= d /\ Moves(queue, left, d, e) /\ IsList(queue)
        BY <1>7, <3>9, <4>1
      <4>3. /\ Moves(NodesOf(queue), NodesOf(left), d, e[1])
            /\ AllRight(left) <=> /\ \A x \in (d + 1)..Len(queue) : queue[x][2] = nodes[queue[x][1]]
                                  /\ e[2] = nodes[e[1]]
        BY <4>2, NodesMove
      <4> QED BY <1>7, <4>1, <4>3
    <3>11. Walk(NodesOf(left), done + 1)
      <4>1. done + 2 - 1 = done + 1
        BY <1>6
      <4>2. Moves(list, NodesOf(left), 1, node \div 2)
        BY <1>5, <1>18, <3>6, <3>10
      <4> QED BY <1>13, <2>2, <4>1, <4>2
    <3>12. AllRight(left) <=> AllRight(queue) /\ proof[done + 1] = nodes[Sibling(node)]
      <4>1. e[2] = nodes[e[1]] <=>
              queue[1][2] = nodes[queue[1][1]] /\ proof[done + 1] = nodes[Sibling(node)]
        BY <1>9, <1>17, <3>6
      <4>2. AllRight(queue) <=> /\ queue[1][2] = nodes[queue[1][1]]
                                /\ \A x \in (1 + 1)..n : queue[x][2] = nodes[queue[x][1]]
        <5>1. /\ 1 \in 1..n /\ \A x \in (1 + 1)..n : x \in 1..n
              /\ \A x \in 1..n : x = 1 \/ x \in (1 + 1)..n
          OBVIOUS
        <5> QED BY <1>7, <5>1 DEF AllRight
      <4> QED BY <3>10, <4>1, <4>2
    <3>13. Intact(done + 1) <=> Intact(done) /\ proof[done + 1] = nodes[Sibling(node)]
      <4>1. /\ done + 1 \in 2..(done + 1) /\ \A x \in 2..done : x \in 2..(done + 1)
            /\ \A x \in 2..(done + 1) : x \in 2..done \/ x = done + 1
        BY <1>6, <1>15
      <4>2. sent[done + 1][2] = nodes[Sibling(node)]
        BY <3>5
      <4> QED BY <4>1, <4>2 DEF Intact
    <3>14. PICK more : /\ more = notes' /\ IsList(more) /\ Len(more) = done + 1
                       /\ \A x \in 1..done : more[x] = notes[x]
                       /\ more[done + 1] = <<"node", Sibling(node)>>
      <4>1. PICK a : a = <<"node", Sibling(node)>>
        OBVIOUS
      <4>2. /\ IsList(Append(notes, a)) /\ Len(Append(notes, a)) = Len(notes) + 1
            /\ \A x \in 1..Len(notes) : Append(notes, a)[x] = notes[x]
            /\ Append(notes, a)[Len(notes) + 1] = a
        BY <1>15, AppendIs
      <4> QED BY <1>5, <3>7, <4>1, <4>2
    <3>15. ASSUME NEW x \in 1..(done + 1) PROVE more[x] = sent[x][1]
      <4>1. CASE x = done + 1
        <5>1. sent[done + 1][1] = <<"node", Sibling(node)>>
          BY <3>5
        <5> QED BY <3>14, <4>1, <5>1
      <4>2. CASE x # done + 1
        <5>1. x \in 1..done
          BY <1>6, <4>2
        <5> QED BY <1>15, <3>14, <5>1
      <4> QED BY <4>1, <4>2
    <3>16. IsList(left)
      BY <3>9 DEF Moves
    <3>17. done + 1 \in 1..Len(sent)
      BY <1>6, <1>15, <3>4
    <3> QED BY <1>16, <3>7, <3>8, <3>11, <3>12, <3>13, <3>14, <3>15, <3>16, <3>17
  <2> QED BY <1>13, <2>1, <2>2
<1>20. WalksInv'
  <2>1. (\A m : Intact(m)' <=> Intact(m)) /\ (\A l, d : Walk(l, d)' <=> Walk(l, d))
    BY <1>1, IntactStays, DecommitStays
  <2>2. NodesOf(queue)' = NodesOf(queue')
    BY DEF NodesOf
  <2> QED BY <1>1, <1>19, <2>1, <2>2 DEF WalksInv, IsList, AllRight
<1>21. ProofInv'
  <2>1. Intact(Len(sent))' <=> Intact(Len(sent))
    BY <1>1, IntactStays
  <2>2. SentBefore(Height + 1)' = SentBefore(Height + 1)
    <3>1. (\A l : SentBefore(l)' = SentBefore(l)) /\ Height' = Height
      BY <1>1, DecommitStays, SizesStay
    <3> QED BY <3>1
  <2> QED BY <1>1, <1>2, <1>19, <2>1, <2>2 DEF ProofInv, IsList
<1>22. RightSent' /\ ValidQueries'
  BY <1>1, <1>2, SentStays, DecommitStays
<1> QED
  BY <1>1, <1>19, <1>20, <1>21, <1>22 DEF DecommitInv, Decommitting, Verifying

LEMMA CompareKeepsDecommit ==
  ASSUME CommitmentInv, DecommitInv, Compare
  PROVE  DecommitInv'
<1>1. /\ at = "walks" /\ Head(queue)[1] = 1
      /\ at' = IF Head(queue)[2] = proof[1] THEN "accepted" ELSE "rejected"
      /\ shape' = shape /\ nodes' = nodes /\ sent' = sent /\ queries' = queries
      /\ claimed' = claimed /\ proof' = proof /\ notes' = notes
  BY DEF Compare, MatchesRoot, building, proving
<1>2. ValidQueries /\ RightSent /\ ProofInv /\ WalksInv
  BY <1>1 DEF DecommitInv, Decommitting, Verifying
<1>3. CommittedInv /\ shape \in Shapes /\ Builds(NSegments)
  BY <1>1 DEF CommitmentInv, Decommitting
<1>4. PICK w, h, s, i \in Nat : Sizes(w, h, s, i)
  BY <1>3, SizesAre
<1>5. PICK done, list : done = Len(notes) /\ list = NodesOf(queue) /\ Walk(list, done)
  BY <1>2 DEF WalksInv
<1>6. IsList(list) /\ Len(list) \in Nat \ {0} /\ (list[1] = 1 => Len(list) = 1 /\ done = SentBefore(h + 1))
  BY <1>2, <1>4, <1>5, WalkGoesOn
<1>7. IsList(queue) /\ Len(queue) = Len(list) /\ Len(queue) # 0 /\ list[1] = queue[1][1]
  <2>1. IsList(queue)
    BY <1>2 DEF WalksInv
  <2>2. Len(queue) = Len(list) /\ \A x \in 1..Len(queue) : list[x] = queue[x][1]
    BY <1>5, <2>1, NodesOfIs
  <2> QED BY <1>6, <2>1, <2>2
<1>8. Head(queue) = queue[1]
  BY <1>7, TailIs
<1>9. Len(queue) = 1 /\ done = SentBefore(h + 1)
  BY <1>1, <1>6, <1>7, <1>8
<1>10. done = Len(sent)
  <2>1. Height = h
    BY <1>4 DEF Sizes
  <2> QED BY <1>2, <1>9, <2>1 DEF ProofInv
<1>11. Intact(Len(sent)) <=> queue[1][2] = nodes[1]
  <2>1. Intact(Len(notes)) <=> \A x \in 1..Len(queue) : queue[x][2] = nodes[queue[x][1]]
    BY <1>2 DEF WalksInv
  <2>2. 1..1 = {1}
    OBVIOUS
  <2> QED BY <1>1, <1>5, <1>8, <1>9, <1>10, <2>1, <2>2
<1>12. sent[1][2] = nodes[1]
  BY <1>3 DEF CommittedInv
<1>13. proof[1] = sent[1][2] \/ Intact(Len(sent))
  BY <1>2 DEF ProofInv
<1>14. Head(queue)[2] = proof[1] <=> Intact(Len(sent)) /\ proof[1] = sent[1][2]
  BY <1>8, <1>11, <1>12, <1>13
<1>15. Intact(Len(sent))' <=> Intact(Len(sent))
  BY <1>1, IntactStays
<1>16. ProofInv'
  <2>1. SentBefore(Height + 1)' = SentBefore(Height + 1)
    <3>1. (\A l : SentBefore(l)' = SentBefore(l)) /\ Height' = Height
      BY <1>1, DecommitStays, SizesStay
    <3> QED BY <3>1
  <2> QED BY <1>1, <1>2, <1>15, <2>1 DEF ProofInv, IsList
<1>17. RightSent' /\ ValidQueries'
  BY <1>1, <1>2, SentStays, DecommitStays
<1>18. (at' = "accepted" /\ Intact(Len(sent)) /\ proof[1] = sent[1][2])
       \/ (at' = "rejected" /\ ~(Intact(Len(sent)) /\ proof[1] = sent[1][2]))
  BY <1>1, <1>14
<1>19. ~(Intact(Len(sent)) /\ proof[1] = sent[1][2])' <=> ~(Intact(Len(sent)) /\ proof[1] = sent[1][2])
  BY <1>1, <1>15
<1>20. CASE at' = "accepted"
  BY <1>1, <1>15, <1>16, <1>17, <1>18, <1>20 DEF DecommitInv, Decommitting, Verifying
<1>21. CASE at' = "rejected"
  BY <1>1, <1>15, <1>16, <1>17, <1>18, <1>21 DEF DecommitInv, Decommitting, Verifying
<1> QED
  BY <1>18, <1>20, <1>21

LEMMA DecommitNextKeeps ==
  CommitmentInv /\ DecommitInv /\ [CommitmentNext]_commitment_vars => DecommitInv'
<1> SUFFICES ASSUME CommitmentInv, DecommitInv, [CommitmentNext]_commitment_vars PROVE DecommitInv'
  OBVIOUS
<1>1. CASE (\E w \in Workers : StartsTask(w) \/ AddsSegment(w)) \/ NextSegment \/ Commit
  BY <1>1, BuildingKeepsDecommit
<1>2. CASE StartDecommitmentPhase
  BY <1>2, StartDecommitmentKeepsDecommit
<1>3. CASE Decommit
  BY <1>3, DecommitKeepsDecommit
<1>4. CASE DecommitLevel
  BY <1>4, DecommitLevelKeepsDecommit
<1>5. CASE StartTree
  BY <1>5, StartTreeKeepsDecommit
<1>6. CASE TreeStep
  BY <1>6, TreeStepKeepsDecommit
<1>7. CASE HandOver
  BY <1>7, HandOverKeepsDecommit
<1>8. CASE VerifyLevel
  BY <1>8, VerifyLevelKeepsDecommit
<1>9. CASE VStartTree
  BY <1>9, VStartTreeKeepsDecommit
<1>10. CASE VTreeStep
  BY <1>10, VTreeStepKeepsDecommit
<1>11. CASE Compare
  BY <1>11, CompareKeepsDecommit
<1>12. CASE UNCHANGED commitment_vars
  <2>1. /\ at' = at /\ shape' = shape /\ nodes' = nodes /\ sent' = sent /\ queries' = queries
        /\ claimed' = claimed /\ proof' = proof /\ notes' = notes /\ queue' = queue /\ level' = level
        /\ known' = known /\ given' = given
    BY <1>12 DEF commitment_vars, building, proving
  <2>2. /\ ValidQueries' <=> ValidQueries
        /\ RightSent' <=> RightSent
        /\ \A k : SentBefore(k)' = SentBefore(k)
        /\ \A l, d : Walk(l, d)' <=> Walk(l, d)
        /\ \A n : Intact(n)' <=> Intact(n)
        /\ \A k, j : Element(k, j)' = Element(k, j)
        /\ Height' = Height /\ VTreeLevel' = VTreeLevel
        /\ Asks' = Asks /\ \A k : QueriesAt(k)' = QueriesAt(k)
    BY <2>1, DecommitStays, SentStays, IntactStays, TableStays, SizesStay, RequestsStay
  <2>3. GivenRight' <=> GivenRight
    BY <2>1, <2>2 DEF GivenRight
  <2>4. ProofInv' <=> ProofInv
    BY <2>1, <2>2 DEF ProofInv, IsList
  <2>5. ReadsInv' <=> ReadsInv
    BY <2>1, <2>2 DEF ReadsInv
  <2>6. WalksInv' <=> WalksInv
    BY <2>1, <2>2 DEF WalksInv, IsList, NodesOf
  <2> QED BY <2>1, <2>2, <2>3, <2>4, <2>5, <2>6 DEF DecommitInv
<1> QED
  BY <1>1, <1>2, <1>3, <1>4, <1>5, <1>6, <1>7, <1>8, <1>9, <1>10, <1>11, <1>12
     DEF CommitmentNext, Ended

(* What is sent stands in the order of the levels, and what the verifier *)
(* computes is right as long as what it has read is.                     *)
THEOREM DecommitInvariant ==
  CommitmentSpec => []DecommitInv
<1> QED
  BY DecommitInitHolds, DecommitNextKeeps, CommitmentInvariant, PTL DEF CommitmentSpec

-----------------------------------------------------------------------------
(* What the decommitment is worth. *)

(* The verifier takes every value for what the prover sent it as, though *)
(* one walks a queue over segments and the other goes level by level     *)
(* (Lockstep; merkle.cc:78-97, packaging_commitment_scheme.cc:220-258).  *)
THEOREM SidesInLockstep ==
  CommitmentSpec => []Lockstep
<1>1. ASSUME CommitmentInv, DecommitInv PROVE Lockstep
  <2>1. PICK labels : labels = [x \in DOMAIN sent |-> sent[x][1]]
    OBVIOUS
  <2>2. IsList(sent)
    <3>1. sent = <<>> \/ IsList(sent)
      BY <1>1 DEF CommitmentInv, CommittedInv, AddingInv, Decommitting
    <3>2. CASE sent = <<>>
      BY <3>2 DEF IsList
    <3> QED BY <3>1, <3>2
  <2>3. PICK n \in Nat : n = Len(sent) /\ DOMAIN sent = 1..n
    BY <2>2, ListProperties
  <2>4. IsList(labels) /\ Len(labels) = n /\ \A x \in 1..n : labels[x] = sent[x][1]
    <3>1. labels = [x \in 1..n |-> labels[x]] /\ \A x \in 1..n : labels[x] = sent[x][1]
      BY <2>1, <2>3
    <3> QED BY <3>1, IndexedIsList
  <2>5. IsPrefix(notes, labels)
    <3>1. CASE at \notin Verifying
      <4>1. notes = <<>>
        BY <1>1, <3>1 DEF DecommitInv
      <4>2. IsList(notes) /\ Len(notes) = 0
        BY <4>1 DEF IsList
      <4> QED BY <2>4, <4>2, PrefixIs
    <3>2. CASE at \in Verifying
      <4>1. /\ IsList(notes) /\ Len(notes) \in 1..n
            /\ \A x \in 1..Len(notes) : notes[x] = sent[x][1]
        BY <1>1, <2>3, <3>2 DEF DecommitInv, ProofInv
      <4>2. Len(notes) <= Len(labels) /\ \A x \in 1..Len(notes) : notes[x] = labels[x]
        BY <2>4, <4>1
      <4> QED BY <2>4, <4>1, <4>2, PrefixIs
    <3> QED BY <3>1, <3>2
  <2> QED BY <2>1, <2>5 DEF Lockstep
<1> QED
  BY <1>1, CommitmentInvariant, DecommitInvariant, PTL

(* Whatever the table and the queries, the verifier accepts the committed *)
(* rows with the proof that was sent, and nothing else (VerdictIsExact;   *)
(* MerkleTree::VerifyDecommitment, merkle.cc:121-152).                    *)
THEOREM OnlyTheTableIsAccepted ==
  CommitmentSpec => []VerdictIsExact
<1>1. ASSUME CommitmentInv, DecommitInv PROVE VerdictIsExact
  <2>1. ASSUME at \in {"accepted", "rejected"}
        PROVE  proof = Contents(sent) /\ (\A q \in queries : claimed[q] = Row(q)) <=>
                 Intact(Len(sent)) /\ proof[1] = sent[1][2]
    <3>1. ProofInv /\ CommittedInv
      BY <1>1, <2>1 DEF DecommitInv, CommitmentInv, Verifying, Decommitting
    <3>2. PICK n \in Nat : n = Len(sent) /\ DOMAIN sent = 1..n /\ n >= 1
      BY <3>1, ListProperties DEF CommittedInv
    <3>3. PICK c : c = Contents(sent) /\ c = [x \in 1..n |-> sent[x][2]]
      BY <3>2 DEF Contents
    <3>4. IsList(c) /\ Len(c) = n /\ \A x \in 1..n : c[x] = sent[x][2]
      <4>1. c = [x \in 1..n |-> c[x]] /\ \A x \in 1..n : c[x] = sent[x][2]
        BY <3>3
      <4> QED BY <4>1, IndexedIsList
    <3>5. IsList(proof) /\ Len(proof) = n
      BY <3>1, <3>2 DEF ProofInv
    <3>6. proof = c <=> \A x \in 1..n : proof[x] = sent[x][2]
      <4>1. proof = c <=> \A x \in 1..n : proof[x] = c[x]
        BY <3>4, <3>5, ListsAreEqual
      <4> QED BY <3>4, <4>1
    <3>7. (\A x \in 1..n : proof[x] = sent[x][2]) <=>
            proof[1] = sent[1][2] /\ \A x \in 2..n : proof[x] = sent[x][2]
      <4>1. 1 \in 1..n /\ (\A x \in 2..n : x \in 1..n) /\ \A x \in 1..n : x = 1 \/ x \in 2..n
        BY <3>2
      <4> QED BY <4>1
    <3> QED BY <3>2, <3>3, <3>6, <3>7 DEF Intact, RightRows
  <2>2. at = "accepted" => Intact(Len(sent)) /\ proof[1] = sent[1][2]
    BY <1>1 DEF DecommitInv
  <2>3. at = "rejected" => ~(Intact(Len(sent)) /\ proof[1] = sent[1][2])
    BY <1>1 DEF DecommitInv
  <2> QED BY <2>1, <2>2, <2>3 DEF VerdictIsExact
<1> QED
  BY <1>1, CommitmentInvariant, DecommitInvariant, PTL

(* Nodes of different levels have different numbers, and the ancestor of a *)
(* queried leaf d levels up is the node of its element there.              *)
NodeOf(k, x, node) ==
  k \in 1..(Height + 1) /\ x \in 0..(NElements(k) - 1) /\ node = NElements(k) + x

LEMMA NodesApart ==
  ASSUME NEW w \in Nat, NEW h \in Nat, NEW s \in Nat, NEW i \in Nat, Sizes(w, h, s, i),
         NEW k, NEW l, NEW x, NEW y, NEW node, NodeOf(k, x, node), NodeOf(l, y, node)
  PROVE  k = l /\ x = y
<1>0. /\ k \in 1..(h + 1) /\ x \in 0..(NElements(k) - 1)
      /\ l \in 1..(h + 1) /\ y \in 0..(NElements(l) - 1)
      /\ NElements(k) + x = NElements(l) + y
  BY DEF NodeOf, Sizes
<1>1. PICK m \in Nat, n \in Nat : m = NElements(k) /\ n = NElements(l)
  <2>1. k \in 0..(h + 1) /\ l \in 0..(h + 1)
    BY <1>0
  <2> QED BY <2>1, LevelSizes
<1>2. m = Pow2[h - (k - 1)] /\ n = Pow2[h - (l - 1)] /\ h - (k - 1) \in Nat /\ h - (l - 1) \in Nat
  BY <1>0, <1>1 DEF Sizes
<1>3. ~(k < l)
  <2>1. ASSUME k < l PROVE FALSE
    <3>1. h - (l - 1) < h - (k - 1)
      BY <1>0, <2>1
    <3>2. 2 * n <= m
      BY <1>2, <3>1, PowersGrow
    <3>3. m + x = n + y /\ x \in Nat /\ y < n
      BY <1>0, <1>1
    <3> QED BY ONLY <3>2, <3>3, <1>0, m \in Nat, n \in Nat
  <2> QED BY <2>1
<1>4. ~(l < k)
  <2>1. ASSUME l < k PROVE FALSE
    <3>1. h - (k - 1) < h - (l - 1)
      BY <1>0, <2>1
    <3>2. 2 * m <= n
      BY <1>2, <3>1, PowersGrow
    <3>3. m + x = n + y /\ y \in Nat /\ x < m
      BY <1>0, <1>1
    <3> QED BY ONLY <3>2, <3>3, <1>0, m \in Nat, n \in Nat
  <2> QED BY <2>1
<1>5. k = l
  BY <1>0, <1>3, <1>4
<1>6. m = n /\ m + x = n + y
  BY <1>0, <1>1, <1>5
<1>7. x \in Int /\ y \in Int
  BY <1>0
<1>8. x = y
  BY ONLY <1>6, <1>7, m \in Nat
<1> QED
  BY <1>5, <1>8

LeafOf(q) == IF shape.plain THEN NSegments + q ELSE NPackages + q \div PerPackage

LEMMA MultiplePlus ==
  ASSUME NEW m \in Nat, NEW n \in Nat \ {0}, NEW a \in Nat
  PROVE  (m * n + a) \div n = m + a \div n
<1>1. PICK b \in Nat, r \in Nat : b = a \div n /\ r = a % n /\ a = n * b + r /\ r < n
  OBVIOUS
<1>2. m * n + a = n * (m + b) + r
  BY <1>1
<1>3. \A p, y, z \in Nat : p > 0 /\ z < p => (p * y + z) \div p = y
  OBVIOUS
<1>4. PICK c \in Nat : c = m + b
  BY ONLY m \in Nat, b \in Nat
<1>5. (n * c + r) \div n = c
  BY <1>1, <1>3
<1> QED
  BY <1>1, <1>2, <1>4, <1>5

LEMMA AncestorIs ==
  ASSUME NEW w \in Nat, NEW h \in Nat, NEW s \in Nat, NEW i \in Nat, Sizes(w, h, s, i), ValidQueries,
         NEW q \in queries, NEW d \in 0..h
  PROVE  \E e \in QueriesAt(d + 1) : e \in 0..(NElements(d + 1) - 1) /\ LeafOf(q) \div Pow2[d] = NElements(d + 1) + e
<1>1. queries \in SUBSET (0..(NElements(0) - 1)) /\ 0 \in 0..(h + 1) /\ d + 1 \in 1..(h + 1) /\ d + 1 \in 0..(h + 1)
  BY DEF ValidQueries
<1>2. q \in Nat
  <2>1. NElements(0) \in Nat
    BY <1>1, LevelSizes
  <2> QED BY <1>1, <2>1
<1>3. PICK a \in Nat : a = q \div PerPackage /\ LeafOf(q) = Pow2[h] + a
  <2>1. CASE shape.plain
    <3>1. w = 0 /\ i = 0 /\ h = s
      BY <2>1 DEF Sizes
    <3>2. PerPackage = 1 /\ NSegments = Pow2[h]
      BY <3>1, Pow2Is DEF Sizes
    <3>3. q \div 1 = q
      BY <1>2
    <3> QED BY <1>2, <2>1, <3>2, <3>3 DEF LeafOf
  <2>2. CASE ~shape.plain
    <3>1. PerPackage \in Nat \ {0} /\ NPackages = Pow2[h]
      BY Pow2Is DEF Sizes
    <3>2. q \div PerPackage \in Nat
      BY <1>2, <3>1
    <3> QED BY <2>2, <3>1, <3>2 DEF LeafOf
  <2> QED BY <2>1, <2>2
<1>4. PICK m \in Nat, n \in Nat \ {0} : m = Pow2[h - d] /\ n = Pow2[d] /\ Pow2[h] = m * n
  <2>1. h - d \in Nat /\ d \in Nat /\ d <= h
    OBVIOUS
  <2>2. Pow2[h] = Pow2[h - d] * Pow2[d]
    BY <2>1, PowersDivide
  <2> QED BY <2>1, <2>2, Pow2Is
<1>5. (m * n + a) \div n = m + a \div n
  BY MultiplePlus
<1>6. NElements(d + 1) = m
  <2>1. NElements(d + 1) = Pow2[h - ((d + 1) - 1)] /\ (d + 1) - 1 = d
    BY <1>1 DEF Sizes
  <2> QED BY <1>4, <2>1
<1>7. a \div n \in QueriesAt(d + 1)
  <2>1. d + 1 # 0 /\ (d + 1) - 1 = d
    OBVIOUS
  <2>2. QueriesAt(d + 1) = {(r \div PerPackage) \div Pow2[d] : r \in queries}
    BY <2>1 DEF QueriesAt
  <2> QED BY <1>3, <1>4, <2>2
<1>8. QueriesAt(d + 1) \in SUBSET (0..(NElements(d + 1) - 1))
  BY <1>1, QueriesRise
<1> QED
  BY <1>3, <1>4, <1>5, <1>6, <1>7, <1>8

(* Everything after the root is a value missing at some level.              *)
LEMMA PlaceOf ==
  ASSUME NEW w \in Nat, NEW h \in Nat, NEW s \in Nat, NEW i \in Nat, Sizes(w, h, s, i), ValidQueries,
         RightSent, Len(sent) \in Nat, NEW x \in 2..Len(sent)
  PROVE  \E k \in 0..h : \E y \in 1..Len(Missing(k)) :
           x = SentBefore(k) + y /\ sent[x][1] = Label(k, Missing(k)[y])
<1>1. Height = h
  BY DEF Sizes
<1>2. PICK before : before = [k \in 0..(h + 1) |-> SentBefore(k) - 1]
  OBVIOUS
<1>3. /\ SentBefore(0) = 1
      /\ \A k \in 0..(h + 1) : SentBefore(k) \in Nat /\ SentBefore(k) >= 1
      /\ \A k \in 0..h : SentBefore(k + 1) = SentBefore(k) + Len(Missing(k))
  BY SentBeforeIs DEF ValidQueries
<1>4. PICK p \in 1..(h + 1) : before[p - 1] <= x - 2 /\ x - 2 < before[p]
  <2>1. before[0] = 0 /\ \A k \in 0..(h + 1) : before[k] \in Nat /\ before[k] = SentBefore(k) - 1
    <3>1. ASSUME NEW k \in 0..(h + 1) PROVE before[k] \in Nat /\ before[k] = SentBefore(k) - 1
      <4>1. before[k] = SentBefore(k) - 1
        BY <1>2
      <4>2. PICK b \in Nat : b = SentBefore(k) /\ b >= 1
        BY <1>3
      <4>3. b - 1 \in Nat
        BY <4>2
      <4> QED BY <4>1, <4>2, <4>3
    <3>2. before[0] = 0
      <4>1. before[0] = SentBefore(0) - 1 /\ 1 - 1 = 0
        BY <1>2
      <4> QED BY <1>3, <4>1
    <3> QED BY <3>1, <3>2
  <2>2. Len(sent) <= SentBefore(h + 1) /\ h + 1 \in 0..(h + 1)
    BY <1>1 DEF RightSent, IsSent
  <2>3. PICK c \in Nat : c = SentBefore(h + 1) /\ before[h + 1] = c - 1 /\ x <= c
    <3>1. PICK c \in Nat : c = SentBefore(h + 1)
      BY <1>3, <2>2
    <3>2. x <= c
      BY <2>2, <3>1
    <3> QED BY <2>1, <2>2, <3>1, <3>2
  <2>4. x - 2 \in Nat /\ x - 2 < before[h + 1]
    BY <2>3
  <2>5. h + 1 \in Nat /\ x - 2 \in Nat
    BY <2>4
  <2> QED BY <2>1, <2>4, <2>5, BetweenBounds
<1>5. PICK k \in 0..h : k = p - 1 /\ k + 1 = p
  BY <1>4
<1>6. PICK a \in Nat, n \in Nat : a = SentBefore(k) /\ n = Len(Missing(k)) /\ SentBefore(p) = a + n
  <2>1. k \in 0..(h + 1)
    OBVIOUS
  <2>2. Len(Missing(k)) \in Nat
    BY <2>1, MissingAre DEF ValidQueries
  <2> QED BY <1>3, <1>5, <2>1, <2>2
<1>7. x - a \in 1..n /\ a + (x - a) = x
  <2>1. before[k] = a - 1 /\ before[p] = (a + n) - 1
    <3>1. k \in 0..(h + 1) /\ p \in 0..(h + 1)
      OBVIOUS
    <3>2. before[k] = SentBefore(k) - 1 /\ before[p] = SentBefore(p) - 1
      BY <1>2, <3>1
    <3> QED BY <1>6, <3>2
  <2>2. a - 1 <= x - 2 /\ x - 2 < (a + n) - 1
    BY <1>4, <1>5, <2>1
  <2>3. x \in Nat
    OBVIOUS
  <2> QED BY ONLY <2>2, <2>3, a \in Nat, n \in Nat
<1>8. PICK y \in 1..Len(Missing(k)) : x = SentBefore(k) + y
  BY <1>6, <1>7
<1>9. sent[SentBefore(k) + y] = <<Label(k, Missing(k)[y]), Value(k, Missing(k)[y])>>
  BY <1>1, <1>8 DEF RightSent, IsSent
<1> QED
  BY <1>8, <1>9

(* The decommitment holds no value twice, and neither a queried row nor a *)
(* node that follows from one (NothingRedundant; merkle.cc:83-89,         *)
(* packer_hasher.cc:148-170).                                             *)
THEOREM NothingSentTwice ==
  CommitmentSpec => []NothingRedundant
<1>1. ASSUME CommitmentInv, DecommitInv PROVE NothingRedundant
  <2>1. PICK labels : labels = [x \in 2..Len(sent) |-> sent[x][1]]
    OBVIOUS
  <2>2. /\ \A x, y \in 2..Len(sent) : labels[x] = labels[y] => x = y
        /\ \A x \in 2..Len(sent) :
             IF labels[x][1] = "element" THEN labels[x][2] \notin queries
             ELSE \A q \in queries : \A d \in 0..Height : labels[x][2] # LeafOf(q) \div Pow2[d]
    <3>1. CASE at \notin Decommitting \/ at \in {"committed", "requested"}
      <4>1. sent = <<>> \/ Len(sent) = 1
        BY <1>1, <3>1 DEF CommitmentInv, DecommitInv, AddingInv
      <4>2. Len(sent) \in {0, 1}
        BY <4>1
      <4>3. 2..Len(sent) = {}
        BY <4>2
      <4> QED BY <4>3
    <3>2. CASE at \in Decommitting \ {"committed", "requested"}
      <4>1. ValidQueries /\ RightSent /\ CommittedInv /\ shape \in Shapes /\ Builds(NSegments)
        BY <1>1, <3>2 DEF CommitmentInv, DecommitInv, Decommitting
      <4>2. PICK w, h, s, i \in Nat : Sizes(w, h, s, i)
        BY <4>1, SizesAre
      <4>3. Len(sent) \in Nat /\ Height = h
        BY <4>1, <4>2, ListProperties DEF CommittedInv, Sizes
      <4>4. ASSUME NEW x \in 2..Len(sent)
            PROVE  \E k \in 0..h : \E y \in 1..Len(Missing(k)) :
                     x = SentBefore(k) + y /\ labels[x] = Label(k, Missing(k)[y])
        <5>1. \E k \in 0..h : \E y \in 1..Len(Missing(k)) :
                x = SentBefore(k) + y /\ sent[x][1] = Label(k, Missing(k)[y])
          BY <4>1, <4>2, <4>3, PlaceOf
        <5> QED BY <2>1, <5>1
      <4>5. ASSUME NEW k \in 0..h, NEW y \in 1..Len(Missing(k))
            PROVE  /\ Missing(k)[y] \in 0..(NElements(k) - 1) /\ Missing(k)[y] \notin QueriesAt(k)
                   /\ \A z \in 1..Len(Missing(k)) : Missing(k)[z] = Missing(k)[y] => z = y
        <5>1. k \in 0..(h + 1)
          OBVIOUS
        <5>2. /\ MissingSet(k) \in SUBSET (0..(NElements(k) - 1)) /\ NElements(k) \in Nat
              /\ Len(Missing(k)) \in Nat
              /\ \A z \in 1..Len(Missing(k)) : Missing(k)[z] \in MissingSet(k)
              /\ \A u, v \in 1..Len(Missing(k)) : u < v => Missing(k)[u] < Missing(k)[v]
          BY <4>1, <4>2, <5>1, MissingAre DEF ValidQueries
        <5>3. Missing(k)[y] \in 0..(NElements(k) - 1)
          BY <5>2
        <5>4. Missing(k)[y] \notin QueriesAt(k)
          BY <5>2 DEF MissingSet
        <5>5. ASSUME NEW z \in 1..Len(Missing(k)), Missing(k)[z] = Missing(k)[y] PROVE z = y
          <6>1. ~(z < y) /\ ~(y < z)
            <7>1. PICK e : e = Missing(k)[y] /\ e = Missing(k)[z] /\ e \in Nat
              BY <5>2, <5>3, <5>5
            <7>2. ~(e < e)
              BY <7>1
            <7> QED BY <5>2, <7>1, <7>2
          <6> QED BY <5>2, <6>1
        <5> QED BY <5>3, <5>4, <5>5
      <4>6. ASSUME NEW x \in 2..Len(sent), NEW y \in 2..Len(sent), labels[x] = labels[y] PROVE x = y
        <5>0. PICK k \in 0..h, l \in 0..h :
                /\ \E u \in 1..Len(Missing(k)) : x = SentBefore(k) + u /\ labels[x] = Label(k, Missing(k)[u])
                /\ \E v \in 1..Len(Missing(l)) : y = SentBefore(l) + v /\ labels[y] = Label(l, Missing(l)[v])
          BY <4>4
        <5>1. PICK u \in 1..Len(Missing(k)) :
                x = SentBefore(k) + u /\ labels[x] = Label(k, Missing(k)[u])
          BY <5>0
        <5>2. PICK v \in 1..Len(Missing(l)) :
                y = SentBefore(l) + v /\ labels[y] = Label(l, Missing(l)[v])
          BY <5>0
        <5>3. PICK d, e : d = Missing(k)[u] /\ e = Missing(l)[v] /\ Label(k, d) = Label(l, e)
          BY <4>6, <5>1, <5>2
        <5>4. k = l /\ d = e
          <6>1. CASE k = 0
            <7>1. Label(k, d) = <<"element", d>>
              BY <6>1 DEF Label
            <7>2. l = 0
              BY <5>3, <7>1 DEF Label
            <7>3. Label(l, e) = <<"element", e>>
              BY <7>2 DEF Label
            <7> QED BY <5>3, <6>1, <7>1, <7>2, <7>3
          <6>2. CASE k # 0
            <7>1. Label(k, d) = <<"node", NElements(k) + d>>
              BY <6>2 DEF Label
            <7>2. l # 0
              BY <5>3, <7>1 DEF Label
            <7>3. Label(l, e) = <<"node", NElements(l) + e>>
              BY <7>2 DEF Label
            <7>4. NElements(k) + d = NElements(l) + e
              <8>1. PICK m, n : m = NElements(k) + d /\ n = NElements(l) + e
                OBVIOUS
              <8>2. <<"node", m>> = <<"node", n>>
                BY <5>3, <7>1, <7>3, <8>1
              <8> QED BY <8>1, <8>2
            <7>5. k \in 1..(h + 1) /\ l \in 1..(h + 1)
              BY <6>2, <7>2
            <7>6. d \in 0..(NElements(k) - 1) /\ e \in 0..(NElements(l) - 1)
              BY <4>5, <5>3
            <7>7. PICK node : NodeOf(k, d, node) /\ NodeOf(l, e, node)
              BY <4>3, <7>4, <7>5, <7>6 DEF NodeOf
            <7> QED BY <4>2, <7>7, NodesApart
          <6> QED BY <6>1, <6>2
        <5>5. u = v
          BY <4>5, <5>3, <5>4
        <5> QED BY <5>1, <5>2, <5>4, <5>5
      <4>7. ASSUME NEW x \in 2..Len(sent)
            PROVE  IF labels[x][1] = "element" THEN labels[x][2] \notin queries
                   ELSE \A q \in queries : \A d \in 0..Height : labels[x][2] # LeafOf(q) \div Pow2[d]
        <5>0. PICK k \in 0..h : \E u \in 1..Len(Missing(k)) : labels[x] = Label(k, Missing(k)[u])
          BY <4>4
        <5>1. PICK u \in 1..Len(Missing(k)) : labels[x] = Label(k, Missing(k)[u])
          BY <5>0
        <5>2. PICK e : e = Missing(k)[u] /\ labels[x] = Label(k, e)
                       /\ e \in 0..(NElements(k) - 1) /\ e \notin QueriesAt(k)
          BY <4>5, <5>1
        <5>3. CASE k = 0
          <6>1. labels[x] = <<"element", e>>
            BY <5>2, <5>3 DEF Label
          <6>2. QueriesAt(0) = queries
            BY DEF QueriesAt
          <6> QED BY <5>2, <5>3, <6>1, <6>2
        <5>4. CASE k # 0
          <6>1. labels[x] = <<"node", NElements(k) + e>>
            BY <5>2, <5>4 DEF Label
          <6>2. ASSUME NEW q \in queries, NEW d \in 0..h, NElements(k) + e = LeafOf(q) \div Pow2[d]
                PROVE  FALSE
            <7>1. PICK a \in QueriesAt(d + 1) : /\ a \in 0..(NElements(d + 1) - 1)
                                                /\ LeafOf(q) \div Pow2[d] = NElements(d + 1) + a
              BY <4>1, <4>2, AncestorIs
            <7>2. k \in 1..(h + 1) /\ d + 1 \in 1..(h + 1)
              BY <5>4
            <7>3. PICK l \in 1..(h + 1) : l = d + 1
              BY <7>2
            <7>4. a \in QueriesAt(l) /\ a \in 0..(NElements(l) - 1)
              BY <7>1, <7>3
            <7>5. NElements(k) + e = NElements(l) + a
              BY <6>2, <7>1, <7>3
            <7>6. PICK node : NodeOf(k, e, node) /\ NodeOf(l, a, node)
              BY <4>3, <5>2, <7>2, <7>4, <7>5 DEF NodeOf
            <7>7. k = l /\ e = a
              BY <4>2, <7>6, NodesApart
            <7> QED BY <5>2, <7>4, <7>7
          <6> QED BY <4>3, <6>1, <6>2
        <5> QED BY <5>3, <5>4
      <4> QED BY <4>6, <4>7
    <3> QED BY <3>1, <3>2
  <2>3. DOMAIN labels = 2..Len(sent)
    BY <2>1
  <2> QED BY <2>1, <2>2, <2>3 DEF NothingRedundant, LeafOf
<1> QED
  BY <1>1, CommitmentInvariant, DecommitInvariant, PTL
=============================================================================
