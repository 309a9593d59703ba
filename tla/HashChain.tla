----------------------------- MODULE HashChain -----------------------------
(***************************************************************************)
(* HashChain and PrngImpl (src/starkware/randomness/hash_chain.{h,cc},     *)
(* prng.h): a stream of pseudo random bytes generated from a digest and a  *)
(* counter, with a buffer for the bytes of a block that were not asked     *)
(* for.  Mixing data into the seed replaces the digest.                    *)
(*                                                                         *)
(* The hash function is taken to be collision free: a digest is the        *)
(* sequence of what was hashed on the way to it.  An element is the number *)
(* added to the previous digest and the payload hashed after it.  Payloads *)
(* are numbered so that payload c is the block counter c is padded to.     *)
(***************************************************************************)
EXTENDS Naturals, Sequences, FiniteSets

CONSTANTS DigestNumBytes,   (* HashT::kDigestNumBytes                       *)
          Messages,         (* the data mixed into the seed                 *)
          MaxRequest,       (* bound: bytes asked for at once               *)
          MaxBlocks,        (* bound: blocks generated from one seed        *)
          MaxMixes          (* bound: times the seed changes                *)

D == DigestNumBytes

ASSUME DigestAssumption == D \in Nat \ {0}
ASSUME MessagesAssumption == Messages \subseteq Nat
ASSUME BoundsAssumption == MaxRequest \in Nat /\ MaxBlocks \in Nat /\ MaxMixes \in Nat

VARIABLES
  digest,     (* hash_                                                      *)
  counter,    (* counter_                                                   *)
  spare,      (* spare_bytes_, an array of 2 * D bytes                      *)
  numSpare,   (* num_spare_bytes_                                           *)
  out,        (* the bytes delivered last, since the seed changed           *)
  used        (* history: the bytes delivered before                        *)

vars == <<digest, counter, spare, numSpare, out, used>>

(* A random byte is known by its seed, its block and its place in it. *)
Digests == Seq({0, 1} \X Nat)
Bytes == Digests \X Nat \X (1..D)
Zero == <<>>                                \* what the array is filled with

RangeOf(f) == {f[i] : i \in DOMAIN f}

TypeOK ==
  /\ digest \in Digests
  /\ counter \in Nat
  /\ spare \in [1..(2 * D) -> Bytes \union {Zero}]
  /\ numSpare \in Nat
  /\ out \in Seq(Bytes)
  /\ used \subseteq Bytes

Init ==
  /\ digest = <<>>                          \* the hash of the public input
  /\ counter = 0
  /\ spare = [i \in 1..(2 * D) |-> Zero]
  /\ numSpare = 0
  /\ out = <<>>
  /\ used = {}

(* HashWithCounter, block c of a seed. *)
HashWithCounter(d, c) == Append(d, <<0, c>>)

(* The blocks a request of n bytes takes whole, and the bytes left to get. *)
FullBlocks(n) == n \div D
TailBytes(n) == n % D

WholeBlocks(n) ==
  [i \in 1..(FullBlocks(n) * D) |-> <<digest, counter + (i - 1) \div D, ((i - 1) % D) + 1>>]

TakesLessThanAll(n) == TailBytes(n) < numSpare                         \* mutant

(* The condition under which the tail comes from the buffer. *)
EnoughSpare(n) == TailBytes(n) <= numSpare

NotShifted(t) == spare                                            \* mutant

(* Take t bytes from the front of the buffer and move the rest down. *)
Shifted(t) == [i \in 1..(2 * D) |-> IF i + t <= 2 * D THEN spare[i + t] ELSE spare[i]]

(* GetRandomBytes: the tail is in the buffer. *)
FromSpare(n) ==
  /\ EnoughSpare(n)
  /\ out' = WholeBlocks(n) \o [i \in 1..TailBytes(n) |-> spare[i]]
  /\ spare' = Shifted(TailBytes(n))
  /\ numSpare' = numSpare - TailBytes(n)
  /\ counter' = counter + FullBlocks(n)

(* GetRandomBytes: the tail is the beginning of one more block, the rest   *)
(* of that block goes to the end of the buffer.                            *)
FromBlock(n) ==
  LET block == counter + FullBlocks(n)
      t == TailBytes(n)
  IN  /\ ~EnoughSpare(n)
      /\ out' = WholeBlocks(n) \o [i \in 1..t |-> <<digest, block, i>>]
      /\ spare' = [i \in 1..(2 * D) |-> IF i \in (numSpare + 1)..(numSpare + D - t)
                                        THEN <<digest, block, i - numSpare + t>>
                                        ELSE spare[i]]
      /\ numSpare' = numSpare + (D - t)
      /\ counter' = block + 1

GetRandomBytes(n) ==
  /\ counter + FullBlocks(n) < MaxBlocks
  /\ FromSpare(n) \/ FromBlock(n)
  /\ used' = used \union RangeOf(out)
  /\ UNCHANGED digest

SpareKept == UNCHANGED numSpare /\ counter' = 0                   \* mutant

(* A new seed starts with its first block and no spare bytes. *)
Restart == numSpare' = 0 /\ counter' = 0

AddsNothing == 0                                                  \* mutant

(* The seed_increment of PrngImpl::MixSeedWithBytes. *)
SeedIncrement == 1

MixSeedWithBytes(m) ==
  /\ Len(digest) < MaxMixes
  /\ digest' = Append(digest, <<SeedIncrement, m>>)
  /\ Restart
  /\ out' = <<>>
  /\ used' = used \union RangeOf(out)
  /\ UNCHANGED spare

Next == \/ \E n \in 0..MaxRequest : GetRandomBytes(n)
        \/ \E m \in Messages : MixSeedWithBytes(m)

Spec == Init /\ [][Next]_vars
-----------------------------------------------------------------------------
(***************************************************************************)
(* Properties                                                              *)
(***************************************************************************)

(* The buffer never holds a whole block, so the check for room in it never *)
(* fails and the copy into it never goes beyond its end                    *)
(* (hash_chain.cc:101-110), whatever the sizes of the requests.            *)
SpareFits == numSpare < D

(* No byte of the stream is delivered twice, within a request or by two of *)
(* them: neither by a block that is used again nor by spare bytes that     *)
(* stay in the buffer (hash_chain.cc:46-68).                               *)
NoByteTwice ==
  /\ \A i, j \in DOMAIN out : out[i] = out[j] => i = j
  /\ RangeOf(out) \intersect used = {}

(* What is delivered after data was mixed into the seed depends on it: no  *)
(* byte of an earlier seed is left over (hash_chain.cc:79-92).             *)
FreshAfterMix == \A i \in DOMAIN out : out[i][1] = digest

(* The seed is never a block that was delivered as random bytes; this is   *)
(* what seed_increment is for (hash_chain.h:46-50).                        *)
DomainSeparation ==
  \A b \in used \union RangeOf(out) : digest # HashWithCounter(b[1], b[2])
=============================================================================
