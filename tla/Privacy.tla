------------------------------- MODULE Privacy -------------------------------
(***************************************************************************)
(* Stealth addresses, commitments, linkable ring signatures and range      *)
(* proofs (src/src/privacy.rs), over the group of Q elements: a point is   *)
(* the multiple of the generator G that it is, a scalar a residue.  The    *)
(* hash functions are parameters, and what the code draws at random is     *)
(* handed in.                                                              *)
(***************************************************************************)
EXTENDS Integers, Sequences, SequencesExt

CONSTANTS
  Q,                   \* the order of the group, a prime
  H,                   \* pedersen_h
  HashPoint(_),        \* hash_pk: the point a public key is hashed to
  HashScalar(_),       \* hash_to_scalar of a point
  Challenge(_, _, _)   \* mlsag_challenge of a message and two points

Scalars == 0..(Q - 1)

\* pedersen_h is a generator, as all points but the neutral one are.
ASSUME PrivacyAssumption ==
  /\ Q \in Nat \ {0, 1} /\ H \in Scalars /\ \E h \in Scalars : (h * H) % Q = 1
  /\ \A p \in Scalars : HashPoint(p) \in Scalars /\ HashScalar(p) \in Scalars

Mod(x) == x % Q
\* from_bytes_mod_order_wide: the number that a hash is, reduced to a scalar.
Scalar(hash) == IF hash \in Int THEN Mod(hash) ELSE 0
Total(s) == FoldLeft(LAMBDA sum, x : Mod(sum + x), 0, s)
Upto(n) == [i \in 1..n |-> i]

-----------------------------------------------------------------------------
(* Stealth addresses and commitments                                       *)

\* derive_destination for a random r.
Destination(address, r) ==
  [dest |-> Mod(HashScalar(Mod(r * address.view)) + address.spend), ephemeral |-> Mod(r)]

\* Mutant: the spend secret is hashed with the view secret left out.
RecoverBySpend(view, spend, ephemeral) == Mod(HashScalar(Mod(spend * ephemeral)) + spend)

\* recover_one_time_key.
Recover(view, spend, ephemeral) == Mod(HashScalar(Mod(view * ephemeral)) + spend)

\* Commitment::new_with_blinding.
Commit(v, blinding) == Mod(blinding + v * H)

-----------------------------------------------------------------------------
(* Ring signatures: ring[n][j] is the key at the n-th place of layer j.    *)

\* The challenge that follows each challenge at a place of the ring.
NextChallenge(keys, images, responses, msg) ==
  [c \in Scalars |->
     Scalar(Challenge(msg,
       Total([j \in DOMAIN images |-> responses[j] + c * keys[j]]),
       Total([j \in DOMAIN images |-> responses[j] * HashPoint(keys[j]) + c * images[j]])))]

\* Mutant: the image is that of the first key of the ring.
ImagesOfFirst(ring, secrets, real) ==
  [j \in 1..Len(secrets) |-> Mod(secrets[j] * HashPoint(ring[1][j]))]

\* The key image of each layer.
KeyImages(ring, secrets, real) ==
  [j \in 1..Len(secrets) |-> Mod(secrets[j] * HashPoint(ring[real][j]))]

\* The challenge that the real place would give if its responses were alpha.
FirstChallenge(keys, alpha, msg) ==
  Scalar(Challenge(msg, Total(alpha),
                   Total([j \in DOMAIN alpha |-> alpha[j] * HashPoint(keys[j])])))

\* From the real place round the ring: the n-th is the challenge that comes out of
\* the (n-1)-th place after it.
Challenges(ring, images, real, msg, first, random) ==
  LET place(n) == ((real + n - 2) % Len(ring)) + 1
      cs[n \in 1..Len(ring)] ==
        IF n = 1 THEN first
        ELSE NextChallenge(ring[place(n)], images, random[place(n)], msg)[cs[n - 1]]
  IN  cs

\* Mutant: the challenges start at the first place of the ring.
SignFromFirst(ring, secrets, real, msg, alpha, random) ==
  LET images == KeyImages(ring, secrets, real)
      cs     == Challenges(ring, images, 1, msg, FirstChallenge(ring[real], alpha, msg), random)
  IN  [images |-> images, c0 |-> cs[Len(ring) - real + 1],
       responses |-> [random EXCEPT ![real] =
         [j \in 1..Len(secrets) |-> Mod(alpha[j] - cs[Len(ring)] * secrets[j])]]]

\* sign: the challenge for the first place of the ring goes into the signature, and
\* the one for the real place closes the ring.
Sign(ring, secrets, real, msg, alpha, random) ==
  LET images == KeyImages(ring, secrets, real)
      cs     == Challenges(ring, images, real, msg, FirstChallenge(ring[real], alpha, msg), random)
  IN  [images |-> images, c0 |-> cs[Len(ring) - real + 1],
       responses |-> [random EXCEPT ![real] =
         [j \in 1..Len(secrets) |-> Mod(alpha[j] - cs[Len(ring)] * secrets[j])]]]

\* The challenge that comes back after every place of the ring.
Around(ring, images, responses, msg, c0) ==
  FoldLeft(LAMBDA c, n : NextChallenge(ring[n], images, responses[n], msg)[c],
           c0, Upto(Len(ring)))

\* verify: the shapes agree, and the challenges come back to where they started.
VerifySignature(sig, ring, msg) ==
  LET layers == Len(sig.images)
  IN  /\ Len(ring) = Len(sig.responses) /\ Len(ring) >= 2 /\ layers > 0
      /\ \A n \in 1..Len(ring) : Len(ring[n]) = layers /\ Len(sig.responses[n]) = layers
      /\ sig.c0 = Around(ring, sig.images, sig.responses, msg, sig.c0)

-----------------------------------------------------------------------------
(* Range proofs: a commitment to each bit, and that it is to 0 or to 1.    *)

BitRing(c) == <<<<c>>, <<Mod(c - H)>>>>
\* Powers of two.
Two[n \in Nat] == IF n = 0 THEN 1 ELSE 2 * Two[n - 1]
Bit(v, i) == (v \div Two[i - 1]) % 2

\* The bits of v under the blindings given; a signature's randomness is made of
\* the blinding, of which nothing depends on it.
ProveBits(v, blindings) ==
  LET commitments == [i \in 1..Len(blindings) |-> Commit(Bit(v, i), blindings[i])]
  IN  [bits |-> Len(blindings),
       commitments |-> commitments,
       proofs |-> [i \in 1..Len(blindings) |->
         Sign(BitRing(commitments[i]), <<blindings[i]>>, Bit(v, i) + 1, <<i>>,
              <<Mod(blindings[i] + 1)>>, <<<<blindings[i]>>, <<blindings[i]>>>>)]]

\* prove_with_blinding: the proof, and the blinding that its commitments add up to.
ProveWithBlinding(v, blindings) ==
  [proof |-> ProveBits(v, blindings),
   blinding |-> Total([i \in 1..Len(blindings) |-> Mod(blindings[i]) * Two[i - 1]])]

\* RangeProof::verify.
VerifyRange(proof, commitment) ==
  LET cs == proof.commitments
  IN  /\ Len(cs) <= 64 /\ Len(cs) = Len(proof.proofs) /\ Len(cs) = proof.bits
      /\ commitment = Total([i \in 1..Len(cs) |-> Two[i - 1] * cs[i]])
      /\ \A i \in 1..Len(cs) : VerifySignature(proof.proofs[i], BitRing(cs[i]), <<i>>)
=============================================================================
