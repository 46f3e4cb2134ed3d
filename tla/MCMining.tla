------------------------------- MODULE MCMining -------------------------------
(***************************************************************************)
(* Four blocks, two to an epoch and two of them in the ramp-up; hashes     *)
(* are small numbers, so that they collide as well.                        *)
(***************************************************************************)
EXTENDS Mining

\* The numbers of a header are all that tells two of them apart.
MCDigest(hash, nonce) ==
  LET f == hash[2]
  IN  (f[1] + f[3] + 2 * f[6] + 3 * f[7] + 5 * f[8] + f[11] + 7 * nonce + 1) % 16
MCAbsorb(mix, element) == (mix * 5 + element * 7 + 3) % 16
MCFinalHash(mix) == (mix * 11 + 4) % 16
MCGenerate(epoch, size) == [i \in 1..(size \div 64) |-> (epoch * 5 + i * 3) % 16]

MCBodies == {<<"x">>, <<"x", "y">>, <<"y", "x">>}
=============================================================================
