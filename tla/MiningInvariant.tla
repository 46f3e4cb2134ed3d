--------------------------- MODULE MiningInvariant ---------------------------
(***************************************************************************)
(* What the properties of Mining need on top of themselves to be kept by   *)
(* every step.                                                             *)
(***************************************************************************)
EXTENDS Mining

\* The cache holds what is generated for the epoch and the size it is kept under.
CacheSound == cache # NoDag => cache.elements = Generate(cache.epoch, cache.size)

\* A walk of no accesses commits nothing, so that no block is mined at difficulty 0,
\* which is where a miner may begin but not where the controller may lead it.
Paced == recent # <<>> => difficulty >= 1

MInv == TypeOK /\ CacheSound /\ Paced
=============================================================================
