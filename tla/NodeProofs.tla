----------------------------- MODULE NodeProofs ------------------------------
(***************************************************************************)
(* Proofs about a node's chain and the two ways it is composed.  The block *)
(* tree that no step changes: the path from a block to its root, the       *)
(* replay of that path, and what get_ancestors, find_lca and               *)
(* get_chain_to_fork return on it.  The chain (NodeChain): the ledger is   *)
(* always the replay of the canonical chain, every canonical block can be  *)
(* taken back exactly, and what the fork choice and a reorganisation do    *)
(* with them.  Then the same steps on a ledger that falls short of the     *)
(* replay of its chain (Shortfall): blocks apply and undo alike there, and *)
(* it does not fall further.                                               *)
(* The node with its files (NodePersist): what a start finds, what a run   *)
(* keeps, and what a rebuild reads from the log.  With its pool and its    *)
(* dashboard (Node, NodeDashboard): a ledger in which failed mining has    *)
(* spent what no block confirms stays sound, and nothing that is good is   *)
(* drained.                                                                *)
(***************************************************************************)
EXTENDS NodePersistInvariant, NodeInvariant, Shortfall, UtxoLedgerProofs

-----------------------------------------------------------------------------
(***************************************************************************)
(* The block tree                                                          *)
(***************************************************************************)

\* Every way up through the parents ends at Zero; in the tree, at a root.
LEMMA TreeFounded ==
  /\ Founded(Hash \cup {Zero}, Parent, {Zero})
  /\ Founded(Hash, Parent, {h \in Hash : Parent[h] = Zero})
  BY TreeAssumption, AcyclicAssumption DEF Founded

-----------------------------------------------------------------------------
(* Paths.                                                                  *)

\* PathFrom satisfies its equation.
LEMMA PathEquation ==
  /\ PathFrom \in [Hash \cup {Zero} -> SUBSET Hash]
  /\ PathFrom[Zero] = {}
  /\ \A h \in Hash : PathFrom[h] = {h} \cup PathFrom[Parent[h]]
  <1> DEFINE D == Hash \cup {Zero}
             Body(g) == [h \in D |-> IF h = Zero THEN {} ELSE {h} \cup g[Parent[h]]]
             base == [h \in {Zero} |-> {}]
             step == [p \in Hash \X SUBSET Hash |-> {p[1]} \cup p[2]]
  <1>1. PathFrom = CHOOSE g : g = Body(g)
    BY DEF PathFrom
  <1>2. Zero \notin Hash /\ \A h \in Hash : h \in D \ {Zero} /\ Parent[h] \in D
    BY TreeAssumption
  <1>3. UpStep(D, SUBSET Hash, {Zero}, base, step)
    BY <1>2 DEF UpStep
  <1>4. PICK f : UpSolution(D, SUBSET Hash, Parent, {Zero}, base, step, f)
    BY <1>3, TreeFounded, FoundedRecursion
  <1>5. f = Body(f)
    <2>1. ASSUME NEW h \in Hash  PROVE  step[<<h, f[Parent[h]]>>] = {h} \cup f[Parent[h]]
      BY <1>2, <1>4 DEF UpSolution
    <2>2. base[Zero] = {}
      OBVIOUS
    <2>3. f = [h \in D |-> f[h]]
      BY <1>4 DEF UpSolution
    <2>4. ASSUME NEW h \in D  PROVE  f[h] = IF h = Zero THEN {} ELSE {h} \cup f[Parent[h]]
      <3> HIDE DEF step, base
      <3>1. f[h] = IF h \in {Zero} THEN base[h] ELSE step[<<h, f[Parent[h]]>>]
        BY <1>4 DEF UpSolution
      <3> QED  BY <3>1, <2>1, <2>2
    <2> QED  BY <2>3, <2>4
  <1>6. PathFrom = Body(PathFrom)
    BY <1>1, <1>5
  <1>7. PathFrom[Zero] = {} /\ \A h \in Hash : PathFrom[h] = {h} \cup PathFrom[Parent[h]]
    <2>1. \A h \in D : PathFrom[h] = Body(PathFrom)[h]
      BY <1>6
    <2> QED  BY <2>1, <1>2
  <1>8. \A h \in D : PathFrom[h] \in SUBSET Hash
    <2> DEFINE T == {h \in D : PathFrom[h] \in SUBSET Hash}
    <2>1. Hereditary(D, Parent, {Zero}, T)
      BY <1>2, <1>7 DEF Hereditary
    <2> HIDE DEF T
    <2>2. \A h \in D : h \in T
      BY <2>1, TreeFounded, FoundedInduction
    <2> QED  BY <2>2 DEF T
  <1>9. PathFrom \in [D -> SUBSET Hash]
    <2>1. PathFrom = [h \in D |-> Body(PathFrom)[h]]
      BY <1>6
    <2>2. \A h \in D : Body(PathFrom)[h] = PathFrom[h]
      BY <1>6
    <2> HIDE DEF Body
    <2> QED  BY <2>1, <2>2, <1>8
  <1> QED  BY <1>7, <1>9

\* A set that is closed under parents has the path of each of its blocks.
LEMMA PathWithin ==
  ASSUME NEW S \in SUBSET Hash, \A h \in S : Parent[h] \in S \cup {Zero}, NEW h \in S
  PROVE  PathFrom[h] \subseteq S
  <1> DEFINE T == {g \in Hash \cup {Zero} : g \in S \cup {Zero} => PathFrom[g] \subseteq S}
  <1>1. Hereditary(Hash \cup {Zero}, Parent, {Zero}, T)
    BY TreeAssumption, PathEquation DEF Hereditary
  <1> HIDE DEF T
  <1>2. \A g \in Hash \cup {Zero} : g \in T
    BY <1>1, TreeFounded, FoundedInduction
  <1> QED  BY <1>2 DEF T

\* A path has the path of each of its blocks; no block is under itself.
LEMMA PathFacts ==
  ASSUME NEW h \in Hash
  PROVE  /\ h \in PathFrom[h]
         /\ \A g \in PathFrom[h] : g \in Hash /\ PathFrom[g] \subseteq PathFrom[h]
         /\ \A g \in PathFrom[h] : Parent[g] \in PathFrom[h] \cup {Zero}
         /\ h \notin PathFrom[Parent[h]]
  <1>1. \A g \in Hash : g \in PathFrom[g] /\ PathFrom[g] \in SUBSET Hash
    BY PathEquation
  <1>2. \A g \in Hash \cup {Zero} :
          \A k \in PathFrom[g] : k \in Hash /\ Parent[k] \in PathFrom[g] \cup {Zero}
    <2> DEFINE T == {g \in Hash \cup {Zero} :
                       \A k \in PathFrom[g] : k \in Hash /\ Parent[k] \in PathFrom[g] \cup {Zero}}
    <2>1. Hereditary(Hash \cup {Zero}, Parent, {Zero}, T)
      <3>1. Zero \in T
        BY PathEquation
      <3>2. ASSUME NEW g \in Hash, Parent[g] \in T  PROVE  g \in T
        <4>1. PathFrom[g] = {g} \cup PathFrom[Parent[g]]
          BY PathEquation
        <4>2. Parent[g] \in PathFrom[Parent[g]] \cup {Zero}
          BY <1>1, TreeAssumption
        <4> QED  BY <3>2, <4>1, <4>2
      <3> HIDE DEF T
      <3> QED  BY <3>1, <3>2 DEF Hereditary
    <2> HIDE DEF T
    <2>2. \A g \in Hash \cup {Zero} : g \in T
      BY <2>1, TreeFounded, FoundedInduction
    <2> QED  BY <2>2 DEF T
  <1>3. \A g \in Hash : \A k \in PathFrom[g] : PathFrom[k] \subseteq PathFrom[g]
    <2> SUFFICES ASSUME NEW g \in Hash, NEW k \in PathFrom[g]
                 PROVE  PathFrom[k] \subseteq PathFrom[g]
      OBVIOUS
    <2>1. PathFrom[g] \in SUBSET Hash /\ \A j \in PathFrom[g] : Parent[j] \in PathFrom[g] \cup {Zero}
      BY <1>1, <1>2
    <2> QED  BY <2>1, PathWithin
  <1>4. h \notin PathFrom[Parent[h]]
    <2> SUFFICES ASSUME h \in PathFrom[Parent[h]]  PROVE  FALSE
      OBVIOUS
    <2> DEFINE S == {g \in Hash : h \in PathFrom[g]}
    <2>1. S # {}
      BY <1>1
    <2>2. ASSUME NEW g \in S  PROVE  Parent[g] \in S
      <3>1. PathFrom[g] = {g} \cup PathFrom[Parent[g]]
        BY PathEquation
      <3>2. h \in PathFrom[Parent[g]]
        BY <3>1
      <3>3. Parent[g] # Zero
        BY <3>2, PathEquation
      <3> QED  BY <3>2, <3>3, TreeAssumption
    <2>3. S \in SUBSET Hash
      OBVIOUS
    <2> HIDE DEF S
    <2> QED  BY <2>1, <2>2, <2>3, AcyclicAssumption
  <1> QED  BY <1>1, <1>2, <1>3, <1>4

\* A path is finite.
LEMMA PathFinite ==
  \A h \in Hash : IsFiniteSet(PathFrom[h])
  <1> DEFINE T == {h \in Hash \cup {Zero} : IsFiniteSet(PathFrom[h])}
  <1>1. Zero \in T
    BY PathEquation, FS_EmptySet
  <1>2. ASSUME NEW h \in Hash, Parent[h] \in T  PROVE  h \in T
    <2>1. IsFiniteSet(PathFrom[Parent[h]] \cup {h})
      BY <1>2, FS_AddElement
    <2>2. PathFrom[h] = PathFrom[Parent[h]] \cup {h}
      BY PathEquation
    <2> QED  BY <2>1, <2>2
  <1> HIDE DEF T
  <1>3. Hereditary(Hash \cup {Zero}, Parent, {Zero}, T)
    BY <1>1, <1>2 DEF Hereditary
  <1>4. \A h \in Hash \cup {Zero} : h \in T
    BY <1>3, TreeFounded, FoundedInduction
  <1> QED  BY <1>4 DEF T

-----------------------------------------------------------------------------
(* The replay of a path.                                                   *)

\* Applying a block to any ledger gives a ledger and a diff.
LEMMA ApplyBlockType ==
  ASSUME NEW L \in UtxoSet, NEW b \in Block
  PROVE  ApplyBlock(L, b) \in Outcome
  <1> DEFINE N == Len(TxsOf[b])
  <1>1. N \in Nat
    BY BlockAssumption
  <1>2. PICK P \in [0..N -> Outcome] :
          LET r == P[N]
          IN  ApplyBlock(L, b) = IF r.ok THEN r
                                 ELSE [r EXCEPT !.ledger = UnwindWithDiff(r.ledger, r.diff)]
    BY ApplyByPrefix
  <1> DEFINE r == P[N]
  <1>3. r \in Outcome
    BY <1>1
  <1>4. r.ledger \in UtxoSet /\ r.diff \in BlockDiff
    BY <1>3 DEF Outcome
  <1>5. ApplyBlock(L, b) = IF r.ok THEN r
                           ELSE [r EXCEPT !.ledger = UnwindWithDiff(r.ledger, r.diff)]
    BY <1>2
  <1> HIDE DEF r
  <1> QED  BY <1>3, <1>4, <1>5, UnwindType DEF Outcome

\* The transactions of a chain are those below and those of its last block.
LEMMA ChainTxsFacts ==
  /\ \A h \in Hash : ChainTxs(h) \in SUBSET Tx
  /\ \A h \in Hash : \A g \in PathFrom[h] \ {Genesis} : BodyOf(g) \subseteq ChainTxs(h)
  /\ ChainTxs(Genesis) = {GenesisTx}
  /\ \A h \in Block : Parent[h] # Zero => ChainTxs(h) = ChainTxs(Parent[h]) \cup BodyOf(h)
  <1>1. \A b \in Block : BodyOf(b) \subseteq Tx
    <2> SUFFICES ASSUME NEW b \in Block, NEW m \in 1..Len(TxsOf[b])  PROVE  TxsOf[b][m] \in Tx
      BY DEF BodyOf, FirstOf
    <2> QED  BY BlockAssumption
  <1>2. \A h \in Hash : PathFrom[h] \ {Genesis} \subseteq Block
    BY PathEquation DEF Hash
  <1>3. \A h \in Hash : ChainTxs(h) \in SUBSET Tx
    BY <1>1, <1>2, TransactionAssumption DEF ChainTxs
  <1>4. ChainTxs(Genesis) = {GenesisTx}
    <2>1. PathFrom[Genesis] \ {Genesis} = {}
      BY PathEquation, TreeAssumption DEF Hash
    <2> QED  BY <2>1 DEF ChainTxs
  <1>5. ASSUME NEW h \in Block, Parent[h] # Zero
        PROVE  ChainTxs(h) = ChainTxs(Parent[h]) \cup BodyOf(h)
    <2>1. h # Genesis /\ h \in Hash
      BY TreeAssumption DEF Hash
    <2>2. PathFrom[h] \ {Genesis} = {h} \cup (PathFrom[Parent[h]] \ {Genesis})
      BY <2>1, PathEquation
    <2> QED  BY <2>2 DEF ChainTxs
  <1> QED  BY <1>3, <1>4, <1>5 DEF ChainTxs

\* ReplayOf satisfies its equation.
LEMMA ReplayEquation ==
  /\ ReplayOf \in [Hash -> Outcome]
  /\ ReplayOf[Genesis] = [ok |-> TRUE, ledger |-> GenesisLedger, diff |-> EmptyDiff]
  /\ \A h \in Block :
       IF Parent[h] = Zero THEN ~ReplayOf[h].ok
       ELSE LET r == ReplayOf[Parent[h]]
            IN  ReplayOf[h] = IF r.ok THEN ApplyBlock(r.ledger, h) ELSE r
  <1> DEFINE Roots == {h \in Hash : Parent[h] = Zero}
             start == [ok |-> TRUE, ledger |-> GenesisLedger, diff |-> EmptyDiff]
             none == [ok |-> FALSE, ledger |-> GenesisLedger, diff |-> EmptyDiff]
             On(r, h) == IF r.ok THEN ApplyBlock(r.ledger, h) ELSE r
             Body(g) == [h \in Hash |-> IF h = Genesis THEN start
                                        ELSE IF Parent[h] = Zero THEN none
                                        ELSE On(g[Parent[h]], h)]
             base == [h \in Roots |-> IF h = Genesis THEN start ELSE none]
             step == [p \in (Hash \ Roots) \X Outcome |-> On(p[2], p[1])]
  <1>1. ReplayOf = CHOOSE g : g = Body(g)
    BY DEF ReplayOf
  <1>2. start \in Outcome /\ none \in Outcome
    BY GenesisGrounded, EmptyUndoes DEF Outcome
  <1>3. /\ Genesis \in Roots /\ Hash \ Roots \subseteq Block
        /\ \A h \in Hash \ Roots : Parent[h] \in Hash /\ Parent[h] # Zero /\ h # Genesis
    BY TreeAssumption DEF Hash
  <1>4. \A h \in Hash \ Roots, v \in Outcome : On(v, h) \in Outcome
    BY <1>3, ApplyBlockType DEF Outcome
  <1>5. \A h \in Hash \ Roots, v \in Outcome : step[<<h, v>>] = On(v, h)
    OBVIOUS
  <1>6. \A h \in Roots : base[h] = IF h = Genesis THEN start ELSE none
    OBVIOUS
  <1> HIDE DEF On, step, base, start, none
  <1>7. UpStep(Hash, Outcome, Roots, base, step)
    BY <1>2, <1>4, <1>5, <1>6 DEF UpStep
  <1>8. PICK f : UpSolution(Hash, Outcome, Parent, Roots, base, step, f)
    <2> HIDE DEF Roots
    <2>1. Founded(Hash, Parent, Roots)
      BY TreeFounded DEF Roots
    <2> QED  BY <1>7, <2>1, FoundedRecursion
  <1>9. f = Body(f)
    <2>1. f = [h \in Hash |-> f[h]]
      BY <1>8 DEF UpSolution
    <2>2. ASSUME NEW h \in Hash
          PROVE  f[h] = IF h = Genesis THEN start
                        ELSE IF Parent[h] = Zero THEN none ELSE On(f[Parent[h]], h)
      <3>1. f[h] = IF h \in Roots THEN base[h] ELSE step[<<h, f[Parent[h]]>>]
        BY <1>8 DEF UpSolution
      <3>2. h \notin Roots => f[Parent[h]] \in Outcome
        BY <1>3, <1>8 DEF UpSolution
      <3> QED  BY <3>1, <3>2, <1>3, <1>5, <1>6
    <2> QED  BY <2>1, <2>2
  <1>10. ReplayOf = Body(ReplayOf)
    BY <1>1, <1>9
  <1>11. ASSUME NEW h \in Hash
         PROVE  ReplayOf[h] = IF h = Genesis THEN start
                              ELSE IF Parent[h] = Zero THEN none ELSE On(ReplayOf[Parent[h]], h)
    <2>1. ReplayOf[h] = Body(ReplayOf)[h]
      BY <1>10
    <2> QED  BY <2>1
  <1>12. \A h \in Hash : ReplayOf[h] \in Outcome
    <2> DEFINE T == {h \in Hash : ReplayOf[h] \in Outcome}
    <2>1. ASSUME NEW h \in Roots  PROVE  h \in T
      BY <1>2, <1>11
    <2>2. ASSUME NEW h \in Hash \ Roots, Parent[h] \in T  PROVE  h \in T
      <3>1. ReplayOf[h] = On(ReplayOf[Parent[h]], h)
        BY <1>3, <1>11, <2>2
      <3> QED  BY <3>1, <1>4, <2>2
    <2> HIDE DEF T
    <2>3. Hereditary(Hash, Parent, Roots, T)
      BY <2>1, <2>2 DEF Hereditary
    <2> HIDE DEF Roots
    <2>4. Founded(Hash, Parent, Roots)
      BY TreeFounded DEF Roots
    <2>5. \A h \in Hash : h \in T
      BY <2>3, <2>4, FoundedInduction
    <2> QED  BY <2>5 DEF T
  <1>13. ReplayOf \in [Hash -> Outcome]
    <2>1. ReplayOf = [h \in Hash |-> Body(ReplayOf)[h]]
      BY <1>10
    <2>2. \A h \in Hash : Body(ReplayOf)[h] = ReplayOf[h]
      BY <1>10
    <2> HIDE DEF Body
    <2> QED  BY <2>1, <2>2, <1>12
  <1>14. ASSUME NEW h \in Block
         PROVE  IF Parent[h] = Zero THEN ~ReplayOf[h].ok
                ELSE ReplayOf[h] = On(ReplayOf[Parent[h]], h)
    <2>1. h \in Hash /\ h # Genesis
      BY TreeAssumption DEF Hash
    <2>2. ~none.ok
      BY DEF none
    <2> QED  BY <2>1, <2>2, <1>11
  <1>15. ReplayOf[Genesis] = start
    BY <1>11 DEF Hash
  <1> QED  BY <1>13, <1>14, <1>15 DEF On, start

\* What the replay of h is when no block of the chain of h fails: h was applied to
\* the replay of its parent, the ledger is grounded in the chain's transactions,
\* and the diff takes it back to the parent's.
ReplayedOn(h) ==
  LET r == ReplayOf[h]
      q == ReplayOf[Parent[h]]
  IN  /\ Grounded(r.ledger, ChainTxs(h))
      /\ Genesis \in PathFrom[h]
      /\ h # Genesis => /\ h \in Block /\ Parent[h] \in Hash
                        /\ q.ok
                        /\ r = ApplyBlock(q.ledger, h)
                        /\ Undoes(r.diff, r.ledger, q.ledger)

LEMMA ReplaySound ==
  \A h \in Hash : ReplayOf[h].ok => ReplayedOn(h)
  <1> DEFINE Roots == {h \in Hash : Parent[h] = Zero}
             T == {h \in Hash : ReplayOf[h].ok => ReplayedOn(h)}
  <1>1. ASSUME NEW h \in Roots  PROVE  h \in T
    <2>1. CASE h = Genesis
      <3>1. ReplayOf[h].ledger = GenesisLedger /\ h \in Hash
        BY <2>1, ReplayEquation DEF Hash
      <3>2. Grounded(ReplayOf[h].ledger, ChainTxs(h))
        BY <3>1, <2>1, GenesisGrounded, ChainTxsFacts
      <3>3. Genesis \in PathFrom[h]
        BY <2>1, <3>1, PathFacts
      <3> QED  BY <2>1, <3>2, <3>3 DEF ReplayedOn
    <2>2. CASE h # Genesis
      <3>1. h \in Block
        BY <2>2 DEF Hash
      <3> QED  BY <3>1, ReplayEquation
    <2> QED  BY <2>1, <2>2
  <1>2. ASSUME NEW h \in Hash \ Roots, Parent[h] \in T  PROVE  h \in T
    <2> DEFINE q == ReplayOf[Parent[h]]
               r == ReplayOf[h]
               C == ChainTxs(Parent[h])
    <2>1. h \in Block /\ h # Genesis /\ Parent[h] # Zero /\ Parent[h] \in Hash
      BY TreeAssumption DEF Hash
    <2>2. r = IF q.ok THEN ApplyBlock(q.ledger, h) ELSE q
      BY <2>1, ReplayEquation
    <2> SUFFICES ASSUME r.ok  PROVE  ReplayedOn(h)
      OBVIOUS
    <2>3. q.ok /\ r = ApplyBlock(q.ledger, h)
      BY <2>2
    <2>4. q.ledger \in UtxoSet
      BY <2>1, ReplayEquation DEF Outcome
    <2>5. Grounded(q.ledger, C) /\ Rooted(q.ledger, C) /\ Genesis \in PathFrom[Parent[h]]
      BY <1>2, <2>3 DEF ReplayedOn, Grounded
    <2>6. C \in SUBSET Tx /\ ChainTxs(h) = C \cup BodyOf(h)
      BY <2>1, ChainTxsFacts
    <2>7. FreshStart(h, C)
      BY <2>1, FreshMints
    <2> HIDE DEF q, C
    <2>8. AppliedSoundly(ApplyBlock(q.ledger, h), q.ledger, C, h)
      BY <2>1, <2>4, <2>5, <2>6, <2>7, ApplyBlockSound
    <2>9. Grounded(r.ledger, C \cup BodyOf(h)) /\ Undoes(r.diff, r.ledger, q.ledger)
      BY <2>3, <2>5, <2>8 DEF AppliedSoundly
    <2>10. Genesis \in PathFrom[h]
      BY <2>1, <2>5, PathEquation
    <2> QED  BY <2>1, <2>3, <2>6, <2>9, <2>10 DEF ReplayedOn, q
  <1> HIDE DEF T
  <1>3. Hereditary(Hash, Parent, Roots, T)
    BY <1>1, <1>2 DEF Hereditary
  <1> HIDE DEF Roots
  <1>4. Founded(Hash, Parent, Roots)
    BY TreeFounded DEF Roots
  <1>5. \A h \in Hash : h \in T
    BY <1>3, <1>4, FoundedInduction
  <1> QED  BY <1>5 DEF T

\* Every block of a chain that replays does so itself.
LEMMA ReplayedBelow ==
  ASSUME NEW h \in Hash, ReplayOf[h].ok
  PROVE  \A g \in PathFrom[h] : ReplayOf[g].ok
  <1> DEFINE T == {k \in Hash \cup {Zero} :
                     k \in Hash /\ ReplayOf[k].ok => \A g \in PathFrom[k] : ReplayOf[g].ok}
  <1>1. Zero \in T
    BY TreeAssumption
  <1>2. ASSUME NEW k \in Hash, Parent[k] \in T  PROVE  k \in T
    <2> SUFFICES ASSUME ReplayOf[k].ok, NEW g \in PathFrom[k]  PROVE  ReplayOf[g].ok
      OBVIOUS
    <2>1. PathFrom[k] = {k} \cup PathFrom[Parent[k]]
      BY PathEquation
    <2>2. CASE k = Genesis
      <3>1. PathFrom[Parent[k]] = {}
        BY <2>2, PathEquation, TreeAssumption
      <3> QED  BY <2>1, <3>1
    <2>3. CASE k # Genesis
      <3>1. Parent[k] \in Hash /\ ReplayOf[Parent[k]].ok
        BY <2>3, ReplaySound DEF ReplayedOn
      <3> QED  BY <1>2, <2>1, <3>1
    <2> QED  BY <2>2, <2>3
  <1> HIDE DEF T
  <1>3. Hereditary(Hash \cup {Zero}, Parent, {Zero}, T)
    BY <1>1, <1>2 DEF Hereditary
  <1>4. \A k \in Hash \cup {Zero} : k \in T
    BY <1>3, TreeFounded, FoundedInduction
  <1> QED  BY <1>4 DEF T

-----------------------------------------------------------------------------
(* The walks of get_ancestors and get_chain_to_fork.                       *)

\* The data of a recursion from Zero up the tree, with values in V.
ClimbStep(V, zero, step) ==
  zero \in V /\ \A h \in Hash, v \in V : step[<<h, v>>] \in V

Climb(V, zero, step, f) ==
  /\ f \in [Hash \cup {Zero} -> V]
  /\ f[Zero] = zero
  /\ \A h \in Hash : f[h] = step[<<h, f[Parent[h]]>>]

LEMMA ClimbRecursion ==
  ASSUME NEW V, NEW zero, NEW step, ClimbStep(V, zero, step)
  PROVE  \E f : Climb(V, zero, step, f)
  <1> DEFINE D == Hash \cup {Zero}
             base == [h \in {Zero} |-> zero]
  <1>1. D \ {Zero} = Hash /\ base[Zero] = zero
    BY TreeAssumption
  <1> HIDE DEF base
  <1>2. UpStep(D, V, {Zero}, base, step)
    BY <1>1 DEF UpStep, ClimbStep
  <1>3. PICK f : UpSolution(D, V, Parent, {Zero}, base, step, f)
    BY <1>2, TreeFounded, FoundedRecursion
  <1> QED  BY <1>1, <1>3 DEF UpSolution, Climb

LEMMA ClimbInduction ==
  ASSUME NEW T, Zero \in T, \A h \in Hash : Parent[h] \in T => h \in T
  PROVE  \A h \in Hash \cup {Zero} : h \in T
  <1>1. Hereditary(Hash \cup {Zero}, Parent, {Zero}, T)
    BY DEF Hereditary
  <1> QED  BY <1>1, TreeFounded, FoundedInduction

\* The root of a path is on the path of each of its blocks.
LEMMA RootShared ==
  ASSUME NEW h \in Hash, NEW g \in PathFrom[h], Parent[g] = Zero, NEW x \in PathFrom[h]
  PROVE  g \in PathFrom[x]
  <1> DEFINE Shares(k) == \A r, y \in PathFrom[k] : Parent[r] = Zero => r \in PathFrom[y]
             T == {k \in Hash \cup {Zero} : Shares(k)}
  <1>1. Zero \in T
    BY PathEquation
  <1>2. ASSUME NEW k \in Hash, Parent[k] \in T  PROVE  k \in T
    <2>1. PathFrom[k] = {k} \cup PathFrom[Parent[k]] /\ PathFrom[Zero] = {}
      BY PathEquation
    <2>2. Shares(Parent[k])
      BY <1>2
    <2>3. ASSUME NEW r \in PathFrom[k], NEW y \in PathFrom[k], Parent[r] = Zero
          PROVE  r \in PathFrom[y]
      <3>1. CASE y = k
        BY <3>1
      <3>2. CASE y # k
        <4>1. y \in PathFrom[Parent[k]] /\ r # k
          BY <3>2, <2>1, <2>3
        <4> QED  BY <4>1, <2>1, <2>2, <2>3
      <3> QED  BY <3>1, <3>2
    <2> QED  BY <2>3
  <1> HIDE DEF T
  <1>3. \A k \in Hash \cup {Zero} : k \in T
    BY <1>1, <1>2, ClimbInduction
  <1> QED  BY <1>3 DEF T

\* The sequence r is s with e in front.
Prepends(r, e, s) ==
  /\ Len(r) = Len(s) + 1 /\ r[1] = e
  /\ \A i \in 1..Len(s) : r[i + 1] = s[i]
  /\ \A i \in 2..Len(r) : i - 1 \in 1..Len(s) /\ r[i] = s[i - 1]
  /\ ToSet(r) = {e} \cup ToSet(s)

LEMMA Prepended ==
  ASSUME NEW S, NEW e \in S, NEW s \in Seq(S)
  PROVE  <<e>> \o s \in Seq(S) /\ Prepends(<<e>> \o s, e, s)
  <1> DEFINE r == <<e>> \o s
  <1>1. <<e>> \in Seq(S) /\ Len(<<e>>) = 1 /\ <<e>>[1] = e /\ Len(s) \in Nat
        /\ DOMAIN s = 1..Len(s)
    OBVIOUS
  <1>2. /\ r \in Seq(S) /\ Len(r) = 1 + Len(s)
        /\ \A i \in 1..(1 + Len(s)) : r[i] = IF i <= 1 THEN <<e>>[i] ELSE s[i - 1]
    <2>1. r \in Seq(S) /\ Len(r) = Len(<<e>>) + Len(s)
      BY <1>1, ConcatProperties
    <2>2. \A i \in 1..(Len(<<e>>) + Len(s)) :
            r[i] = IF i <= Len(<<e>>) THEN <<e>>[i] ELSE s[i - Len(<<e>>)]
      BY <1>1, ConcatProperties
    <2> HIDE DEF r
    <2> QED  BY <2>1, <2>2, <1>1
  <1> HIDE DEF r
  <1>3. DOMAIN r = 1..(1 + Len(s)) /\ r[1] = e
    BY <1>1, <1>2
  <1>4. \A i \in 1..Len(s) : i + 1 \in DOMAIN r /\ r[i + 1] = s[i]
    BY <1>1, <1>2, <1>3
  <1>5. \A i \in 2..Len(r) : i - 1 \in 1..Len(s) /\ r[i] = s[i - 1]
    BY <1>1, <1>2, <1>3
  <1>6. \A i \in DOMAIN r : i = 1 \/ i \in 2..Len(r)
    BY <1>1, <1>2, <1>3
  <1>7. ToSet(r) \subseteq {e} \cup ToSet(s)
    BY <1>1, <1>3, <1>5, <1>6 DEF ToSet
  <1>8. e \in ToSet(r)
    <2>1. 1 \in DOMAIN r
      BY <1>1, <1>3
    <2> QED  BY <2>1, <1>3 DEF ToSet
  <1>9. \A i \in DOMAIN s : s[i] \in ToSet(r)
    BY <1>1, <1>4 DEF ToSet
  <1>10. ToSet(r) = {e} \cup ToSet(s)
    BY <1>7, <1>8, <1>9 DEF ToSet
  <1>11. Len(r) = Len(s) + 1
    BY <1>1, <1>2
  <1> QED  BY <1>2, <1>3, <1>4, <1>5, <1>10, <1>11 DEF r, Prepends

\* get_ancestors satisfies its equation.
LEMMA AncestorsEquation ==
  ASSUME NEW known \in SUBSET Hash
  PROVE  /\ Ancestors(known, Zero) = <<Zero>>
         /\ \A h \in Hash :
              Ancestors(known, h) = IF h \in known /\ Parent[h] # Zero
                                    THEN <<h>> \o Ancestors(known, Parent[h]) ELSE <<h>>
  <1> DEFINE D == Hash \cup {Zero}
             Body(g) == [h \in D |-> IF h \in known /\ Parent[h] # Zero
                                     THEN <<h>> \o g[Parent[h]] ELSE <<h>>]
             F == CHOOSE g : g = Body(g)
             step == [p \in Hash \X Seq(D) |->
                        IF p[1] \in known /\ Parent[p[1]] # Zero THEN <<p[1]>> \o p[2] ELSE <<p[1]>>]
  <1>1. \A h : Ancestors(known, h) = F[h]
    BY DEF Ancestors
  <1>2. Zero \notin known
    BY TreeAssumption
  <1>3. \A h \in Hash, v \in Seq(D) :
          step[<<h, v>>] = IF h \in known /\ Parent[h] # Zero THEN <<h>> \o v ELSE <<h>>
    OBVIOUS
  <1> HIDE DEF step
  <1>4. ClimbStep(Seq(D), <<Zero>>, step)
    <2>1. <<Zero>> \in Seq(D)
      OBVIOUS
    <2>2. ASSUME NEW h \in Hash, NEW v \in Seq(D)  PROVE  step[<<h, v>>] \in Seq(D)
      <3>1. <<h>> \in Seq(D) /\ <<h>> \o v \in Seq(D)
        BY Prepended
      <3> QED  BY <3>1, <1>3
    <2> QED  BY <2>1, <2>2 DEF ClimbStep
  <1>5. PICK f : Climb(Seq(D), <<Zero>>, step, f)
    BY <1>4, ClimbRecursion
  <1>6. f = Body(f)
    <2>1. f = [h \in D |-> f[h]]
      BY <1>5 DEF Climb
    <2>2. ASSUME NEW h \in Hash
          PROVE  f[h] = IF h \in known /\ Parent[h] # Zero THEN <<h>> \o f[Parent[h]] ELSE <<h>>
      <3>1. f[h] = step[<<h, f[Parent[h]]>>] /\ f[Parent[h]] \in Seq(D)
        BY <1>5, TreeAssumption DEF Climb
      <3> QED  BY <3>1, <1>3
    <2>3. f[Zero] = <<Zero>>
      BY <1>5 DEF Climb
    <2> QED  BY <2>1, <2>2, <2>3, <1>2
  <1>7. F = Body(F)
    BY <1>6
  <1> HIDE DEF F
  <1>8. ASSUME NEW h \in Hash
        PROVE  Ancestors(known, h) = IF h \in known /\ Parent[h] # Zero
                                     THEN <<h>> \o Ancestors(known, Parent[h]) ELSE <<h>>
    <2>1. F[h] = Body(F)[h]
      BY <1>7
    <2>2. F[h] = IF h \in known /\ Parent[h] # Zero THEN <<h>> \o F[Parent[h]] ELSE <<h>>
      BY <2>1
    <2>3. Ancestors(known, h) = F[h] /\ Ancestors(known, Parent[h]) = F[Parent[h]]
      BY <1>1
    <2> QED  BY <2>2, <2>3
  <1>9. Ancestors(known, Zero) = <<Zero>>
    <2>1. F[Zero] = Body(F)[Zero]
      BY <1>7
    <2>2. F[Zero] = <<Zero>>
      BY <2>1, <1>2
    <2> QED  BY <2>2, <1>1
  <1> QED  BY <1>8, <1>9

\* The sequence as goes down the path of h.
WalksDown(as, h) ==
  /\ as \in Seq(Hash)
  /\ ToSet(as) = PathFrom[h]
  /\ \A i, j \in 1..Len(as) : i <= j => as[j] \in PathFrom[as[i]]

\* get_ancestors lists the path of a block when the cache has all of it.
LEMMA AncestorsWalk ==
  ASSUME NEW known \in SUBSET Hash, NEW h \in Hash, PathFrom[h] \subseteq known
  PROVE  WalksDown(Ancestors(known, h), h)
  <1> DEFINE T == {g \in Hash \cup {Zero} :
                     g \in Hash /\ PathFrom[g] \subseteq known
                       => WalksDown(Ancestors(known, g), g)}
  <1>1. Zero \in T
    BY TreeAssumption
  <1>2. ASSUME NEW g \in Hash, Parent[g] \in T  PROVE  g \in T
    <2> SUFFICES ASSUME PathFrom[g] \subseteq known
                 PROVE  WalksDown(Ancestors(known, g), g)
      OBVIOUS
    <2>1. PathFrom[g] = {g} \cup PathFrom[Parent[g]]
      BY PathEquation
    <2>2. g \in PathFrom[g]
      BY PathFacts
    <2>3. CASE Parent[g] = Zero
      <3>1. Ancestors(known, g) = <<g>>
        BY <2>3, AncestorsEquation
      <3>2. PathFrom[g] = {g}
        BY <2>1, <2>3, PathEquation
      <3> QED  BY <3>1, <3>2 DEF WalksDown, ToSet
    <2>4. CASE Parent[g] # Zero
      <3> DEFINE as == Ancestors(known, Parent[g])
                 bs == Ancestors(known, g)
      <3>1. bs = <<g>> \o as
        BY <2>1, <2>4, AncestorsEquation
      <3>2. WalksDown(as, Parent[g])
        BY <1>2, <2>1, <2>4, TreeAssumption
      <3> HIDE DEF as, bs
      <3>3. /\ as \in Seq(Hash) /\ ToSet(as) = PathFrom[Parent[g]]
            /\ \A i, j \in 1..Len(as) : i <= j => as[j] \in PathFrom[as[i]]
        BY <3>2 DEF WalksDown
      <3>4. bs \in Seq(Hash) /\ Prepends(bs, g, as)
        BY <3>1, <3>3, Prepended
      <3>5. Len(bs) \in Nat /\ DOMAIN bs = 1..Len(bs)
        BY <3>4, LenProperties
      <3>6. /\ bs[1] = g
            /\ \A i \in 2..Len(bs) : i - 1 \in 1..Len(as) /\ bs[i] = as[i - 1]
            /\ ToSet(bs) = {g} \cup ToSet(as)
        BY <3>4 DEF Prepends
      <3>7. \A i \in 1..Len(bs) : bs[i] \in PathFrom[g]
        BY <3>3, <3>5, <3>6, <2>1 DEF ToSet
      <3>8. ASSUME NEW i \in 1..Len(bs), NEW j \in 1..Len(bs), i <= j
            PROVE  bs[j] \in PathFrom[bs[i]]
        <4>1. CASE i = 1
          BY <4>1, <3>6, <3>7
        <4>2. CASE i # 1
          <5>1. i \in 2..Len(bs) /\ j \in 2..Len(bs) /\ i - 1 <= j - 1
            BY <4>2, <3>5, <3>8
          <5> QED  BY <5>1, <3>3, <3>6
        <4> QED  BY <4>1, <4>2
      <3> QED  BY <2>1, <3>3, <3>4, <3>6, <3>8 DEF WalksDown, bs
    <2> QED  BY <2>3, <2>4
  <1> HIDE DEF T
  <1>3. \A g \in Hash \cup {Zero} : g \in T
    BY <1>1, <1>2, ClimbInduction
  <1> QED  BY <1>3 DEF T

\* Whatever the cache has, get_ancestors lists blocks of the path, and the cache
\* has all that is above them.
LEMMA AncestorsWithin ==
  ASSUME NEW known \in SUBSET Hash, NEW h \in Hash
  PROVE  /\ Ancestors(known, h) \in Seq(Hash)
         /\ \A g \in ToSet(Ancestors(known, h)) :
              g \in PathFrom[h] /\ PathFrom[h] \ PathFrom[g] \subseteq known
  <1> DEFINE Reached(g) == {k \in PathFrom[g] : PathFrom[g] \ PathFrom[k] \subseteq known}
             T == {g \in Hash \cup {Zero} :
                     g \in Hash => /\ Ancestors(known, g) \in Seq(Hash)
                                  /\ ToSet(Ancestors(known, g)) \subseteq Reached(g)}
  <1>1. Zero \in T
    BY TreeAssumption
  <1>2. ASSUME NEW g \in Hash, Parent[g] \in T  PROVE  g \in T
    <2> DEFINE as == Ancestors(known, Parent[g])
               bs == Ancestors(known, g)
    <2>1. PathFrom[g] = {g} \cup PathFrom[Parent[g]]
      BY PathEquation
    <2>2. g \in Reached(g)
      BY <2>1
    <2>3. CASE g \notin known \/ Parent[g] = Zero
      <3>1. bs = <<g>>
        BY <2>3, AncestorsEquation
      <3>2. <<g>> \in Seq(Hash) /\ ToSet(<<g>>) = {g}
        BY DEF ToSet
      <3> HIDE DEF Reached
      <3> QED  BY <2>2, <3>1, <3>2
    <2>4. CASE g \in known /\ Parent[g] # Zero
      <3>1. bs = <<g>> \o as
        BY <2>4, AncestorsEquation
      <3>2. as \in Seq(Hash) /\ ToSet(as) \subseteq Reached(Parent[g])
        BY <1>2, <2>4, TreeAssumption
      <3>3. Reached(Parent[g]) \subseteq Reached(g)
        BY <2>1, <2>4
      <3> HIDE DEF as, bs, Reached
      <3>4. bs \in Seq(Hash) /\ ToSet(bs) = {g} \cup ToSet(as)
        <4>1. bs \in Seq(Hash) /\ Prepends(bs, g, as)
          BY <3>1, <3>2, Prepended
        <4> QED  BY <4>1 DEF Prepends
      <3>5. ToSet(bs) \subseteq Reached(g)
        BY <2>2, <3>2, <3>3, <3>4
      <3> QED  BY <3>4, <3>5 DEF bs
    <2> QED  BY <2>3, <2>4
  <1> HIDE DEF T
  <1>3. \A g \in Hash \cup {Zero} : g \in T
    BY <1>1, <1>2, ClimbInduction
  <1> QED  BY <1>3 DEF T

\* f is the last block of what two paths share, and has it as its own path; it is
\* Zero when they share nothing.
LastOf(f, shared) ==
  IF shared = {} THEN f = Zero ELSE f \in shared /\ PathFrom[f] = shared

\* find_lca returns the last block that two paths share, and None when there is none.
LEMMA LcaIsLastShared ==
  ASSUME NEW known \in SUBSET Hash, NEW a \in Hash, NEW c \in Hash,
         PathFrom[a] \subseteq known, PathFrom[c] \subseteq known
  PROVE  LastOf(FindLca(known, a, c), PathFrom[a] \cap PathFrom[c])
  <1> DEFINE as == Ancestors(known, a)
             cs == Ancestors(known, c)
             common == {i \in DOMAIN as : as[i] \in ToSet(cs)}
             shared == PathFrom[a] \cap PathFrom[c]
  <1>1. FindLca(known, a, c) = IF common = {} THEN Zero ELSE as[Min(common)]
    BY DEF FindLca
  <1>2. WalksDown(as, a) /\ WalksDown(cs, c)
    BY AncestorsWalk
  <1> HIDE DEF as, cs
  <1>3. \A i \in DOMAIN as : i \in common <=> as[i] \in shared
    BY <1>2 DEF WalksDown, ToSet
  <1>4. ASSUME NEW g \in shared  PROVE  \E i \in common : as[i] = g
    <2>1. g \in ToSet(as)
      BY <1>2 DEF WalksDown
    <2> QED  BY <2>1, <1>3 DEF ToSet
  <1>5. CASE common = {}
    BY <1>1, <1>4, <1>5 DEF LastOf
  <1>6. CASE common # {}
    <2>0. as \in Seq(Hash)
      BY <1>2 DEF WalksDown
    <2>1. common \in SUBSET Nat /\ DOMAIN as = 1..Len(as)
      <3>1. DOMAIN as = 1..Len(as) /\ Len(as) \in Nat
        BY <2>0, LenProperties
      <3>2. \A i \in 1..Len(as) : i \in Nat
        BY <3>1
      <3>3. common \subseteq DOMAIN as
        OBVIOUS
      <3> HIDE DEF common
      <3> QED  BY <3>1, <3>2, <3>3
    <2> HIDE DEF common
    <2>2. \E m \in common : \A n \in common : m <= n
      BY <1>6, <2>1, LeastNatural
    <2>3. Min(common) \in common /\ \A n \in common : Min(common) <= n
      BY <2>2 DEF Min
    <2> DEFINE f == as[Min(common)]
    <2>4. f \in shared
      BY <2>3, <1>3 DEF common
    <2>5. \A g \in shared : g \in PathFrom[f]
      <3>1. SUFFICES ASSUME NEW i \in common  PROVE  as[i] \in PathFrom[f]
        BY <1>4
      <3>2. i \in 1..Len(as) /\ Min(common) \in 1..Len(as) /\ Min(common) <= i
        BY <2>1, <2>3 DEF common
      <3> QED  BY <3>2, <1>2 DEF WalksDown
    <2>6. PathFrom[f] \subseteq shared
      BY <2>4, PathFacts
    <2> HIDE DEF f, shared
    <2>7. f \in shared /\ PathFrom[f] = shared
      BY <2>4, <2>5, <2>6
    <2> QED  BY <1>1, <1>6, <2>7 DEF f, shared, LastOf
  <1> QED  BY <1>5, <1>6

\* The block f is on the paths of a and c, and known has what is above it on both.
Forks(known, a, c, f) ==
  /\ f \in PathFrom[a] /\ PathFrom[a] \ PathFrom[f] \subseteq known
  /\ f \in PathFrom[c] /\ PathFrom[c] \ PathFrom[f] \subseteq known

\* Whatever the cache has, what find_lca returns is shared.
LEMMA LcaIsShared ==
  ASSUME NEW known \in SUBSET Hash, NEW a \in Hash, NEW c \in Hash,
         FindLca(known, a, c) # Zero
  PROVE  Forks(known, a, c, FindLca(known, a, c))
  <1> DEFINE as == Ancestors(known, a)
             cs == Ancestors(known, c)
             common == {i \in DOMAIN as : as[i] \in ToSet(cs)}
  <1>1. FindLca(known, a, c) = IF common = {} THEN Zero ELSE as[Min(common)]
    BY DEF FindLca
  <1>2. as \in Seq(Hash)
    BY AncestorsWithin
  <1>3. \A g \in ToSet(as) : g \in PathFrom[a] /\ PathFrom[a] \ PathFrom[g] \subseteq known
    BY AncestorsWithin
  <1>4. \A g \in ToSet(cs) : g \in PathFrom[c] /\ PathFrom[c] \ PathFrom[g] \subseteq known
    BY AncestorsWithin
  <1> HIDE DEF as, cs
  <1>5. common \in SUBSET Nat /\ common # {}
    <2>1. \A i \in DOMAIN as : i \in Nat
      <3>1. DOMAIN as = 1..Len(as) /\ Len(as) \in Nat
        BY <1>2, LenProperties
      <3> QED  BY <3>1
    <2> QED  BY <2>1, <1>1
  <1> HIDE DEF common
  <1>6. \E m \in common : \A n \in common : m <= n
    BY <1>5, LeastNatural
  <1>7. Min(common) \in common
    BY <1>6 DEF Min
  <1>8. as[Min(common)] \in ToSet(as) /\ as[Min(common)] \in ToSet(cs)
    BY <1>7 DEF common, ToSet
  <1> QED  BY <1>1, <1>3, <1>4, <1>5, <1>8 DEF Forks

\* A node without a tip finds no fork point.
LEMMA NoForkWithZero ==
  ASSUME NEW known \in SUBSET Hash, NEW a \in Hash
  PROVE  FindLca(known, a, Zero) = Zero
  <1> DEFINE as == Ancestors(known, a)
  <1>1. Ancestors(known, Zero) = <<Zero>> /\ ToSet(<<Zero>>) = {Zero}
    BY AncestorsEquation DEF ToSet
  <1>2. as \in Seq(Hash)
    BY AncestorsWithin
  <1> HIDE DEF as
  <1>3. \A i \in DOMAIN as : as[i] # Zero
    <2>1. DOMAIN as = 1..Len(as) /\ Zero \notin Hash
      BY <1>2, LenProperties, TreeAssumption
    <2>2. \A i \in 1..Len(as) : as[i] \in Hash
      BY <1>2, ElementOfSeq
    <2> QED  BY <2>1, <2>2
  <1>4. {i \in DOMAIN as : as[i] \in ToSet(Ancestors(known, Zero))} = {}
    <2>1. ToSet(Ancestors(known, Zero)) = {Zero}
      BY <1>1
    <2> QED  BY <2>1, <1>3
  <1> QED  BY <1>4 DEF FindLca, as

\* get_chain_to_fork satisfies its equation.
LEMMA ChainToForkEquation ==
  ASSUME NEW known, NEW fork
  PROVE  /\ ChainToFork(known, Zero, fork) = <<>>
         /\ \A h \in Hash :
              ChainToFork(known, h, fork) =
                IF h = fork THEN <<>>
                ELSE IF h \in known THEN <<h>> \o ChainToFork(known, Parent[h], fork) ELSE <<h>>
  <1> DEFINE D == Hash \cup {Zero}
             Body(g) == [h \in D |-> IF h \in {fork, Zero} THEN <<>>
                                     ELSE IF h \in known THEN <<h>> \o g[Parent[h]] ELSE <<h>>]
             F == CHOOSE g : g = Body(g)
             step == [p \in Hash \X Seq(Hash) |->
                        IF p[1] = fork THEN <<>>
                        ELSE IF p[1] \in known THEN <<p[1]>> \o p[2] ELSE <<p[1]>>]
  <1>1. \A h : ChainToFork(known, h, fork) = F[h]
    BY DEF ChainToFork
  <1>2. \A h \in Hash, v \in Seq(Hash) :
          step[<<h, v>>] = IF h = fork THEN <<>>
                           ELSE IF h \in known THEN <<h>> \o v ELSE <<h>>
    OBVIOUS
  <1> HIDE DEF step
  <1>3. ClimbStep(Seq(Hash), <<>>, step)
    <2>1. <<>> \in Seq(Hash)
      OBVIOUS
    <2>2. ASSUME NEW h \in Hash, NEW v \in Seq(Hash)  PROVE  step[<<h, v>>] \in Seq(Hash)
      <3>1. <<h>> \in Seq(Hash) /\ <<h>> \o v \in Seq(Hash)
        BY Prepended
      <3> QED  BY <2>1, <3>1, <1>2
    <2> QED  BY <2>1, <2>2 DEF ClimbStep
  <1>4. PICK f : Climb(Seq(Hash), <<>>, step, f)
    BY <1>3, ClimbRecursion
  <1>5. f = Body(f)
    <2>1. f = [h \in D |-> f[h]]
      BY <1>4 DEF Climb
    <2>2. ASSUME NEW h \in Hash
          PROVE  f[h] = IF h \in {fork, Zero} THEN <<>>
                        ELSE IF h \in known THEN <<h>> \o f[Parent[h]] ELSE <<h>>
      <3>1. f[h] = step[<<h, f[Parent[h]]>>] /\ f[Parent[h]] \in Seq(Hash) /\ h # Zero
        BY <1>4, TreeAssumption DEF Climb
      <3> QED  BY <3>1, <1>2
    <2>3. f[Zero] = <<>>
      BY <1>4 DEF Climb
    <2> QED  BY <2>1, <2>2, <2>3
  <1>6. F = Body(F)
    BY <1>5
  <1> HIDE DEF F
  <1>7. ASSUME NEW h \in Hash
        PROVE  ChainToFork(known, h, fork) =
                 IF h = fork THEN <<>>
                 ELSE IF h \in known THEN <<h>> \o ChainToFork(known, Parent[h], fork) ELSE <<h>>
    <2>1. F[h] = Body(F)[h]
      BY <1>6
    <2>2. F[h] = IF h = fork THEN <<>>
                 ELSE IF h \in known THEN <<h>> \o F[Parent[h]] ELSE <<h>>
      BY <2>1, TreeAssumption
    <2>3. ChainToFork(known, h, fork) = F[h]
          /\ ChainToFork(known, Parent[h], fork) = F[Parent[h]]
      BY <1>1
    <2> QED  BY <2>2, <2>3
  <1>8. ChainToFork(known, Zero, fork) = <<>>
    <2>1. F[Zero] = Body(F)[Zero]
      BY <1>6
    <2> QED  BY <2>1, <1>1
  <1> QED  BY <1>7, <1>8

\* Depth counts the steps to the root.
LEMMA DepthEquation ==
  /\ Depth \in [Hash -> Nat]
  /\ \A h \in Hash : Parent[h] # Zero => Depth[h] = Depth[Parent[h]] + 1
  <1> DEFINE Roots == {h \in Hash : Parent[h] = Zero}
             Body(g) == [h \in Hash |-> IF Parent[h] = Zero THEN 0 ELSE g[Parent[h]] + 1]
             base == [h \in Roots |-> 0]
             step == [p \in (Hash \ Roots) \X Nat |-> p[2] + 1]
  <1>1. Depth = CHOOSE g : g = Body(g)
    BY DEF Depth
  <1>2. \A h \in Hash \ Roots : Parent[h] \in Hash /\ Parent[h] # Zero
    BY TreeAssumption
  <1>3. \A h \in Hash \ Roots, v \in Nat : step[<<h, v>>] = v + 1 /\ v + 1 \in Nat
    OBVIOUS
  <1>4. \A h \in Roots : base[h] = 0
    OBVIOUS
  <1> HIDE DEF step, base
  <1>5. UpStep(Hash, Nat, Roots, base, step)
    BY <1>3, <1>4 DEF UpStep
  <1>6. PICK f : UpSolution(Hash, Nat, Parent, Roots, base, step, f)
    <2> HIDE DEF Roots
    <2>1. Founded(Hash, Parent, Roots)
      BY TreeFounded DEF Roots
    <2> QED  BY <1>5, <2>1, FoundedRecursion
  <1>7. f = Body(f)
    <2>1. f = [h \in Hash |-> f[h]]
      BY <1>6 DEF UpSolution
    <2>2. ASSUME NEW h \in Hash
          PROVE  f[h] = IF Parent[h] = Zero THEN 0 ELSE f[Parent[h]] + 1
      <3>1. f[h] = IF h \in Roots THEN base[h] ELSE step[<<h, f[Parent[h]]>>]
        BY <1>6 DEF UpSolution
      <3>2. h \notin Roots => f[Parent[h]] \in Nat
        BY <1>2, <1>6 DEF UpSolution
      <3> QED  BY <3>1, <3>2, <1>3, <1>4
    <2> QED  BY <2>1, <2>2
  <1>8. Depth = Body(Depth)
    BY <1>1, <1>7
  <1>9. ASSUME NEW h \in Hash
        PROVE  Depth[h] = IF Parent[h] = Zero THEN 0 ELSE Depth[Parent[h]] + 1
    <2>1. Depth[h] = Body(Depth)[h]
      BY <1>8
    <2> QED  BY <2>1
  <1>10. \A h \in Hash : Depth[h] \in Nat
    <2> DEFINE T == {h \in Hash : Depth[h] \in Nat}
    <2>1. ASSUME NEW h \in Roots  PROVE  h \in T
      BY <1>9
    <2>2. ASSUME NEW h \in Hash \ Roots, Parent[h] \in T  PROVE  h \in T
      BY <1>9, <2>2
    <2> HIDE DEF T
    <2>3. Hereditary(Hash, Parent, Roots, T)
      BY <2>1, <2>2 DEF Hereditary
    <2> HIDE DEF Roots
    <2>4. Founded(Hash, Parent, Roots)
      BY TreeFounded DEF Roots
    <2>5. \A h \in Hash : h \in T
      BY <2>3, <2>4, FoundedInduction
    <2> QED  BY <2>5 DEF T
  <1>11. Depth \in [Hash -> Nat]
    <2>1. Depth = [h \in Hash |-> Body(Depth)[h]]
      BY <1>8
    <2>2. \A h \in Hash : Body(Depth)[h] = Depth[h]
      BY <1>8
    <2> HIDE DEF Body
    <2> QED  BY <2>1, <2>2, <1>10
  <1> QED  BY <1>9, <1>11

\* The sequence hs goes down from h to the block above f, block by block.
Descends(hs, node, h, f) ==
  /\ node \in [0..Len(hs) -> Hash] /\ node[0] = h /\ node[Len(hs)] = f
  /\ \A k \in 0..(Len(hs) - 1) : hs[k + 1] = node[k] /\ node[k + 1] = Parent[node[k]]

Descent(hs, h, f) ==
  /\ hs \in Seq(Block)
  /\ \E node : Descends(hs, node, h, f)
  /\ ToSet(hs) = PathFrom[h] \ PathFrom[f]
  /\ Depth[h] = Depth[f] + Len(hs)

\* get_chain_to_fork lists the blocks above the fork when the cache has them.
LEMMA ChainToForkDescends ==
  ASSUME NEW known \in SUBSET Hash, NEW h \in Hash, NEW fork \in PathFrom[h],
         PathFrom[h] \ PathFrom[fork] \subseteq known
  PROVE  Descent(ChainToFork(known, h, fork), h, fork)
  <1> DEFINE T == {g \in Hash \cup {Zero} :
                     g \in Hash /\ fork \in PathFrom[g] /\ PathFrom[g] \ PathFrom[fork] \subseteq known
                       => Descent(ChainToFork(known, g, fork), g, fork)}
  <1>0. fork \in Hash
    BY PathFacts
  <1>1. Zero \in T
    BY TreeAssumption
  <1>2. ASSUME NEW g \in Hash, Parent[g] \in T  PROVE  g \in T
    <2> DEFINE hs == ChainToFork(known, g, fork)
               rest == ChainToFork(known, Parent[g], fork)
    <2> SUFFICES ASSUME fork \in PathFrom[g], PathFrom[g] \ PathFrom[fork] \subseteq known
                 PROVE  Descent(hs, g, fork)
      OBVIOUS
    <2>1. CASE g = fork
      <3>1. hs = <<>>
        BY <2>1, ChainToForkEquation
      <3>2. Descends(<<>>, [k \in 0..0 |-> g], g, fork)
        BY <2>1 DEF Descends
      <3>3. ToSet(<<>>) = {} /\ Len(<<>>) = 0 /\ <<>> \in Seq(Block)
        BY DEF ToSet
      <3>4. Depth[g] = Depth[g] + 0
        BY DepthEquation
      <3> HIDE DEF hs
      <3> QED  BY <2>1, <3>1, <3>2, <3>3, <3>4 DEF Descent
    <2>2. CASE g # fork
      <3>1. PathFrom[g] = {g} \cup PathFrom[Parent[g]] /\ g \in PathFrom[g]
        BY PathEquation
      <3>2. fork \in PathFrom[Parent[g]] /\ Parent[g] # Zero /\ Parent[g] \in Hash
        BY <2>2, <3>1, PathEquation, TreeAssumption
      <3>3. g \in Block
        BY <3>2, TreeAssumption DEF Hash
      <3>12. g \notin PathFrom[fork]
        BY <3>2, PathFacts
      <3>4. hs = <<g>> \o rest
        <4>1. g \in known
          BY <3>1, <3>12
        <4> QED  BY <2>2, <4>1, ChainToForkEquation
      <3>5. Descent(rest, Parent[g], fork)
        BY <1>2, <3>1, <3>2
      <3> HIDE DEF hs, rest
      <3>6. PICK node : Descends(rest, node, Parent[g], fork)
        BY <3>5 DEF Descent
      <3>7. rest \in Seq(Block) /\ Len(rest) \in Nat
        BY <3>5, LenProperties DEF Descent
      <3>8. hs \in Seq(Block) /\ Prepends(hs, g, rest)
        BY <3>3, <3>4, <3>7, Prepended
      <3> DEFINE N == Len(rest)
                 up == [k \in 0..Len(hs) |-> IF k = 0 THEN g ELSE node[k - 1]]
      <3>9. Len(hs) = N + 1 /\ hs[1] = g /\ \A i \in 1..N : hs[i + 1] = rest[i]
        BY <3>8 DEF Prepends
      <3>10. /\ node \in [0..N -> Hash] /\ node[0] = Parent[g] /\ node[N] = fork
             /\ \A k \in 0..(N - 1) : rest[k + 1] = node[k] /\ node[k + 1] = Parent[node[k]]
        BY <3>6 DEF Descends
      <3>11. Descends(hs, up, g, fork)
        <4>0. N \in Nat
          BY <3>7
        <4> HIDE DEF N
        <4>1. up \in [0..Len(hs) -> Hash] /\ up[0] = g /\ up[Len(hs)] = fork
          BY <4>0, <3>9, <3>10
        <4>2. ASSUME NEW k \in 0..(Len(hs) - 1)
              PROVE  hs[k + 1] = up[k] /\ up[k + 1] = Parent[up[k]]
          <5>1. k \in 0..Len(hs) /\ k + 1 \in 0..Len(hs) /\ k + 1 # 0 /\ (k + 1) - 1 = k
            BY <4>0, <3>9
          <5>2. up[k + 1] = node[k]
            BY <5>1
          <5>3. CASE k = 0
            BY <5>1, <5>2, <5>3, <3>9, <3>10
          <5>4. CASE k # 0
            <6>1. k \in 1..N /\ k - 1 \in 0..(N - 1) /\ (k - 1) + 1 = k
              BY <5>4, <4>0, <3>9
            <6>2. up[k] = node[k - 1]
              BY <5>1, <5>4
            <6>3. hs[k + 1] = rest[k]
              BY <6>1, <3>9
            <6>4. rest[k] = node[k - 1] /\ node[k] = Parent[node[k - 1]]
              BY <6>1, <3>10
            <6> QED  BY <5>2, <6>2, <6>3, <6>4
          <5> QED  BY <5>3, <5>4
        <4> HIDE DEF up
        <4> QED  BY <4>1, <4>2 DEF Descends
      <3>13. ToSet(hs) = PathFrom[g] \ PathFrom[fork]
        BY <3>1, <3>5, <3>8, <3>12 DEF Prepends, Descent
      <3>14. Depth[g] = Depth[fork] + Len(hs)
        <4>1. Depth[g] = Depth[Parent[g]] + 1 /\ Depth[fork] \in Nat
          BY <3>2, <1>0, DepthEquation
        <4>2. Depth[Parent[g]] = Depth[fork] + Len(rest)
          BY <3>5 DEF Descent
        <4>3. Len(hs) = Len(rest) + 1 /\ Len(rest) \in Nat
          BY <3>7, <3>9
        <4> DEFINE n == Len(rest)
                   m == Len(hs)
                   d == Depth[fork]
        <4> HIDE DEF n, m, d
        <4>4. \A i, j, k \in Nat : k = j + 1 => (i + j) + 1 = i + k
          OBVIOUS
        <4>5. m = n + 1 /\ n \in Nat /\ m \in Nat /\ d \in Nat /\ Depth[g] = (d + n) + 1
          BY <4>1, <4>2, <4>3 DEF m, n, d
        <4> QED  BY <4>4, <4>5 DEF m, d
      <3> QED  BY <3>8, <3>11, <3>13, <3>14 DEF Descent
    <2> QED  BY <2>1, <2>2
  <1> HIDE DEF T
  <1>3. \A g \in Hash \cup {Zero} : g \in T
    BY <1>1, <1>2, ClimbInduction
  <1> QED  BY <1>3 DEF T

\* The sequence hs goes up from the block above f to b.
Ascends(hs, node, f, b) ==
  /\ node \in [0..Len(hs) -> Hash] /\ node[0] = f /\ node[Len(hs)] = b
  /\ \A k \in 0..(Len(hs) - 1) : hs[k + 1] = node[k + 1] /\ Parent[node[k + 1]] = node[k]

Ascent(hs, f, b) ==
  /\ hs \in Seq(Block)
  /\ \E node : Ascends(hs, node, f, b)
  /\ ToSet(hs) = PathFrom[b] \ PathFrom[f]
  /\ Depth[b] = Depth[f] + Len(hs)

\* The branch execute_reorg applies, in its order.
LEMMA ReverseAscends ==
  ASSUME NEW b \in Block, Parent[b] \in Hash, NEW fork \in PathFrom[Parent[b]],
         NEW ds, Descent(ds, Parent[b], fork)
  PROVE  Ascent(Append(Reverse(ds), b), fork, b)
  <1> DEFINE N == Len(ds)
             rs == Reverse(ds)
             hs == Append(rs, b)
  <1>1. PICK down : Descends(ds, down, Parent[b], fork)
    BY DEF Descent
  <1>2. ds \in Seq(Block) /\ N \in Nat /\ DOMAIN ds = 1..N /\ b \in Hash
    BY LenProperties DEF Descent, Hash
  <1>3. /\ down \in [0..N -> Hash] /\ down[0] = Parent[b] /\ down[N] = fork
        /\ \A k \in 0..(N - 1) : ds[k + 1] = down[k] /\ down[k + 1] = Parent[down[k]]
    BY <1>1 DEF Descends
  <1>4. rs \in Seq(Block) /\ Len(rs) = N /\ \A k \in 1..N : rs[k] = ds[(N - k) + 1]
    <2>1. rs = [i \in 1..N |-> ds[(N - i) + 1]]
      BY DEF Reverse
    <2>2. \A i \in 1..N : (N - i) + 1 \in 1..N /\ ds[(N - i) + 1] \in Block
      BY <1>2
    <2> HIDE DEF rs, N
    <2> QED  BY <1>2, <2>1, <2>2
  <1>5. /\ hs \in Seq(Block) /\ Len(hs) = N + 1 /\ hs[N + 1] = b
        /\ \A k \in 1..N : hs[k] = rs[k]
    BY <1>4, AppendProperties
  <1> DEFINE up == [k \in 0..(N + 1) |-> IF k = N + 1 THEN b ELSE down[N - k]]
  <1> HIDE DEF rs, hs, N
  <1>6. up \in [0..(N + 1) -> Hash] /\ up[0] = fork /\ up[N + 1] = b
    <2>1. \A k \in 0..(N + 1) : k # N + 1 => N - k \in 0..N
      BY <1>2
    <2>2. up[0] = down[N - 0] /\ N - 0 = N
      BY <1>2
    <2> QED  BY <2>1, <2>2, <1>2, <1>3
  <1>7. ASSUME NEW k \in 0..N  PROVE  hs[k + 1] = up[k + 1] /\ Parent[up[k + 1]] = up[k]
    <2>1. k \in Nat /\ k \in 0..(N + 1) /\ k + 1 \in 0..(N + 1) /\ k # N + 1
      BY <1>2
    <2>2. up[k] = down[N - k]
      BY <2>1
    <2>3. CASE k = N
      <3>1. up[k + 1] = b /\ N - k = 0
        BY <2>1, <2>3, <1>2
      <3> QED  BY <2>2, <2>3, <3>1, <1>3, <1>5
    <2>4. CASE k # N
      <3>1. k + 1 \in 1..N /\ (N - (k + 1)) + 1 = N - k /\ N - (k + 1) \in 0..(N - 1)
            /\ k + 1 # N + 1
        BY <2>1, <2>4, <1>2
      <3>2. up[k + 1] = down[N - (k + 1)]
        BY <2>1, <3>1
      <3>3. hs[k + 1] = ds[(N - (k + 1)) + 1]
        BY <3>1, <1>4, <1>5
      <3>4. ds[(N - (k + 1)) + 1] = down[N - (k + 1)]
            /\ down[(N - (k + 1)) + 1] = Parent[down[N - (k + 1)]]
        BY <3>1, <1>3
      <3> QED  BY <2>2, <3>1, <3>2, <3>3, <3>4
    <2> QED  BY <2>3, <2>4
  <1>8. Ascends(hs, up, fork, b)
    <2>1. (N + 1) - 1 = N
      BY <1>2
    <2> HIDE DEF up
    <2> QED  BY <1>5, <1>6, <1>7, <2>1 DEF Ascends
  <1>9. ToSet(hs) = PathFrom[b] \ PathFrom[fork]
    <2>1. ToSet(hs) = {b} \cup ToSet(ds)
      <3>1. DOMAIN hs = 1..(N + 1) /\ DOMAIN ds = 1..N
        BY <1>2, <1>5, LenProperties
      <3>2. ASSUME NEW k \in 1..N
            PROVE  /\ (N - k) + 1 \in 1..N /\ k \in 1..(N + 1)
                   /\ hs[k] = ds[(N - k) + 1] /\ hs[(N - k) + 1] = ds[k]
        <4>1. (N - k) + 1 \in 1..N /\ k \in 1..(N + 1) /\ (N - ((N - k) + 1)) + 1 = k
          BY <1>2
        <4> QED  BY <4>1, <1>4, <1>5
      <3>3. \A k \in 1..(N + 1) : k = N + 1 \/ k \in 1..N
        BY <1>2
      <3>4. ToSet(hs) \subseteq {b} \cup ToSet(ds)
        BY <3>1, <3>2, <3>3, <1>5 DEF ToSet
      <3>5. b \in ToSet(hs)
        <4>1. N + 1 \in 1..(N + 1)
          BY <1>2
        <4> QED  BY <4>1, <3>1, <1>5 DEF ToSet
      <3>6. ASSUME NEW k \in 1..N  PROVE  ds[k] \in ToSet(hs)
        <4>1. (N - k) + 1 \in DOMAIN hs
          BY <3>1, <3>2, <1>2
        <4> QED  BY <4>1, <3>2 DEF ToSet
      <3> QED  BY <3>1, <3>4, <3>5, <3>6 DEF ToSet
    <2>2. PathFrom[b] = {b} \cup PathFrom[Parent[b]] /\ b \notin PathFrom[fork]
      BY <1>2, PathEquation, PathFacts
    <2> QED  BY <2>1, <2>2 DEF Descent
  <1>10. Depth[b] = Depth[fork] + Len(hs)
    <2>1. fork \in Hash /\ Parent[b] # Zero
      BY PathFacts, TreeAssumption
    <2>2. Depth[b] = Depth[Parent[b]] + 1 /\ Depth[fork] \in Nat
      BY <1>2, <2>1, DepthEquation
    <2>3. Depth[Parent[b]] = Depth[fork] + N
      BY DEF Descent, N
    <2> DEFINE d == Depth[fork]
    <2> HIDE DEF d
    <2>4. Depth[b] = (d + N) + 1 /\ d \in Nat
      BY <2>2, <2>3 DEF d
    <2>5. (d + N) + 1 = d + (N + 1)
      BY <2>4, <1>2
    <2> QED  BY <2>4, <2>5, <1>5 DEF d
  <1> QED  BY <1>5, <1>8, <1>9, <1>10 DEF Ascent, hs, rs

-----------------------------------------------------------------------------
(***************************************************************************)
(* The chain                                                               *)
(***************************************************************************)

\* What apply phase 2 of a reorganisation has reached.
Progress == [ok : BOOLEAN, ledger : UtxoSet, diffs : DiffMap]

-----------------------------------------------------------------------------
(* The two phases of execute_reorg as folds.                               *)

\* The diff a block is unwound with has the type of a diff.
LEMMA UndoType ==
  ASSUME diffs \in DiffMap, NEW h \in Block
  PROVE  UndoOf(h) \in BlockDiff
  <1>1. \A n \in 1..Len(TxsOf[h]) : TxsOf[h][n] \in Tx
    BY BlockAssumption
  <1>2. CASE diffs[h] = NoDiff
    <2> DEFINE made == UNION {KeysOf(TxsOf[h][n]) : n \in 1..Len(TxsOf[h])}
               spent == UNION {SpentImages(TxsOf[h][n]) : n \in 2..Len(TxsOf[h])}
               minted == IF TxsOf[h] = <<>> THEN 0 ELSE CoinbaseAmount(TxsOf[h][1])
               none == [k \in Key |-> NoEntry]
    <2>1. made \subseteq Key
      BY <1>1, KeyMaker
    <2>2. spent \subseteq Image
      <3>1. \A n \in 2..Len(TxsOf[h]) : n \in 1..Len(TxsOf[h])
        BY BlockAssumption
      <3> QED  BY <1>1, <3>1, InputTypes
    <2>3. minted \in Nat
      <3>1. TxsOf[h] # <<>> => 1 \in 1..Len(TxsOf[h])
        BY BlockAssumption
      <3> QED  BY <1>1, <3>1, SumsNatural
    <2>4. none \in UtxoMap
      BY DEF UtxoMap
    <2>5. UndoOf(h) = [consumed |-> none, created |-> made, images |-> spent, supply |-> minted]
      BY <1>2 DEF UndoOf, FallbackDiff
    <2> HIDE DEF made, spent, minted, none
    <2> QED  BY <2>1, <2>2, <2>3, <2>4, <2>5 DEF BlockDiff
  <1>3. CASE diffs[h] # NoDiff
    BY <1>3 DEF UndoOf, DiffMap, Hash
  <1> QED  BY <1>2, <1>3

\* Phase 1 by prefixes: P[k] is the ledger with the first k blocks taken back.
UnwindsBy(P, L, hs) ==
  /\ P \in [0..Len(hs) -> UtxoSet]
  /\ P[0] = L
  /\ \A k \in 0..(Len(hs) - 1) : P[k + 1] = UnwindWithDiff(P[k], UndoOf(hs[k + 1]))
  /\ UnwindBlocks(L, hs) = P[Len(hs)]

LEMMA UnwindByPrefix ==
  ASSUME diffs \in DiffMap, NEW L \in UtxoSet, NEW hs \in Seq(Block)
  PROVE  \E P : UnwindsBy(P, L, hs)
  <1> DEFINE N == Len(hs)
             undo(v, e) == UnwindWithDiff(v, UndoOf(e))
             Body(g) == [x \in SUBSET (DOMAIN hs) |->
                           IF x = {} THEN L ELSE undo(g[x \ {Max(x)}], hs[Max(x)])]
             F == CHOOSE g : g = Body(g)
             step == [p \in UtxoSet \X Block |-> undo(p[1], p[2])]
             P == [k \in 0..N |-> F[1..k]]
  <1>1. UnwindBlocks(L, hs) = F[DOMAIN hs]
    BY DEF UnwindBlocks, FoldLeft, MapThenFoldSet
  <1>2. \A v \in UtxoSet, e \in Block : undo(v, e) \in UtxoSet /\ step[<<v, e>>] = undo(v, e)
    BY UndoType, UnwindType
  <1>3. N \in Nat /\ DOMAIN hs = 1..N /\ \A k \in 1..N : hs[k] \in Block
    OBVIOUS
  <1> HIDE DEF step, undo
  <1>4. FoldStep(Block, UtxoSet, L, step)
    BY <1>2 DEF FoldStep
  <1>5. PICK g : FoldSolution(hs, UtxoSet, L, step, g)
    BY <1>4, FoldRecursion
  <1>6. g = Body(g)
    <2>1. ASSUME NEW x \in SUBSET (DOMAIN hs), x # {}
          PROVE  step[<<g[x \ {Max(x)}], hs[Max(x)]>>] = undo(g[x \ {Max(x)}], hs[Max(x)])
      <3>1. g[x \ {Max(x)}] \in UtxoSet
        BY <1>5 DEF FoldSolution
      <3>2. Max(x) \in DOMAIN hs
        BY <2>1, <1>3, MaxOfInterval
      <3> QED  BY <3>1, <3>2, <1>2
    <2> QED  BY <2>1, <1>5 DEF FoldSolution
  <1>7. F = Body(F)
    BY <1>6
  <1> HIDE DEF F, N
  <1>8. F[1..0] = L
    BY <1>7
  <1>9. ASSUME NEW k \in 0..(N - 1)  PROVE  F[1..(k + 1)] = undo(F[1..k], hs[k + 1])
    <2>1. F[1..(k + 1)] = Body(F)[1..(k + 1)]
      BY <1>7
    <2> QED  BY <2>1, FirstPlaces DEF N
  <1>10. \A k \in 0..N : F[1..k] \in UtxoSet
    <2> DEFINE T == {k \in 0..N : F[1..k] \in UtxoSet}
    <2>1. 0 \in T
      <3>1. F[1..0] \in UtxoSet
        BY <1>8
      <3>2. 0 \in 0..N
        BY <1>3
      <3> QED  BY <3>1, <3>2
    <2>2. ASSUME NEW k \in 0..(N - 1), k \in T  PROVE  k + 1 \in T
      <3>1. k \in 0..N /\ k + 1 \in 0..N /\ hs[k + 1] \in Block /\ F[1..k] \in UtxoSet
        BY <2>2, <1>3
      <3> QED  BY <3>1, <1>2, <1>9
    <2> HIDE DEF T
    <2>3. \A k \in 0..N : k \in T
      BY <2>1, <2>2, <1>3, BoundedInduction
    <2> QED  BY <2>3 DEF T
  <1>11. P \in [0..N -> UtxoSet] /\ P[0] = L /\ P[N] = F[DOMAIN hs]
         /\ \A k \in 0..(N - 1) : P[k + 1] = undo(P[k], hs[k + 1])
    BY <1>3, <1>8, <1>9, <1>10
  <1> HIDE DEF P
  <1> QED  BY <1>1, <1>11 DEF N, undo, UnwindsBy

\* Phase 2 by prefixes.
AppliesBy(P, L, hs) ==
  /\ P \in [0..Len(hs) -> Progress]
  /\ P[0] = [ok |-> TRUE, ledger |-> L, diffs |-> diffs]
  /\ \A k \in 0..(Len(hs) - 1) : P[k + 1] = ApplyStep(P[k], hs[k + 1])
  /\ ApplyBlocks(L, hs) = P[Len(hs)]

LEMMA ApplyStepType ==
  ASSUME NEW v \in Progress, NEW h \in Block
  PROVE  ApplyStep(v, h) \in Progress
  <1> DEFINE r == ApplyBlock(v.ledger, h)
  <1>1. r \in Outcome
    BY ApplyBlockType DEF Progress
  <1>2. r.ledger \in UtxoSet /\ r.diff \in BlockDiff
    BY <1>1 DEF Outcome
  <1>3. v.diffs \in DiffMap
    BY DEF Progress
  <1>4. [v.diffs EXCEPT ![h] = r.diff] \in DiffMap
    BY <1>2, <1>3 DEF DiffMap
  <1>5. ApplyStep(v, h) = IF v.ok /\ r.ok
                          THEN [ok |-> TRUE, ledger |-> r.ledger,
                                diffs |-> [v.diffs EXCEPT ![h] = r.diff]]
                          ELSE [v EXCEPT !.ok = FALSE]
    BY DEF ApplyStep
  <1>6. [v EXCEPT !.ok = FALSE] \in Progress
    BY DEF Progress
  <1> DEFINE D == [v.diffs EXCEPT ![h] = r.diff]
             M == r.ledger
  <1>7. D \in DiffMap /\ M \in UtxoSet
    BY <1>2, <1>4
  <1> HIDE DEF D, M
  <1>8. [ok |-> TRUE, ledger |-> M, diffs |-> D] \in Progress
    BY <1>7 DEF Progress
  <1> HIDE DEF r
  <1> QED  BY <1>5, <1>6, <1>8 DEF D, M

LEMMA ApplyByPrefixOfBranch ==
  ASSUME diffs \in DiffMap, NEW L \in UtxoSet, NEW hs \in Seq(Block)
  PROVE  \E P : AppliesBy(P, L, hs)
  <1> DEFINE N == Len(hs)
             start == [ok |-> TRUE, ledger |-> L, diffs |-> diffs]
             Body(g) == [x \in SUBSET (DOMAIN hs) |->
                           IF x = {} THEN start ELSE ApplyStep(g[x \ {Max(x)}], hs[Max(x)])]
             F == CHOOSE g : g = Body(g)
             step == [p \in Progress \X Block |-> ApplyStep(p[1], p[2])]
             P == [k \in 0..N |-> F[1..k]]
  <1>1. ApplyBlocks(L, hs) = F[DOMAIN hs]
    BY DEF ApplyBlocks, FoldLeft, MapThenFoldSet
  <1>2. \A v \in Progress, e \in Block :
          ApplyStep(v, e) \in Progress /\ step[<<v, e>>] = ApplyStep(v, e)
    BY ApplyStepType
  <1>3. N \in Nat /\ DOMAIN hs = 1..N /\ \A k \in 1..N : hs[k] \in Block
    OBVIOUS
  <1>4. start \in Progress
    BY DEF Progress
  <1> HIDE DEF step, start
  <1>5. FoldStep(Block, Progress, start, step)
    BY <1>2, <1>4 DEF FoldStep
  <1>6. PICK g : FoldSolution(hs, Progress, start, step, g)
    BY <1>5, FoldRecursion
  <1>7. g = Body(g)
    <2>1. ASSUME NEW x \in SUBSET (DOMAIN hs), x # {}
          PROVE  step[<<g[x \ {Max(x)}], hs[Max(x)]>>] = ApplyStep(g[x \ {Max(x)}], hs[Max(x)])
      <3>1. g[x \ {Max(x)}] \in Progress
        BY <1>6 DEF FoldSolution
      <3>2. Max(x) \in DOMAIN hs
        BY <2>1, <1>3, MaxOfInterval
      <3> QED  BY <3>1, <3>2, <1>2
    <2> QED  BY <2>1, <1>6 DEF FoldSolution
  <1>8. F = Body(F)
    BY <1>7
  <1> HIDE DEF F, N
  <1>9. F[1..0] = start
    BY <1>8
  <1>10. ASSUME NEW k \in 0..(N - 1)  PROVE  F[1..(k + 1)] = ApplyStep(F[1..k], hs[k + 1])
    <2>1. F[1..(k + 1)] = Body(F)[1..(k + 1)]
      BY <1>8
    <2> QED  BY <2>1, FirstPlaces DEF N
  <1>11. \A k \in 0..N : F[1..k] \in Progress
    <2> DEFINE T == {k \in 0..N : F[1..k] \in Progress}
    <2>1. 0 \in T
      <3>1. F[1..0] \in Progress
        BY <1>4, <1>9
      <3>2. 0 \in 0..N
        BY <1>3
      <3> QED  BY <3>1, <3>2
    <2>2. ASSUME NEW k \in 0..(N - 1), k \in T  PROVE  k + 1 \in T
      <3>1. k \in 0..N /\ k + 1 \in 0..N /\ hs[k + 1] \in Block /\ F[1..k] \in Progress
        BY <2>2, <1>3
      <3> QED  BY <3>1, <1>2, <1>10
    <2> HIDE DEF T
    <2>3. \A k \in 0..N : k \in T
      BY <2>1, <2>2, <1>3, BoundedInduction
    <2> QED  BY <2>3 DEF T
  <1>12. P \in [0..N -> Progress] /\ P[0] = start /\ P[N] = F[DOMAIN hs]
         /\ \A k \in 0..(N - 1) : P[k + 1] = ApplyStep(P[k], hs[k + 1])
    BY <1>3, <1>9, <1>10, <1>11
  <1> HIDE DEF P
  <1> QED  BY <1>1, <1>12 DEF N, start, AppliesBy

\* Taking back the blocks above f gives the ledger of f, when each is taken back
\* with the diff of its replay.
LEMMA UnwindsToFork ==
  ASSUME diffs \in DiffMap, NEW h \in Hash, ReplayOf[h].ok, NEW f,
         NEW hs, Descent(hs, h, f), \A g \in ToSet(hs) : diffs[g] = ReplayOf[g].diff
  PROVE  UnwindBlocks(ReplayOf[h].ledger, hs) = ReplayOf[f].ledger /\ ReplayOf[f].ok
  <1> DEFINE N == Len(hs)
  <1>1. PICK node : Descends(hs, node, h, f)
    BY DEF Descent
  <1>2. hs \in Seq(Block) /\ N \in Nat /\ DOMAIN hs = 1..N
    BY LenProperties DEF Descent
  <1>3. ReplayOf[h].ledger \in UtxoSet
    BY ReplayEquation DEF Outcome
  <1>4. PICK P : UnwindsBy(P, ReplayOf[h].ledger, hs)
    BY <1>2, <1>3, UnwindByPrefix
  <1>5. /\ node \in [0..N -> Hash] /\ node[0] = h /\ node[N] = f
        /\ \A k \in 0..(N - 1) : hs[k + 1] = node[k] /\ node[k + 1] = Parent[node[k]]
    BY <1>1 DEF Descends
  <1>6. /\ P[0] = ReplayOf[h].ledger /\ UnwindBlocks(ReplayOf[h].ledger, hs) = P[N]
        /\ \A k \in 0..(N - 1) : P[k + 1] = UnwindWithDiff(P[k], UndoOf(hs[k + 1]))
    BY <1>4 DEF UnwindsBy
  <1> HIDE DEF N
  <1> DEFINE T == {k \in 0..N : P[k] = ReplayOf[node[k]].ledger /\ ReplayOf[node[k]].ok}
  <1>7. 0 \in T
    BY <1>2, <1>5, <1>6
  <1>8. ASSUME NEW k \in 0..(N - 1), k \in T  PROVE  k + 1 \in T
    <2> DEFINE g == node[k]
    <2>1. k \in 0..N /\ k + 1 \in 0..N /\ k + 1 \in DOMAIN hs
      BY <1>2
    <2>2. g \in Hash /\ hs[k + 1] = g /\ node[k + 1] = Parent[g]
      BY <2>1, <1>5
    <2>3. P[k] = ReplayOf[g].ledger /\ ReplayOf[g].ok
      BY <1>8
    <2> HIDE DEF g
    <2>4. g \in Block /\ g # Genesis
      BY <2>1, <2>2, <1>2, TreeAssumption, ElementOfSeq
    <2>5. ReplayOf[Parent[g]].ok
          /\ Undoes(ReplayOf[g].diff, ReplayOf[g].ledger, ReplayOf[Parent[g]].ledger)
      BY <2>2, <2>3, <2>4, ReplaySound DEF ReplayedOn
    <2>6. UndoOf(g) = ReplayOf[g].diff
      <3>1. g \in ToSet(hs)
        BY <2>1, <2>2 DEF ToSet
      <3>2. ReplayOf[g].diff \in BlockDiff
        BY <2>2, ReplayEquation DEF Outcome
      <3> QED  BY <3>1, <3>2, TreeAssumption DEF UndoOf
    <2>7. P[k + 1] = UnwindWithDiff(P[k], UndoOf(g))
      BY <1>6, <2>2
    <2>8. P[k + 1] = ReplayOf[Parent[g]].ledger
      BY <2>3, <2>5, <2>6, <2>7 DEF Undoes
    <2> QED  BY <2>1, <2>2, <2>5, <2>8
  <1> HIDE DEF T
  <1>9. \A k \in 0..N : k \in T
    BY <1>2, <1>7, <1>8, BoundedInduction
  <1>10. N \in 0..N
    BY <1>2
  <1> QED  BY <1>5, <1>6, <1>9, <1>10 DEF T

\* What phase 2 must return for the branch hs up to b: it succeeds if the chain of
\* b does from the root, and then has the ledger and the diffs of its replay.
ReplaysTo(new, hs, b) ==
  /\ new \in Progress
  /\ new.ok <=> ReplayOf[b].ok
  /\ new.ok => /\ new.ledger = ReplayOf[b].ledger
               /\ \A g \in Hash : new.diffs[g] = IF g \in ToSet(hs) THEN ReplayOf[g].diff
                                                 ELSE diffs[g]

LEMMA AppliesToTip ==
  ASSUME diffs \in DiffMap, NEW f \in Hash, ReplayOf[f].ok, NEW b,
         NEW hs, Ascent(hs, f, b)
  PROVE  ReplaysTo(ApplyBlocks(ReplayOf[f].ledger, hs), hs, b)
  <1> DEFINE N == Len(hs)
             L == ReplayOf[f].ledger
  <1>1. PICK node : Ascends(hs, node, f, b)
    BY DEF Ascent
  <1>2. hs \in Seq(Block) /\ N \in Nat /\ DOMAIN hs = 1..N
    BY LenProperties DEF Ascent
  <1>3. L \in UtxoSet
    BY ReplayEquation DEF Outcome
  <1>4. PICK P : AppliesBy(P, L, hs)
    BY <1>2, <1>3, ApplyByPrefixOfBranch
  <1>5. /\ node \in [0..N -> Hash] /\ node[0] = f /\ node[N] = b
        /\ \A k \in 0..(N - 1) : hs[k + 1] = node[k + 1] /\ Parent[node[k + 1]] = node[k]
    BY <1>1 DEF Ascends
  <1>6. /\ P \in [0..N -> Progress]
        /\ P[0] = [ok |-> TRUE, ledger |-> L, diffs |-> diffs]
        /\ \A k \in 0..(N - 1) : P[k + 1] = ApplyStep(P[k], hs[k + 1])
        /\ ApplyBlocks(L, hs) = P[N]
    BY <1>4 DEF AppliesBy
  <1> DEFINE Done(k) == {hs[j] : j \in 1..k}
             Right(r, k) ==
               /\ r.ok <=> ReplayOf[node[k]].ok
               /\ r.ok => /\ r.ledger = ReplayOf[node[k]].ledger
                          /\ \A g \in Hash : r.diffs[g] = IF g \in Done(k) THEN ReplayOf[g].diff
                                                          ELSE diffs[g]
             T == {k \in 0..N : Right(P[k], k)}
  <1> HIDE DEF N
  <1>7. 0 \in T
    <2>1. P[0].ok = TRUE /\ P[0].ledger = L /\ P[0].diffs = diffs /\ Done(0) = {}
      BY <1>6
    <2>2. Right(P[0], 0)
      BY <2>1, <1>5
    <2> HIDE DEF Right
    <2> QED  BY <2>2, <1>2
  <1>8. ASSUME NEW k \in 0..(N - 1), k \in T  PROVE  k + 1 \in T
    <2> DEFINE r == P[k]
               g == hs[k + 1]
               s == ApplyBlock(r.ledger, g)
    <2>1. k \in Nat /\ k \in 0..N /\ k + 1 \in 0..N /\ k + 1 \in 1..N
      BY <1>2
    <2>2. g \in Block /\ g \in Hash /\ node[k + 1] = g /\ Parent[g] = node[k]
          /\ node[k] \in Hash /\ Parent[g] # Zero
      BY <2>1, <1>2, <1>5, ElementOfSeq, TreeAssumption DEF Hash
    <2>3. r \in Progress /\ P[k + 1] = ApplyStep(r, g)
      BY <2>1, <1>6
    <2>4. r.ok \in BOOLEAN /\ r.ledger \in UtxoSet /\ r.diffs \in DiffMap
      BY <2>3 DEF Progress
    <2>5. Right(r, k)
      BY <1>8
    <2>6. ReplayOf[g] = IF ReplayOf[node[k]].ok THEN ApplyBlock(ReplayOf[node[k]].ledger, g)
                        ELSE ReplayOf[node[k]]
      BY <2>2, ReplayEquation
    <2>7. P[k + 1] = IF r.ok /\ s.ok
                     THEN [ok |-> TRUE, ledger |-> s.ledger,
                           diffs |-> [r.diffs EXCEPT ![g] = s.diff]]
                     ELSE [r EXCEPT !.ok = FALSE]
      BY <2>3 DEF ApplyStep
    <2>8. Done(k + 1) = Done(k) \cup {g}
      <3>1. 1..(k + 1) = (1..k) \cup {k + 1}
        BY <2>1
      <3> QED  BY <3>1
    <2>9. Right(P[k + 1], k + 1)
      <3> HIDE DEF r, s, g
      <3>1. CASE r.ok
        <4>1. ReplayOf[g] = s
          BY <2>5, <2>6, <3>1 DEF s
        <4>2. CASE s.ok
          <5>1. /\ P[k + 1].ok = TRUE /\ P[k + 1].ledger = s.ledger
                /\ P[k + 1].diffs = [r.diffs EXCEPT ![g] = s.diff]
            BY <2>7, <3>1, <4>2
          <5>2. \A x \in Hash : P[k + 1].diffs[x] = IF x = g THEN s.diff ELSE r.diffs[x]
            BY <5>1, <2>4 DEF DiffMap
          <5>3. \A x \in Hash : r.diffs[x] = IF x \in Done(k) THEN ReplayOf[x].diff ELSE diffs[x]
            BY <2>5, <3>1
          <5>4. \A x \in Hash : P[k + 1].diffs[x] = IF x \in Done(k + 1) THEN ReplayOf[x].diff
                                                    ELSE diffs[x]
            <6> HIDE DEF Done
            <6> QED  BY <5>2, <5>3, <2>8, <4>1
          <5> HIDE DEF Done
          <5> QED  BY <5>1, <5>4, <4>1, <4>2, <2>2
        <4>3. CASE ~s.ok
          <5>1. P[k + 1] = [r EXCEPT !.ok = FALSE]
            BY <2>7, <4>3
          <5>2. P[k + 1].ok = FALSE
            BY <5>1, <2>3 DEF Progress
          <5> QED  BY <5>2, <4>1, <4>3, <2>2
        <4> QED  BY <4>2, <4>3
      <3>2. CASE ~r.ok
        <4>1. P[k + 1] = [r EXCEPT !.ok = FALSE]
          BY <2>7, <3>2
        <4>2. P[k + 1].ok = FALSE
          BY <4>1, <2>3 DEF Progress
        <4>3. ReplayOf[g] = ReplayOf[node[k]] /\ ~ReplayOf[g].ok
          BY <2>5, <2>6, <3>2
        <4> QED  BY <4>2, <4>3, <2>2
      <3> QED  BY <3>1, <3>2
    <2> HIDE DEF Right
    <2> QED  BY <2>1, <2>9
  <1> HIDE DEF T, Right
  <1>9. \A k \in 0..N : k \in T
    BY <1>2, <1>7, <1>8, BoundedInduction
  <1>10. N \in 0..N /\ P[N] \in Progress
    BY <1>2, <1>6
  <1>11. Right(P[N], N)
    BY <1>9, <1>10 DEF T
  <1>12. Done(N) = ToSet(hs)
    BY <1>2 DEF ToSet
  <1> QED  BY <1>5, <1>6, <1>10, <1>11, <1>12 DEF Right, ReplaysTo

-----------------------------------------------------------------------------
(* The invariant in three parts: the tree, the orphans, and the chain.     *)

TreeShape ==
  /\ stored \subseteq Hash /\ cached = stored
  /\ work \in [Hash -> Nat]
  /\ \A h \in stored : Parent[h] \in stored \cup {Zero}
  /\ \A h \in stored :
       work[h] = Weight[h] + (IF Parent[h] = Zero THEN 0 ELSE work[Parent[h]])

QueueShape ==
  /\ orphans \subseteq Hash /\ orphanOrder \in Seq(Hash)
  /\ OrphanQueueSound
  /\ OrphansOnce

ChainShape ==
  /\ tip \in stored /\ tipWork = work[tip]
  /\ diffs \in DiffMap /\ ledger \in UtxoSet /\ resurrected \subseteq Tx
  /\ LedgerIsReplay
  /\ DiffsOfReplay

LEMMA ShapesOfInvariant ==
  ASSUME IInv
  PROVE  TreeShape /\ QueueShape /\ ChainShape
  <1>1. tip \in Hash /\ tip # Zero /\ tip \in stored
    BY TreeAssumption DEF IInv, TypeOK
  <1> QED  BY <1>1 DEF IInv, TypeOK, CacheIsTree, TreeSound, TreeShape, QueueShape,
              ChainShape, DiffMap

LEMMA InvariantOfShapes ==
  ASSUME TreeShape', QueueShape', ChainShape'
  PROVE  IInv'
  <1>1. tip' \in Hash /\ tip' # Zero /\ tip' \in stored' /\ tipWork' \in Nat
    BY TreeAssumption DEF TreeShape, ChainShape
  <1>2. TypeOK'
    BY <1>1 DEF TypeOK, TreeShape, QueueShape, ChainShape, DiffMap
  <1>3. TreeSound'
    BY <1>1 DEF TreeSound, TreeShape, ChainShape
  <1> QED  BY <1>2, <1>3 DEF IInv, CacheIsTree, TreeShape, QueueShape, ChainShape

\* The first block satisfies the invariant.
LEMMA InitInvariant ==
  ASSUME Init
  PROVE  IInv
  <1>1. Genesis \in Hash /\ Genesis # Zero /\ Weight[Genesis] \in Nat
    BY TreeAssumption DEF Hash
  <1>2. PathFrom[Genesis] = {Genesis}
    BY <1>1, PathEquation, TreeAssumption
  <1>3. LedgerIsReplay /\ DiffsOfReplay
    BY <1>2, ReplayEquation DEF Init, LedgerIsReplay, DiffsOfReplay, Canonical
  <1>4. TypeOK
    <2>1. ledger \in UtxoSet
      BY GenesisGrounded DEF Init
    <2>2. work \in [Hash -> Nat] /\ diffs \in [Hash -> BlockDiff \cup {NoDiff}]
      BY <1>1, TreeAssumption DEF Init
    <2>3. orphans \subseteq Hash /\ orphanOrder \in Seq(Hash) /\ resurrected \subseteq Tx
      BY DEF Init
    <2> QED  BY <1>1, <2>1, <2>2, <2>3 DEF Init, TypeOK
  <1>5. TreeSound
    <2>1. work[Genesis] = Weight[Genesis]
      BY <1>1 DEF Init
    <2> QED  BY <1>1, <2>1, TreeAssumption DEF Init, TreeSound
  <1>6. OrphanQueueSound /\ OrphansOnce
    BY FS_EmptySet, TreeAssumption DEF Init, OrphanQueueSound, OrphansOnce, ToSet
  <1> QED  BY <1>3, <1>4, <1>5, <1>6 DEF IInv, CacheIsTree, Init

\* What the tree has of a path, it has to the root.
LEMMA StoredPath ==
  ASSUME TreeShape, NEW h \in stored
  PROVE  h \in Hash /\ PathFrom[h] \subseteq stored
  BY PathWithin DEF TreeShape

-----------------------------------------------------------------------------
(* The tree and the queue.                                                 *)

\* A block that is added weighs what its ancestors and itself do.
LEMMA TreeGrows ==
  ASSUME TreeShape, NEW b \in Block, CanAdd(b), AddBlock(b)
  PROVE  /\ TreeShape'
         /\ stored' = stored \cup {b}
         /\ \A h \in stored : work'[h] = work[h]
         /\ work'[b] = WorkOver(b) /\ WorkOver(b) \in Nat
  <1>1. b \in Hash /\ b # Zero /\ b \notin stored /\ Zero \notin stored
        /\ Parent[b] \in stored \cup {Zero}
    BY TreeAssumption DEF Hash, CanAdd, TreeShape
  <1>2. WorkOver(b) \in Nat
        /\ WorkOver(b) = Weight[b] + (IF Parent[b] = Zero THEN 0 ELSE work[Parent[b]])
    <2>1. Weight[b] \in Nat
      BY <1>1, TreeAssumption
    <2>2. CASE Parent[b] = Zero
      BY <1>1, <2>1, <2>2 DEF WorkOver
    <2>3. CASE Parent[b] # Zero
      <3>1. work[Parent[b]] \in Nat /\ Parent[b] \in stored
        BY <1>1, <2>3 DEF TreeShape
      <3> QED  BY <2>1, <2>3, <3>1 DEF WorkOver
    <2> QED  BY <2>2, <2>3
  <1>3. /\ stored' = stored \cup {b} /\ cached' = stored'
        /\ work' = [work EXCEPT ![b] = WorkOver(b)]
    BY DEF AddBlock, TreeShape
  <1>4. work' \in [Hash -> Nat] /\ work'[b] = WorkOver(b) /\ \A h \in stored : work'[h] = work[h]
    <2> DEFINE w == WorkOver(b)
    <2> HIDE DEF w
    <2>1. w \in Nat /\ work' = [work EXCEPT ![b] = w] /\ work \in [Hash -> Nat]
      BY <1>2, <1>3 DEF w, TreeShape
    <2>2. stored \subseteq Hash
      BY DEF TreeShape
    <2>3. work'[b] = w /\ work' \in [Hash -> Nat] /\ \A h \in stored : work'[h] = work[h]
      BY <1>1, <2>1, <2>2
    <2> QED  BY <2>3 DEF w
  <1>5. \A h \in stored' : Parent[h] \in stored' \cup {Zero}
    BY <1>1, <1>3 DEF TreeShape
  <1>6. \A h \in stored : Parent[h] # Zero => Parent[h] \in stored
    BY DEF TreeShape
  <1>7. ASSUME NEW h \in stored'
        PROVE  work'[h] = Weight[h] + (IF Parent[h] = Zero THEN 0 ELSE work'[Parent[h]])
    <2>1. CASE h = b
      BY <2>1, <1>1, <1>2, <1>4
    <2>2. CASE h # b
      <3>1. h \in stored
        BY <1>3, <2>2
      <3> QED  BY <3>1, <1>4, <1>6 DEF TreeShape
    <2> QED  BY <2>1, <2>2
  <1> QED  BY <1>2, <1>3, <1>4, <1>5, <1>7 DEF TreeShape

\* A new orphan takes the place of the oldest when there is none left.
LEMMA QueueKept ==
  ASSUME QueueShape, NEW b \in Block, AddOrphan(b)
  PROVE  QueueShape'
  <1> USE DEF QueueShape, OrphanQueueSound, OrphansOnce
  <1>1. CASE b \in orphans
    BY <1>1 DEF AddOrphan, queue
  <1>2. CASE b \notin orphans
    <2> DEFINE q == orphanOrder
               s == Evicted.order
    <2>0. b \in Hash /\ Len(q) \in Nat /\ DOMAIN q = 1..Len(q) /\ MaxOrphans \in Nat \ {0}
      BY TreeAssumption, LenProperties DEF Hash
    <2>1. /\ s \in Seq(Hash) /\ Len(s) < MaxOrphans
          /\ ToSet(s) = Evicted.set /\ Evicted.set \subseteq orphans
          /\ \A i, j \in 1..Len(s) : s[i] = s[j] => i = j
      <3>1. CASE Cardinality(orphans) >= MaxOrphans /\ q # <<>>
        <4>1. s = Tail(q) /\ Evicted.set = orphans \ {Head(q)}
          BY <3>1 DEF Evicted
        <4>2. /\ Head(q) = q[1] /\ Tail(q) \in Seq(Hash) /\ Len(Tail(q)) = Len(q) - 1
              /\ \A i \in 1..Len(Tail(q)) : Tail(q)[i] = q[i + 1]
          BY <3>1, HeadTailProperties
        <4>3. Len(q) >= 1
          BY <3>1, <2>0, EmptySeq
        <4> HIDE DEF s
        <4>4. /\ s \in Seq(Hash) /\ Len(s) = Len(q) - 1 /\ DOMAIN s = 1..Len(s)
              /\ \A i \in 1..Len(s) : s[i] = q[i + 1] /\ i + 1 \in 2..Len(q)
          BY <4>1, <4>2, <4>3, <2>0, LenProperties
        <4>5. \A i \in 2..Len(q) : i - 1 \in 1..Len(s) /\ s[i - 1] = q[i]
          BY <4>4, <4>3, <2>0
        <4>6. \A i \in 2..Len(q) : q[i] # q[1]
          BY <4>3, <2>0
        <4>7. orphans = {q[i] : i \in 1..Len(q)}
          BY <2>0 DEF ToSet
        <4>8. ToSet(s) = orphans \ {q[1]}
          <5>1. \A x \in ToSet(s) : x \in orphans /\ x # q[1]
            BY <4>4, <4>6, <4>7, <2>0 DEF ToSet
          <5>2. ASSUME NEW x \in orphans, x # q[1]  PROVE  x \in ToSet(s)
            <6>1. PICK i \in 1..Len(q) : x = q[i]
              BY <4>7
            <6>2. i \in 2..Len(q)
              BY <6>1, <5>2, <2>0
            <6> QED  BY <6>1, <6>2, <4>4, <4>5 DEF ToSet
          <5> QED  BY <5>1, <5>2
        <4>9. \A i, j \in 1..Len(s) : s[i] = s[j] => i = j
          <5>1. \A i \in 1..Len(s) : i + 1 \in 1..Len(q)
            BY <4>4, <2>0
          <5>2. ASSUME NEW i \in 1..Len(s), NEW j \in 1..Len(s), s[i] = s[j]  PROVE  i = j
            <6>1. i + 1 = j + 1
              BY <5>1, <5>2, <4>4
            <6> QED  BY <6>1
          <5> QED  BY <5>2
        <4>10. Len(s) < MaxOrphans
          BY <4>4, <4>3, <2>0
        <4> QED  BY <4>1, <4>2, <4>4, <4>8, <4>9, <4>10
      <3>2. CASE ~(Cardinality(orphans) >= MaxOrphans /\ q # <<>>)
        <4>1. s = q /\ Evicted.set = orphans
          BY <3>2 DEF Evicted
        <4>2. Len(q) < MaxOrphans
          <5>1. CASE q = <<>>
            BY <5>1, <2>0
          <5>2. CASE q # <<>>
            BY <5>2, <3>2, <2>0
          <5> QED  BY <5>1, <5>2
        <4> HIDE DEF s
        <4> QED  BY <4>1, <4>2
      <3> QED  BY <3>1, <3>2
    <2>2. orphans' = Evicted.set \cup {b} /\ orphanOrder' = Append(s, b)
      BY <1>2 DEF AddOrphan
    <2> HIDE DEF s, q
    <2> DEFINE r == Append(s, b)
    <2>3. Len(s) \in Nat /\ DOMAIN s = 1..Len(s) /\ \A i \in 1..Len(s) : s[i] # b
      <3>1. Len(s) \in Nat /\ DOMAIN s = 1..Len(s)
        BY <2>1, LenProperties
      <3> QED  BY <3>1, <2>1, <1>2 DEF ToSet
    <2>4. /\ r \in Seq(Hash) /\ Len(r) = Len(s) + 1 /\ r[Len(s) + 1] = b
          /\ \A i \in 1..Len(s) : r[i] = s[i]
      BY <2>0, <2>1, AppendProperties
    <2> HIDE DEF r
    <2>5. DOMAIN r = 1..(Len(s) + 1) /\ Len(r) \in Nat
      BY <2>4, LenProperties
    <2>6. \A i \in 1..(Len(s) + 1) : i \in 1..Len(s) \/ i = Len(s) + 1
      BY <2>3
    <2>7. ToSet(r) = ToSet(s) \cup {b}
      <3>1. ToSet(r) \subseteq ToSet(s) \cup {b}
        BY <2>3, <2>4, <2>5, <2>6 DEF ToSet
      <3>2. b \in ToSet(r)
        <4>1. Len(s) + 1 \in DOMAIN r
          BY <2>3, <2>5
        <4> QED  BY <4>1, <2>4 DEF ToSet
      <3>3. ToSet(s) \subseteq ToSet(r)
        <4>1. \A i \in 1..Len(s) : i \in DOMAIN r
          BY <2>3, <2>5
        <4> QED  BY <4>1, <2>3, <2>4 DEF ToSet
      <3> QED  BY <3>1, <3>2, <3>3
    <2>8. \A i, j \in 1..Len(r) : r[i] = r[j] => i = j
      BY <2>1, <2>3, <2>4, <2>6
    <2>9. Len(r) = Cardinality(ToSet(r))
      <3>1. r \in Surjection(1..Len(r), ToSet(r))
        BY <2>4, <2>5 DEF Surjection, ToSet
      <3>2. r \in Injection(1..Len(r), ToSet(r))
        BY <2>4, <2>5, <2>8 DEF Injection, IsInjective, ToSet
      <3>3. ExistsBijection(1..Len(r), ToSet(r))
        BY <3>1, <3>2 DEF ExistsBijection, Bijection
      <3> QED  BY <2>5, <3>3, FS_CountingElements
    <2>10. Len(r) <= MaxOrphans
      BY <2>0, <2>1, <2>3, <2>4
    <2> QED  BY <2>0, <2>1, <2>2, <2>4, <2>7, <2>8, <2>9, <2>10 DEF r
  <1> QED  BY <1>1, <1>2

-----------------------------------------------------------------------------
(* What a step does to the chain.                                          *)

\* Applying a block on the tip is its replay; a failure leaves the ledger alone.
LEMMA AppliedOnTip ==
  ASSUME IInv, NEW b \in Block, Parent[b] = tip
  PROVE  /\ ApplyBlock(ledger, b) = ReplayOf[b]
         /\ ReplayOf[b] \in Outcome
         /\ ~ReplayOf[b].ok => ReplayOf[b].ledger = ledger
  <1> DEFINE C == ChainTxs(tip)
  <1>1. tip \in Hash /\ tip # Zero /\ b \in Hash /\ ledger \in UtxoSet
    BY TreeAssumption DEF IInv, TypeOK, Hash
  <1>2. ReplayOf[tip].ok /\ ledger = ReplayOf[tip].ledger
    BY DEF IInv, LedgerIsReplay
  <1>3. ApplyBlock(ledger, b) = ReplayOf[b] /\ ReplayOf[b] \in Outcome
    BY <1>1, <1>2, ReplayEquation
  <1>4. Rooted(ledger, C) /\ C \in SUBSET Tx
    BY <1>1, <1>2, ReplaySound, ChainTxsFacts DEF ReplayedOn, Grounded
  <1>5. FreshStart(b, C)
    BY <1>1, FreshMints
  <1> HIDE DEF C
  <1>6. AppliedSoundly(ApplyBlock(ledger, b), ledger, C, b)
    BY <1>1, <1>4, <1>5, ApplyBlockSound
  <1> QED  BY <1>3, <1>6 DEF AppliedSoundly

\* The two branches of a block that does not extend the tip.
OldBranch(b) == ChainToFork(cached \cup {b}, tip, ForkPoint(b))
NewBranch(b) ==
  Append(Reverse(ChainToFork(cached \cup {b}, Parent[b], ForkPoint(b))), b)

\* Whatever the cache has, the two branches meet where find_lca says.
LEMMA BranchesMeet ==
  ASSUME cached \in SUBSET Hash, NEW b \in Block, Parent[b] \in Hash, tip \in Hash,
         ForkPoint(b) # Zero
  PROVE  /\ Forks(cached \cup {b}, Parent[b], tip, ForkPoint(b))
         /\ Descent(OldBranch(b), tip, ForkPoint(b))
         /\ Ascent(NewBranch(b), ForkPoint(b), b)
  <1> DEFINE known == cached \cup {b}
             f == ForkPoint(b)
             ds == ChainToFork(known, Parent[b], f)
  <1>1. known \in SUBSET Hash /\ f = FindLca(known, Parent[b], tip)
    BY DEF ForkPoint, Hash
  <1>2. OldBranch(b) = ChainToFork(known, tip, f) /\ NewBranch(b) = Append(Reverse(ds), b)
    BY DEF OldBranch, NewBranch
  <1> HIDE DEF known, f
  <1>3. Forks(known, Parent[b], tip, f)
    BY <1>1, LcaIsShared DEF f
  <1>4. /\ f \in PathFrom[Parent[b]] /\ PathFrom[Parent[b]] \ PathFrom[f] \subseteq known
        /\ f \in PathFrom[tip] /\ PathFrom[tip] \ PathFrom[f] \subseteq known
    BY <1>3 DEF Forks
  <1>5. Descent(ChainToFork(known, tip, f), tip, f)
    BY <1>1, <1>4, ChainToForkDescends
  <1>6. Descent(ds, Parent[b], f)
    BY <1>1, <1>4, ChainToForkDescends
  <1> HIDE DEF ds
  <1>7. Ascent(Append(Reverse(ds), b), f, b)
    BY <1>4, <1>6, ReverseAscends
  <1> QED  BY <1>2, <1>3, <1>5, <1>7 DEF known, f

\* Either b shares no block with the canonical chain and does not replay, or the two
\* branches are what they share no more, and reorganising along them is the replay
\* of b.
Branches(b) ==
  LET f == ForkPoint(b)
      new == ApplyBlocks(UnwindBlocks(ledger, OldBranch(b)), NewBranch(b))
  IN  /\ f = Zero => ~ReplayOf[b].ok
      /\ f # Zero => /\ f \in PathFrom[Parent[b]] /\ f \in PathFrom[tip]
                     /\ PathFrom[f] = PathFrom[Parent[b]] \cap PathFrom[tip]
                     /\ Descent(OldBranch(b), tip, f)
                     /\ Ascent(NewBranch(b), f, b)
                     /\ ReplaysTo(new, NewBranch(b), b)

LEMMA BranchesOf ==
  ASSUME IInv, NEW b \in Block, Connects(b)
  PROVE  Branches(b)
  <1> DEFINE known == cached \cup {b}
             f == ForkPoint(b)
             a == Parent[b]
             shared == PathFrom[a] \cap PathFrom[tip]
  <1>1. TreeShape /\ ChainShape
    BY ShapesOfInvariant
  <1>2. /\ b \in Hash /\ a \in stored /\ tip \in stored /\ known \in SUBSET Hash
        /\ a # Zero /\ stored \subseteq known
    BY <1>1, TreeAssumption DEF TreeShape, ChainShape, Connects, ParentKnown, Hash
  <1>3. a \in Hash /\ PathFrom[a] \subseteq known /\ tip \in Hash /\ PathFrom[tip] \subseteq known
    BY <1>1, <1>2, StoredPath
  <1> HIDE DEF known, f
  <1>4. IF shared = {} THEN f = Zero ELSE f \in shared /\ PathFrom[f] = shared
    <2>1. f = FindLca(known, a, tip)
      BY DEF f, known, ForkPoint
    <2> HIDE DEF a
    <2>2. /\ known \in SUBSET Hash /\ a \in Hash /\ tip \in Hash
          /\ PathFrom[a] \subseteq known /\ PathFrom[tip] \subseteq known
      BY <1>2, <1>3
    <2> HIDE DEF shared
    <2>3. shared = PathFrom[a] \cap PathFrom[tip]
      BY DEF shared
    <2>4. LastOf(FindLca(known, a, tip), PathFrom[a] \cap PathFrom[tip])
      BY <2>2, LcaIsLastShared
    <2> QED  BY <2>1, <2>3, <2>4 DEF LastOf
  <1>5. ASSUME f = Zero  PROVE  ~ReplayOf[b].ok
    <2>1. shared = {}
      <3>1. Zero \notin PathFrom[a]
        BY <1>3, PathFacts, TreeAssumption
      <3> QED  BY <3>1, <1>4, <1>5
    <2>2. Genesis \in PathFrom[tip]
      BY <1>1, <1>3, ReplaySound DEF ChainShape, LedgerIsReplay, ReplayedOn
    <2>3. ReplayOf[b].ok => Genesis \in PathFrom[b]
      BY <1>2, ReplaySound DEF ReplayedOn
    <2>4. PathFrom[b] = {b} \cup PathFrom[a] /\ b # Genesis
      BY <1>2, PathEquation, TreeAssumption
    <2>5. Genesis \notin PathFrom[a]
      BY <2>1, <2>2
    <2>6. Genesis \notin PathFrom[b]
      BY <2>4, <2>5
    <2> QED  BY <2>3, <2>6
  <1>6. ASSUME f # Zero
        PROVE  /\ f \in PathFrom[a] /\ f \in PathFrom[tip] /\ PathFrom[f] = shared
               /\ Descent(OldBranch(b), tip, f)
               /\ Ascent(NewBranch(b), f, b)
               /\ ReplaysTo(ApplyBlocks(UnwindBlocks(ledger, OldBranch(b)), NewBranch(b)),
                            NewBranch(b), b)
    <2>1. f \in PathFrom[a] /\ f \in PathFrom[tip] /\ PathFrom[f] = shared
      BY <1>4, <1>6
    <2>2. cached \in SUBSET Hash /\ b \in Block /\ Parent[b] \in Hash /\ ForkPoint(b) # Zero
      BY <1>1, <1>3, <1>6 DEF f, TreeShape
    <2>3. Descent(OldBranch(b), tip, f)
      BY <2>2, <1>3, BranchesMeet DEF f
    <2>4. Ascent(NewBranch(b), f, b)
      BY <2>2, <1>3, BranchesMeet DEF f
    <2> DEFINE old == OldBranch(b)
               new == NewBranch(b)
    <2> HIDE DEF old, new
    <2>5. ReplayOf[tip].ok /\ ledger = ReplayOf[tip].ledger /\ diffs \in DiffMap
      BY <1>1 DEF ChainShape, LedgerIsReplay
    <2>6. \A g \in ToSet(old) : diffs[g] = ReplayOf[g].diff
      <3>1. ToSet(old) \subseteq PathFrom[tip] /\ old \in Seq(Block)
        BY <2>3 DEF old, Descent
      <3>2. Genesis \notin ToSet(old)
        <4>1. \A i \in DOMAIN old : old[i] \in Block
          BY <3>1, ElementOfSeq, LenProperties
        <4> QED  BY <4>1, TreeAssumption DEF ToSet
      <3> QED  BY <3>1, <3>2, <1>1 DEF ChainShape, DiffsOfReplay, Canonical
    <2>7. UnwindBlocks(ledger, old) = ReplayOf[f].ledger /\ ReplayOf[f].ok
      <3>1. Descent(old, tip, f)
        BY <2>3 DEF old
      <3> QED  BY <1>3, <2>5, <2>6, <3>1, UnwindsToFork
    <2>8. ReplaysTo(ApplyBlocks(UnwindBlocks(ledger, old), new), new, b)
      <3>1. Ascent(new, f, b) /\ f \in Hash
        BY <2>1, <2>4, <1>3, PathFacts DEF new
      <3>2. ReplaysTo(ApplyBlocks(ReplayOf[f].ledger, new), new, b)
        BY <2>5, <2>7, <3>1, AppliesToTip
      <3> QED  BY <2>7, <3>2
    <2> QED  BY <2>1, <2>3, <2>4, <2>8 DEF old, new
  <1> QED  BY <1>5, <1>6 DEF Branches, f

\* The chain does not move.
StaysPut == UNCHANGED <<tip, tipWork, ledger, diffs>>

\* The chain moves to the block b that is added, whose chain replays: the ledger and
\* the diffs along it become those of the replay.
MovesTo(b) ==
  /\ CanAdd(b) /\ AddBlock(b) /\ Parent[b] \in stored
  /\ tip' = b /\ tipWork' = work'[b]
  /\ Parent[b] # tip => WorkOver(b) > tipWork
  /\ ReplayOf[b].ok
  /\ ledger' = ReplayOf[b].ledger
  /\ diffs' \in DiffMap
  /\ \A g \in PathFrom[b] \ {Genesis} : diffs'[g] = ReplayOf[g].diff

\* The chain stays although b is added: b does not replay or is not heavier, unless
\* the reorganisation to it was too deep.
Declines(b) ==
  AddBlock(b) /\ WithinReorg => ~ReplayOf[b].ok \/ ~(WorkOver(b) > tipWork)

Effect(b) ==
  /\ UNCHANGED tree \/ (CanAdd(b) /\ AddBlock(b))
  /\ UNCHANGED queue \/ AddOrphan(b)
  /\ resurrected' \subseteq Tx
  /\ (StaysPut /\ Declines(b)) \/ MovesTo(b)

LEMMA QueueOrphanEffect ==
  ASSUME IInv, NEW b \in Block, QueueOrphan(b)
  PROVE  Effect(b)
  <1>1. UNCHANGED tree /\ AddOrphan(b) /\ StaysPut /\ resurrected' \subseteq Tx
    BY DEF QueueOrphan, chain, StaysPut, IInv, TypeOK
  <1>2. ~ParentKnown(b)
    BY DEF QueueOrphan
  <1>3. ~ReplayOf[b].ok \/ ~AddBlock(b)
    <2> SUFFICES ASSUME AddBlock(b)  PROVE  ~ReplayOf[b].ok
      OBVIOUS
    <2>1. b \in stored
      BY <1>1 DEF AddBlock, tree
    <2>2. Parent[b] = Zero
      BY <2>1, <1>2 DEF IInv, TreeSound, CacheIsTree, ParentKnown
    <2> QED  BY <2>2, ReplayEquation
  <1> QED  BY <1>1, <1>3 DEF Effect, Declines

LEMMA RejectGenesisEffect ==
  ASSUME IInv, NEW b \in Block, RejectGenesis(b)
  PROVE  Effect(b)
  <1>1. CanAdd(b) /\ AddBlock(b) /\ UNCHANGED queue /\ StaysPut /\ resurrected' \subseteq Tx
    BY DEF RejectGenesis, chain, StaysPut, IInv, TypeOK
  <1>2. Parent[b] = Zero
    BY DEF RejectGenesis, ParentKnown, CanAdd, IInv, CacheIsTree
  <1>3. ~ReplayOf[b].ok
    BY <1>2, ReplayEquation
  <1> QED  BY <1>1, <1>3 DEF Effect, Declines

LEMMA SidechainEffect ==
  ASSUME IInv, NEW b \in Block, Sidechain(b)
  PROVE  Effect(b)
  <1>1. Connects(b) /\ StaysPut /\ resurrected' \subseteq Tx
    BY DEF Sidechain, chain, StaysPut, IInv, TypeOK
  <1>2. CanAdd(b) /\ AddBlock(b) /\ UNCHANGED queue
    BY <1>1 DEF Connects
  <1>3. Branches(b)
    BY <1>1, BranchesOf
  <1>4. ~ReplayOf[b].ok \/ ~(WorkOver(b) > tipWork)
    BY <1>3 DEF Sidechain, Heavier, Branches
  <1> QED  BY <1>1, <1>2, <1>4 DEF Effect, Declines

\* A block that applies on the tip becomes the tip.
LEMMA ExtensionMoves ==
  ASSUME IInv, NEW b \in Block, Parent[b] = tip, CanAdd(b), AddBlock(b), ReplayOf[b].ok,
         tip' = b, tipWork' = work'[b], ledger' = ReplayOf[b].ledger,
         diffs' = [diffs EXCEPT ![b] = ReplayOf[b].diff]
  PROVE  MovesTo(b)
  <1>1. /\ b \in Hash /\ tip \in Hash /\ tip \in stored /\ b \notin stored /\ diffs \in DiffMap
        /\ DiffsOfReplay
    BY DEF IInv, TypeOK, Hash, CanAdd, DiffMap
  <1> DEFINE d == ReplayOf[b].diff
  <1>2. d \in BlockDiff
    BY <1>1, ReplayEquation DEF Outcome
  <1>3. diffs' = [diffs EXCEPT ![b] = d]
    OBVIOUS
  <1> HIDE DEF d
  <1>4. diffs' \in DiffMap /\ diffs'[b] = d /\ \A g \in Hash : g # b => diffs'[g] = diffs[g]
    BY <1>1, <1>2, <1>3 DEF DiffMap
  <1>5. ASSUME NEW g \in PathFrom[b] \ {Genesis}  PROVE  diffs'[g] = ReplayOf[g].diff
    <2>1. CASE g = b
      BY <2>1, <1>4 DEF d
    <2>2. CASE g # b
      <3>1. g \in PathFrom[tip] /\ g \in Hash
        BY <2>2, <1>1, PathEquation
      <3> QED  BY <2>2, <3>1, <1>1, <1>4 DEF DiffsOfReplay, Canonical
    <2> QED  BY <2>1, <2>2
  <1> QED  BY <1>1, <1>4, <1>5 DEF MovesTo

LEMMA ExtendCanonicalEffect ==
  ASSUME IInv, NEW b \in Block, ExtendCanonical(b)
  PROVE  Effect(b)
  <1>1. Connects(b) /\ Parent[b] = tip /\ resurrected' \subseteq Tx
    BY DEF ExtendCanonical, IInv, TypeOK
  <1>2. CanAdd(b) /\ AddBlock(b) /\ UNCHANGED queue
    BY <1>1 DEF Connects
  <1>3. /\ ApplyBlock(ledger, b) = ReplayOf[b]
        /\ ~ReplayOf[b].ok => ReplayOf[b].ledger = ledger
    BY <1>1, AppliedOnTip
  <1>4. CASE ReplayOf[b].ok
    <2>1. MovesTo(b)
      BY <1>1, <1>2, <1>3, <1>4, ExtensionMoves DEF ExtendCanonical, SetChainTip
    <2> QED  BY <1>1, <1>2, <2>1 DEF Effect
  <1>5. CASE ~ReplayOf[b].ok
    <2>1. StaysPut /\ Declines(b)
      BY <1>3, <1>5 DEF ExtendCanonical, StaysPut, Declines
    <2> QED  BY <1>1, <1>2, <2>1 DEF Effect
  <1> QED  BY <1>4, <1>5

LEMMA MineBlockEffect ==
  ASSUME IInv, NEW b \in Block, MineBlock(b)
  PROVE  Effect(b)
  <1> DEFINE r == ApplyBlock(ledger, b)
  <1>1. /\ Parent[b] = tip /\ b \notin stored /\ ledger' = r.ledger
        /\ UNCHANGED queue /\ resurrected' \subseteq Tx
    BY DEF MineBlock, Mine, IInv, TypeOK
  <1>2. CanAdd(b)
    BY <1>1 DEF CanAdd, IInv, TypeOK
  <1>3. /\ r = ReplayOf[b]
        /\ ~ReplayOf[b].ok => ReplayOf[b].ledger = ledger
    BY <1>1, AppliedOnTip
  <1>4. IF r.ok /\ CanAdd(b)
        THEN AddBlock(b) /\ diffs' = [diffs EXCEPT ![b] = r.diff] /\ SetChainTip(b)
        ELSE UNCHANGED <<tree, diffs, tip, tipWork>>
    BY DEF MineBlock, Mine
  <1> HIDE DEF r
  <1>5. CASE ReplayOf[b].ok
    <2>1. MovesTo(b) /\ AddBlock(b)
      BY <1>1, <1>2, <1>3, <1>4, <1>5, ExtensionMoves DEF SetChainTip
    <2> QED  BY <1>1, <1>2, <2>1 DEF Effect
  <1>6. CASE ~ReplayOf[b].ok
    <2>1. StaysPut /\ Declines(b) /\ UNCHANGED tree
      BY <1>1, <1>3, <1>4, <1>6 DEF StaysPut, Declines
    <2> QED  BY <1>1, <2>1 DEF Effect
  <1> QED  BY <1>5, <1>6

\* What a reorganisation names for resubmission are transactions.
LEMMA ResurrectedType ==
  ASSUME NEW hs \in Seq(Block), NEW apply, NEW L
  PROVE  Resurrected(hs, apply, L) \subseteq Tx
  <1>1. ASSUME NEW i \in 1..Len(hs), NEW n \in 2..Len(TxsOf[hs[i]])  PROVE  TxsOf[hs[i]][n] \in Tx
    <2>1. hs[i] \in Block
      OBVIOUS
    <2>2. TxsOf[hs[i]] \in Seq(Tx) /\ n \in 1..Len(TxsOf[hs[i]])
      BY <2>1, BlockAssumption
    <2> QED  BY <2>2, ElementOfSeq
  <1> QED  BY <1>1 DEF Resurrected, SpendsOf

LEMMA ReorgToNewEffect ==
  ASSUME IInv, NEW b \in Block, ReorgToNew(b)
  PROVE  Effect(b)
  <1> DEFINE f == ForkPoint(b)
             old == OldBranch(b)
             up == NewBranch(b)
             new == ApplyBlocks(UnwindBlocks(ledger, old), up)
             Taken == /\ Len(old) <= MaxReorg /\ Len(up) <= MaxReorg
                      /\ ToSet(old) \cup ToSet(up) \subseteq cached \cup {b}
                      /\ new.ok
  <1>1. Connects(b) /\ Parent[b] # tip /\ Heavier(b) /\ f # Zero /\ ExecuteReorg(b, old, up)
    BY DEF ReorgToNew, OldBranch, NewBranch
  <1>2. CanAdd(b) /\ AddBlock(b) /\ UNCHANGED queue
    BY <1>1 DEF Connects
  <1>3. TreeShape /\ ChainShape
    BY ShapesOfInvariant
  <1>4. /\ b \in Hash /\ Parent[b] \in stored /\ tip \in stored /\ cached = stored
        /\ b # Genesis /\ stored \subseteq Hash
    BY <1>1, <1>3, TreeAssumption DEF Connects, ParentKnown, TreeShape, ChainShape, Hash
  <1>5. Branches(b)
    BY <1>1, BranchesOf
  <1> HIDE DEF f
  <1>6. /\ f \in PathFrom[Parent[b]] /\ f \in PathFrom[tip]
        /\ PathFrom[f] = PathFrom[Parent[b]] \cap PathFrom[tip]
        /\ Descent(old, tip, f) /\ Ascent(up, f, b) /\ ReplaysTo(new, up, b)
    BY <1>1, <1>5 DEF Branches, f
  <1>7. IF Taken
        THEN /\ ledger' = new.ledger /\ diffs' = new.diffs /\ SetChainTip(b)
             /\ resurrected' = Resurrected(old, up, new.ledger)
        ELSE UNCHANGED chain
    BY <1>1 DEF ExecuteReorg
  <1> HIDE DEF old, up, new
  <1>8. PathFrom[b] = {b} \cup PathFrom[Parent[b]] /\ PathFrom[tip] \subseteq stored
        /\ PathFrom[Parent[b]] \subseteq stored
    BY <1>3, <1>4, PathEquation, StoredPath
  <1>9. CASE Taken
    <2>1. ReplayOf[b].ok /\ ledger' = ReplayOf[b].ledger /\ tip' = b /\ tipWork' = work'[b]
      BY <1>6, <1>7, <1>9 DEF ReplaysTo, SetChainTip
    <2>2. diffs' \in DiffMap
      BY <1>6, <1>7, <1>9 DEF ReplaysTo, Progress
    <2>3. ASSUME NEW g \in PathFrom[b] \ {Genesis}  PROVE  diffs'[g] = ReplayOf[g].diff
      <3>1. g \in Hash /\ diffs'[g] = IF g \in ToSet(up) THEN ReplayOf[g].diff ELSE diffs[g]
        BY <1>4, <1>6, <1>7, <1>9, PathFacts DEF ReplaysTo
      <3>2. CASE g \in ToSet(up)
        BY <3>1, <3>2
      <3>3. CASE g \notin ToSet(up)
        <4>1. g \in PathFrom[tip]
          BY <3>3, <1>6 DEF Ascent
        <4> QED  BY <3>1, <3>3, <4>1, <1>3 DEF ChainShape, DiffsOfReplay, Canonical
      <3> QED  BY <3>2, <3>3
    <2>4. MovesTo(b)
      BY <1>1, <1>2, <1>4, <2>1, <2>2, <2>3 DEF MovesTo, Heavier
    <2>5. resurrected' \subseteq Tx
      BY <1>6, <1>7, <1>9, ResurrectedType DEF Descent
    <2> QED  BY <1>2, <2>4, <2>5 DEF Effect
  <1>10. CASE ~Taken
    <2>1. StaysPut /\ resurrected' \subseteq Tx
      BY <1>3, <1>7, <1>10 DEF chain, StaysPut, ChainShape
    <2>2. ASSUME WithinReorg  PROVE  ~ReplayOf[b].ok
      <3>1. f \in Hash /\ tip \in Hash
        BY <1>4, <1>6, PathFacts
      <3>2. /\ Depth[tip] = Depth[f] + Len(old) /\ Depth[b] = Depth[f] + Len(up)
            /\ Len(old) \in Nat /\ Len(up) \in Nat
        BY <1>6, LenProperties DEF Descent, Ascent
      <3>3. Depth[tip] \in Nat /\ Depth[b] \in Nat /\ Depth[f] \in Nat /\ MaxReorg \in Nat
            /\ Depth[tip] <= MaxReorg /\ Depth[b] <= MaxReorg
        BY <2>2, <3>1, <1>4, DepthEquation, TreeAssumption DEF WithinReorg
      <3>4. Len(old) <= MaxReorg /\ Len(up) <= MaxReorg
        BY <3>2, <3>3
      <3>5. ToSet(old) \cup ToSet(up) \subseteq cached \cup {b}
        BY <1>4, <1>6, <1>8 DEF Descent, Ascent
      <3> QED  BY <3>4, <3>5, <1>6, <1>10 DEF ReplaysTo
    <2> QED  BY <1>2, <2>1, <2>2 DEF Effect, Declines
  <1> QED  BY <1>9, <1>10

LEMMA StepEffect ==
  ASSUME IInv, NEW b \in Block, ReceiveBlock(b) \/ MineBlock(b)
  PROVE  Effect(b)
  BY QueueOrphanEffect, RejectGenesisEffect, ExtendCanonicalEffect, ReorgToNewEffect,
     SidechainEffect, MineBlockEffect DEF ReceiveBlock

-----------------------------------------------------------------------------
(* The invariant is inductive.                                             *)

LEMMA ChainStays ==
  ASSUME TreeShape, ChainShape, StaysPut, resurrected' \subseteq Tx,
         \A h \in stored : h \in stored' /\ work'[h] = work[h]
  PROVE  ChainShape'
  BY DEF ChainShape, StaysPut, LedgerIsReplay, DiffsOfReplay, Canonical

LEMMA ChainMoves ==
  ASSUME NEW b \in Block, MovesTo(b), resurrected' \subseteq Tx
  PROVE  ChainShape'
  <1>1. b \in Hash /\ ReplayOf[b].ledger \in UtxoSet
    BY ReplayEquation DEF Hash, Outcome
  <1> QED  BY <1>1 DEF MovesTo, AddBlock, ChainShape, LedgerIsReplay, DiffsOfReplay, Canonical

LEMMA InvariantKept ==
  ASSUME IInv, NEW b \in Block, Effect(b)
  PROVE  IInv'
  <1>1. TreeShape /\ QueueShape /\ ChainShape
    BY ShapesOfInvariant
  <1>2. TreeShape' /\ \A h \in stored : h \in stored' /\ work'[h] = work[h]
    <2>1. CASE UNCHANGED tree
      BY <1>1, <2>1 DEF tree, TreeShape
    <2>2. CASE CanAdd(b) /\ AddBlock(b)
      BY <1>1, <2>2, TreeGrows
    <2> QED  BY <2>1, <2>2 DEF Effect
  <1>3. QueueShape'
    <2>1. CASE UNCHANGED queue
      BY <1>1, <2>1 DEF queue, QueueShape, OrphanQueueSound, OrphansOnce
    <2>2. CASE AddOrphan(b)
      BY <1>1, <2>2, QueueKept
    <2> QED  BY <2>1, <2>2 DEF Effect
  <1>4. ChainShape'
    BY <1>1, <1>2, ChainStays, ChainMoves DEF Effect
  <1> QED  BY <1>2, <1>3, <1>4, InvariantOfShapes

\* The inductive invariant: the types, the tree, the orphans, and the ledger and the
\* diffs as the replay of the canonical chain.
THEOREM InductiveInvariant == Spec => []IInv
  <1>1. Init => IInv
    BY InitInvariant
  <1>2. IInv /\ [Next]_vars => IInv'
    <2> SUFFICES ASSUME IInv, [Next]_vars  PROVE  IInv'
      OBVIOUS
    <2>1. ASSUME NEW b \in Block, ReceiveBlock(b) \/ MineBlock(b)  PROVE  IInv'
      BY <2>1, StepEffect, InvariantKept
    <2>2. CASE UNCHANGED vars
      BY <2>2 DEF vars, IInv, TypeOK, CacheIsTree, TreeSound, OrphanQueueSound, OrphansOnce,
                  LedgerIsReplay, DiffsOfReplay, Canonical
    <2> QED  BY <2>1, <2>2 DEF Next
  <1> QED  BY <1>1, <1>2, PTL DEF Spec

\* The variables of ChainStore keep their types.
THEOREM TypeCorrectness == Spec => []TypeOK
  <1>1. IInv => TypeOK
    BY DEF IInv
  <1> QED  BY <1>1, InductiveInvariant, PTL

\* Whatever extensions, failed blocks and reorganisations came before, the ledger is
\* what applying the canonical chain from the root gives.
THEOREM LedgerIsTheReplay == Spec => []LedgerIsReplay
  <1>1. IInv => LedgerIsReplay
    BY DEF IInv
  <1> QED  BY <1>1, InductiveInvariant, PTL

\* The tree is closed under parents and every block weighs what its chain does.
THEOREM TreeIsSound == Spec => []TreeSound
  <1>1. IInv => TreeSound
    BY DEF IInv
  <1> QED  BY <1>1, InductiveInvariant, PTL

\* The orphan map and its order agree and stay within the bound.
THEOREM OrphanQueueIsSound == Spec => []OrphanQueueSound
  <1>1. IInv => OrphanQueueSound
    BY DEF IInv
  <1> QED  BY <1>1, InductiveInvariant, PTL

\* Every canonical block has a diff, and it takes the replay of the block back to
\* that of its parent exactly.
THEOREM EveryBlockCanBeTakenBack == Spec => []UndoReady
  <1>1. IInv => UndoReady
    <2> SUFFICES ASSUME IInv, NEW h \in Canonical \ {Genesis}
                 PROVE  /\ diffs[h] # NoDiff
                        /\ UnwindWithDiff(ReplayOf[h].ledger, diffs[h])
                             = ReplayOf[Parent[h]].ledger
      BY DEF UndoReady
    <2>1. tip \in Hash /\ ReplayOf[tip].ok /\ diffs[h] = ReplayOf[h].diff
      BY DEF IInv, TypeOK, LedgerIsReplay, DiffsOfReplay
    <2>2. h \in Hash /\ ReplayOf[h].ok
      BY <2>1, PathFacts, ReplayedBelow DEF Canonical
    <2>3. Undoes(ReplayOf[h].diff, ReplayOf[h].ledger, ReplayOf[Parent[h]].ledger)
      BY <2>2, ReplaySound DEF ReplayedOn
    <2>4. ReplayOf[h].diff \in BlockDiff
      BY <2>2, ReplayEquation DEF Outcome
    <2> QED  BY <2>1, <2>3, <2>4, TreeAssumption DEF Undoes
  <1> QED  BY <1>1, InductiveInvariant, PTL

\* A step that moves the tip moves it to a child or to a heavier block.
LEMMA MovesSoundly ==
  ASSUME IInv, NEW b \in Block, Effect(b)
  PROVE  /\ TipStep
         /\ tipWork \in Nat /\ tipWork' \in Nat /\ tipWork' >= tipWork
  <1>1. TreeShape /\ ChainShape
    BY ShapesOfInvariant
  <1>2. tipWork = work[tip] /\ tipWork \in Nat
    BY <1>1 DEF ChainShape, TreeShape
  <1>3. CASE StaysPut
    BY <1>2, <1>3 DEF StaysPut, TipStep
  <1>4. CASE MovesTo(b)
    <2>1. /\ b \notin stored /\ tip \in stored /\ tip' = b /\ tipWork' = work'[b]
          /\ Parent[b] # tip => WorkOver(b) > tipWork
      BY <1>1, <1>4 DEF MovesTo, CanAdd, ChainShape
    <2>2. tipWork' = WorkOver(b) /\ WorkOver(b) \in Nat
      BY <1>1, <1>4, <2>1, TreeGrows DEF MovesTo
    <2>3. Parent[b] = tip => WorkOver(b) >= tipWork
      <3>1. Weight[b] \in Nat
        BY TreeAssumption DEF Hash
      <3> QED  BY <2>1, <1>2, <3>1 DEF WorkOver
    <2> QED  BY <1>2, <2>1, <2>2, <2>3 DEF TipStep
  <1> QED  BY <1>3, <1>4 DEF Effect

\* The tip moves to a child of the tip or to a strictly heavier block; a block or a
\* reorganisation that fails changes neither the ledger nor the diffs.
THEOREM TheTipMovesSoundly == Spec => TipMovesSoundly
  <1>1. IInv /\ [Next]_vars => [TipStep]_vars
    BY StepEffect, MovesSoundly DEF Next
  <1> QED  BY <1>1, InductiveInvariant, PTL DEF Spec, TipMovesSoundly

\* When no branch is longer than what a reorganisation takes, no block of the tree
\* leads a branch that is valid throughout and heavier than the canonical one.
THEOREM TheHeaviestValidBranchWins ==
  ASSUME WithinReorg
  PROVE  Spec => []NoHeavierValidBranch
  <1>1. Init => NoHeavierValidBranch
    <2>1. Init => work[Genesis] = Weight[Genesis] /\ Weight[Genesis] \in Nat
      BY TreeAssumption DEF Init, Hash
    <2> QED  BY <2>1 DEF Init, NoHeavierValidBranch
  <1>2. ASSUME IInv, NoHeavierValidBranch, NEW b \in Block, Effect(b)
        PROVE  NoHeavierValidBranch'
    <2>1. TreeShape
      BY <1>2, ShapesOfInvariant
    <2>2. tipWork \in Nat /\ tipWork' \in Nat /\ tipWork' >= tipWork
      BY <1>2, MovesSoundly
    <2>3. ASSUME NEW h \in stored, ReplayOf[h].ok  PROVE  work[h] <= tipWork'
      <3>1. work[h] <= tipWork /\ work[h] \in Nat
        BY <1>2, <2>1, <2>3 DEF NoHeavierValidBranch, TreeShape
      <3> QED  BY <3>1, <2>2
    <2>4. CASE UNCHANGED tree
      BY <2>3, <2>4 DEF tree, NoHeavierValidBranch
    <2>5. CASE CanAdd(b) /\ AddBlock(b)
      <3>1. /\ stored' = stored \cup {b} /\ \A h \in stored : work'[h] = work[h]
            /\ work'[b] = WorkOver(b) /\ WorkOver(b) \in Nat
        BY <2>1, <2>5, TreeGrows
      <3>2. ReplayOf[b].ok => WorkOver(b) <= tipWork'
        <4>1. CASE MovesTo(b)
          BY <4>1, <2>2, <3>1 DEF MovesTo
        <4>2. CASE StaysPut /\ Declines(b)
          BY <4>2, <2>2, <2>5, <3>1, WithinReorg DEF StaysPut, Declines
        <4> QED  BY <4>1, <4>2, <1>2 DEF Effect
      <3>3. ASSUME NEW h \in stored', ReplayOf[h].ok  PROVE  work'[h] <= tipWork'
        <4>1. h \in stored \/ h = b
          BY <3>1
        <4> QED  BY <4>1, <2>3, <3>1, <3>2, <3>3
      <3> QED  BY <3>3 DEF NoHeavierValidBranch
    <2> QED  BY <2>4, <2>5, <1>2 DEF Effect
  <1>3. IInv /\ NoHeavierValidBranch /\ [Next]_vars => NoHeavierValidBranch'
    <2> SUFFICES ASSUME IInv, NoHeavierValidBranch, [Next]_vars  PROVE  NoHeavierValidBranch'
      OBVIOUS
    <2>1. ASSUME NEW b \in Block, ReceiveBlock(b) \/ MineBlock(b)  PROVE  NoHeavierValidBranch'
      BY <2>1, <1>2, StepEffect
    <2>2. CASE UNCHANGED vars
      BY <2>2 DEF vars, NoHeavierValidBranch
    <2> QED  BY <2>1, <2>2 DEF Next
  <1> QED  BY <1>1, <1>3, InductiveInvariant, PTL DEF Spec

-----------------------------------------------------------------------------
(* What a reorganisation gives back.                                       *)

SpendsIn(h) == {TxsOf[h][n] : n \in 2..Len(TxsOf[h])}

LEMMA SpendsOfSet ==
  ASSUME NEW S, NEW hs \in Seq(S)
  PROVE  SpendsOf(hs) = UNION {SpendsIn(h) : h \in ToSet(hs)}
  <1>1. DOMAIN hs = 1..Len(hs)
    BY LenProperties
  <1> QED  BY <1>1 DEF SpendsOf, SpendsIn, ToSet

\* SetToSeq lists a finite set.
LEMMA SetToSeqLists ==
  ASSUME NEW S, IsFiniteSet(S)
  PROVE  SetToSeq(S) \in Seq(S) /\ ToSet(SetToSeq(S)) = S
  <1> DEFINE n == Cardinality(S)
             s == SetToSeq(S)
  <1>1. n \in Nat /\ ExistsBijection(1..n, S)
    BY FS_CardinalityType
  <1>2. \E f \in [1..n -> S] : IsInjective(f)
    BY <1>1 DEF ExistsBijection, Bijection, Injection
  <1>3. s \in [1..n -> S] /\ IsInjective(s)
    BY <1>2 DEF SetToSeq
  <1>4. s \in Surjection(1..n, S)
    <2>1. IsFiniteSet(1..n) /\ Cardinality(1..n) = n
      BY <1>1, FS_Interval
    <2>2. s \in Injection(1..n, S)
      BY <1>3 DEF Injection
    <2> HIDE DEF s
    <2> QED  BY <2>1, <2>2, FS_Injection
  <1> QED  BY <1>1, <1>3, <1>4 DEF Surjection, ToSet

LEMMA ReorgResurrects ==
  ASSUME IInv, NEW b \in Block, ReorgToNew(b), tip' # tip
  PROVE  ResurrectStep
  <1> DEFINE f == ForkPoint(b)
             old == OldBranch(b)
             up == NewBranch(b)
             new == ApplyBlocks(UnwindBlocks(ledger, old), up)
             Taken == /\ Len(old) <= MaxReorg /\ Len(up) <= MaxReorg
                      /\ ToSet(old) \cup ToSet(up) \subseteq cached \cup {b}
                      /\ new.ok
  <1>1. Connects(b) /\ f # Zero /\ ExecuteReorg(b, old, up)
    BY DEF ReorgToNew, OldBranch, NewBranch
  <1>2. IF Taken
        THEN /\ ledger' = new.ledger /\ diffs' = new.diffs /\ SetChainTip(b)
             /\ resurrected' = Resurrected(old, up, new.ledger)
        ELSE UNCHANGED chain
    BY <1>1 DEF ExecuteReorg
  <1>3. TreeShape /\ ChainShape
    BY ShapesOfInvariant
  <1>4. /\ b \in Hash /\ tip \in Hash /\ tip \in stored /\ b \notin stored
    BY <1>1, <1>3 DEF TreeShape, ChainShape, Hash, Connects, CanAdd
  <1>5. Branches(b)
    BY <1>1, BranchesOf
  <1> HIDE DEF f
  <1>6. /\ PathFrom[f] = PathFrom[Parent[b]] \cap PathFrom[tip]
        /\ Descent(old, tip, f) /\ Ascent(up, f, b) /\ ReplaysTo(new, up, b)
    BY <1>1, <1>5 DEF Branches, f
  <1>7. Taken /\ tip' = b
    BY <1>2 DEF chain, SetChainTip
  <1>8. ReplayOf[b].ok /\ ledger' = ReplayOf[b].ledger
        /\ resurrected' = Resurrected(old, up, ledger')
    BY <1>2, <1>6, <1>7 DEF ReplaysTo
  <1> HIDE DEF old, up, new, Taken
  <1>9. \A t \in ChainTxs(b) : SpentImages(t) \subseteq ledger'.images
    BY <1>4, <1>8, ReplaySound DEF ReplayedOn, Grounded, Rooted
  <1>10. Dropped = SpendsOf(old)
    <2>1. Canonical \ Canonical' = ToSet(old)
      <3>1. PathFrom[b] = {b} \cup PathFrom[Parent[b]]
        BY <1>4, PathEquation
      <3>2. b \notin PathFrom[tip]
        BY <1>3, <1>4, StoredPath
      <3> QED  BY <3>1, <3>2, <1>6, <1>7 DEF Canonical, Descent
    <2>2. IsFiniteSet(ToSet(old))
      <3>1. IsFiniteSet(PathFrom[tip] \ PathFrom[f])
        BY <1>4, PathFinite, FS_Difference
      <3>2. ToSet(old) = PathFrom[tip] \ PathFrom[f]
        BY <1>6 DEF Descent
      <3> QED  BY <3>1, <3>2
    <2> DEFINE s == SetToSeq(ToSet(old))
    <2>3. s \in Seq(ToSet(old)) /\ ToSet(s) = ToSet(old)
      BY <2>2, SetToSeqLists
    <2> HIDE DEF s
    <2>4. SpendsOf(s) = SpendsOf(old)
      <3>1. old \in Seq(Block)
        BY <1>6 DEF Descent
      <3> QED  BY <2>3, <3>1, SpendsOfSet
    <2> QED  BY <2>1, <2>4 DEF Dropped, s
  <1>11. Confirmed \subseteq ChainTxs(b)
    <2> DEFINE S == PathFrom[b] \ {Genesis}
               s == SetToSeq(S)
    <2>1. Confirmed = SpendsOf(s)
      BY <1>7 DEF Confirmed, Canonical
    <2>2. IsFiniteSet(S)
      BY <1>4, PathFinite, FS_Difference
    <2> HIDE DEF S
    <2>3. s \in Seq(S) /\ ToSet(s) = S
      BY <2>2, SetToSeqLists
    <2> HIDE DEF s
    <2>4. SpendsOf(s) = UNION {SpendsIn(h) : h \in S}
      BY <2>3, SpendsOfSet
    <2>5. ASSUME NEW h \in S  PROVE  SpendsIn(h) \subseteq ChainTxs(b)
      <3>1. BodyOf(h) \subseteq ChainTxs(b) /\ h \in Block
        BY <1>4, ChainTxsFacts, PathFacts DEF S, Hash
      <3>2. \A n \in 2..Len(TxsOf[h]) : n \in 1..Len(TxsOf[h])
        BY <3>1, BlockAssumption
      <3> QED  BY <3>1, <3>2 DEF SpendsIn, BodyOf, FirstOf
    <2> QED  BY <2>1, <2>4, <2>5
  <1>12. BodiesOf(up) \subseteq ChainTxs(b)
    <2> SUFFICES ASSUME NEW i \in 1..Len(up), NEW n \in 1..Len(TxsOf[up[i]])
                 PROVE  TxsOf[up[i]][n] \in ChainTxs(b)
      BY DEF BodiesOf
    <2>1. up \in Seq(Block) /\ ToSet(up) \subseteq PathFrom[b]
      BY <1>6 DEF Ascent
    <2>2. up[i] \in Block /\ up[i] \in ToSet(up)
      BY <2>1, ElementOfSeq, LenProperties DEF ToSet
    <2>3. BodyOf(up[i]) \subseteq ChainTxs(b)
      BY <2>1, <2>2, <1>4, ChainTxsFacts, TreeAssumption
    <2> QED  BY <2>3 DEF BodyOf, FirstOf
  <1>13. resurrected' =
           {t \in Dropped \ BodiesOf(up) : ~(SpentImages(t) \subseteq ledger'.images)}
    BY <1>8, <1>10 DEF Resurrected
  <1>14. {t \in Dropped : SpentImages(t) # {} /\ SpentImages(t) \cap ledger'.images = {}}
           \subseteq resurrected'
    BY <1>9, <1>12, <1>13
  <1>15. resurrected' \subseteq Dropped \ Confirmed
    BY <1>9, <1>11, <1>13
  <1> QED  BY <1>14, <1>15 DEF ResurrectStep

\* A reorganisation gives back every spend of the old branch that the new one
\* leaves possible, and none that the new chain contains.
THEOREM DroppedSpendsComeBack == Spec => ResurrectsDropped
  <1>1. ASSUME IInv, NEW b \in Block, ReceiveBlock(b) \/ MineBlock(b)  PROVE  ResurrectStep
    <2>1. CASE ReorgToNew(b) /\ tip' # tip
      BY <1>1, <2>1, ReorgResurrects
    <2>2. CASE ~ReorgToNew(b) \/ tip' = tip
      <3>1. tip' = tip \/ Parent[tip'] = tip
        BY <1>1, <2>2 DEF ReceiveBlock, QueueOrphan, RejectGenesis, ExtendCanonical,
                          Sidechain, MineBlock, Mine, SetChainTip, chain
      <3> QED  BY <3>1 DEF ResurrectStep
    <2> QED  BY <2>1, <2>2
  <1>2. IInv /\ [Next]_vars => [ResurrectStep]_vars
    BY <1>1 DEF Next
  <1> QED  BY <1>2, InductiveInvariant, PTL DEF Spec, ResurrectsDropped

-----------------------------------------------------------------------------
(***************************************************************************)
(* A ledger that falls short                                               *)
(***************************************************************************)

-----------------------------------------------------------------------------
(* Blocks.                                                                 *)

\* A transaction that passes on a ledger passes on one that it falls short of.
LEMMA AcceptsShort ==
  ASSUME NEW L \in UtxoSet, NEW M \in UtxoSet,
         NEW X, NEW K, Short(L, M, X, K),
         NEW b \in Block, NEW n \in 1..Len(TxsOf[b]), Accepts(L, b, n)
  PROVE  Accepts(M, b, n)
  <1> DEFINE t == TxsOf[b][n]
  <1>1. t \in Tx
    BY BlockAssumption
  <1>2. M.images \subseteq L.images /\ \A k \in Key : Exists(L, k) => Exists(M, k)
    BY DEF Short, Exists
  <1>3. CASE n = 1
    BY <1>3 DEF Accepts
  <1>4. CASE n # 1
    <2>1. ValidateTransaction(L, t) /\ SpendChecks(L, t, Height[b])
      BY <1>4 DEF Accepts
    <2>2. Ring[t] \subseteq Key /\ \A i \in ToSet(Inputs[t]) : i.key \in Key
      BY <1>1, TransactionAssumption, InputTypes DEF SpentKeys
    <2> HIDE DEF t
    <2>3. ValidateTransaction(M, t)
      BY <2>1, <2>2, <1>2 DEF ValidateTransaction
    <2>4. SpendChecks(M, t, Height[b])
      BY <2>1, <2>2, <1>2 DEF SpendChecks
    <2> QED  BY <1>4, <2>3, <2>4 DEF Accepts, t
  <1> QED  BY <1>3, <1>4

\* It leaves the one short of the other by no more, and is recorded alike.
LEMMA StepShort ==
  ASSUME NEW L \in UtxoSet, NEW M \in UtxoSet,
         NEW X, NEW K, Short(L, M, X, K), NEW D \in BlockDiff,
         NEW b \in Block, NEW n \in 1..Len(TxsOf[b]), Accepts(L, b, n)
  PROVE  /\ Short(LedgerAfterTx(L, b, n), LedgerAfterTx(M, b, n), X, K)
         /\ DiffAfterTx(D, L, b, n) = DiffAfterTx(D, M, b, n)
  <1> DEFINE t == TxsOf[b][n]
             U == LedgerAfterTx(L, b, n)
             V == LedgerAfterTx(M, b, n)
  <1>1. /\ L.images = M.images \cup X /\ X \cap M.images = {} /\ L.supply = M.supply
        /\ \A k \in Key : L.utxos[k] = M.utxos[k] \/ (L.utxos[k] = NoEntry /\ k \in K)
    BY DEF Short
  <1>2. CASE n = 1
    <2>1. /\ \A k \in Key : U.utxos[k] = IF k \in KeysOf(t) THEN Height[b] ELSE L.utxos[k]
          /\ U.images = L.images /\ U.supply = L.supply + CoinbaseAmount(t)
      BY <1>2, LedgerAfterCoinbase
    <2>2. /\ \A k \in Key : V.utxos[k] = IF k \in KeysOf(t) THEN Height[b] ELSE M.utxos[k]
          /\ V.images = M.images /\ V.supply = M.supply + CoinbaseAmount(t)
      BY <1>2, LedgerAfterCoinbase
    <2> HIDE DEF t, U, V
    <2>3. Short(U, V, X, K)
      BY <1>1, <2>1, <2>2 DEF Short
    <2> QED  BY <1>2, <2>3 DEF U, V, DiffAfterTx
  <1>3. CASE n # 1
    <2>1. /\ \A k \in Key : U.utxos[k] = IF k \in KeysOf(t) THEN Height[b]
                                         ELSE IF k \in SpentKeys(t) THEN NoEntry
                                         ELSE L.utxos[k]
          /\ U.images = L.images \cup SpentImages(t)
          /\ U.supply = L.supply
      BY <1>3, LedgerAfterSpend
    <2>2. /\ \A k \in Key : V.utxos[k] = IF k \in KeysOf(t) THEN Height[b]
                                         ELSE IF k \in SpentKeys(t) THEN NoEntry
                                         ELSE M.utxos[k]
          /\ V.images = M.images \cup SpentImages(t)
          /\ V.supply = M.supply
      BY <1>3, LedgerAfterSpend
    <2>3. (\A k \in SpentKeys(t) : L.utxos[k] # NoEntry) /\ SpentImages(t) \cap L.images = {}
      BY <1>3, AcceptedSpend DEF Exists
    <2>4. SpentKeys(t) \subseteq Key
      BY BlockAssumption, InputTypes
    <2>5. DiffAfterTx(D, L, b, n) = RecordOutputs(RecordInputs(D, L, t), t)
          /\ DiffAfterTx(D, M, b, n) = RecordOutputs(RecordInputs(D, M, t), t)
      BY <1>3 DEF DiffAfterTx
    <2> HIDE DEF t, U, V
    <2>6. Short(U, V, X, K)
      <3>1. \A k \in Key : U.utxos[k] = V.utxos[k] \/ (U.utxos[k] = NoEntry /\ k \in K)
        BY <1>1, <2>1, <2>2
      <3>2. U.images = V.images \cup X /\ X \cap V.images = {}
        BY <1>1, <2>1, <2>2, <2>3
      <3> QED  BY <3>1, <3>2, <1>1, <2>1, <2>2 DEF Short
    <2>7. \A k \in SpentKeys(t) : L.utxos[k] = M.utxos[k]
      BY <1>1, <2>3, <2>4
    <2>8. [k \in Key |-> IF k \in SpentKeys(t) THEN L.utxos[k] ELSE D.consumed[k]]
            = [k \in Key |-> IF k \in SpentKeys(t) THEN M.utxos[k] ELSE D.consumed[k]]
      BY <2>7
    <2>9. RecordInputs(D, L, t) = RecordInputs(D, M, t)
      BY <2>8 DEF RecordInputs
    <2> QED  BY <2>5, <2>6, <2>9 DEF U, V
  <1> QED  BY <1>2, <1>3

\* A block that applies to a ledger applies to one that it falls short of, alike.
AppliesShort(r, q, X, K) ==
  r.ok => q.ok /\ Short(r.ledger, q.ledger, X, K) /\ r.diff = q.diff

LEMMA ApplyShort ==
  ASSUME NEW L \in UtxoSet, NEW M \in UtxoSet,
         NEW X, NEW K, Short(L, M, X, K), NEW b \in Block
  PROVE  AppliesShort(ApplyBlock(L, b), ApplyBlock(M, b), X, K)
  <1> DEFINE N == Len(TxsOf[b])
  <1>1. N \in Nat
    BY BlockAssumption
  <1>2. PICK P \in [0..N -> Outcome] :
           /\ P[0] = [ok |-> TRUE, ledger |-> L, diff |-> EmptyDiff]
           /\ \A k \in 0..(N - 1) : P[k + 1] = ApplyNext(P[k], b, k + 1)
           /\ LET r == P[N]
              IN  ApplyBlock(L, b) =
                    IF r.ok THEN r
                    ELSE [r EXCEPT !.ledger = UnwindWithDiff(r.ledger, r.diff)]
    BY ApplyByPrefix
  <1>3. PICK Q \in [0..N -> Outcome] :
           /\ Q[0] = [ok |-> TRUE, ledger |-> M, diff |-> EmptyDiff]
           /\ \A k \in 0..(N - 1) : Q[k + 1] = ApplyNext(Q[k], b, k + 1)
           /\ LET r == Q[N]
              IN  ApplyBlock(M, b) =
                    IF r.ok THEN r
                    ELSE [r EXCEPT !.ledger = UnwindWithDiff(r.ledger, r.diff)]
    BY ApplyByPrefix
  <1> DEFINE T == {k \in 0..N : AppliesShort(P[k], Q[k], X, K)}
  <1>4. 0 \in T
    BY <1>1, <1>2, <1>3 DEF AppliesShort
  <1>5. ASSUME NEW k \in 0..(N - 1), k \in T  PROVE  k + 1 \in T
    <2> DEFINE r == P[k]
               q == Q[k]
               n == k + 1
    <2>1. k \in 0..N /\ n \in 0..N /\ n \in 1..N /\ r \in Outcome /\ q \in Outcome
      BY <1>1, <1>2, <1>3
    <2>2. P[n] = ApplyNext(r, b, n) /\ Q[n] = ApplyNext(q, b, n)
      BY <1>2, <1>3
    <2>3. AppliesShort(r, q, X, K)
      BY <1>5
    <2>4. CASE ~(r.ok /\ Accepts(r.ledger, b, n))
      <3> HIDE DEF r, q, n
      <3>1. ~P[n].ok
        BY <2>1, <2>2, <2>4 DEF ApplyNext, Outcome
      <3> QED  BY <2>1, <3>1 DEF AppliesShort, n
    <2>5. CASE r.ok /\ Accepts(r.ledger, b, n)
      <3> HIDE DEF r, q, n
      <3>1. r.ledger \in UtxoSet /\ q.ledger \in UtxoSet /\ r.diff \in BlockDiff
        BY <2>1 DEF Outcome
      <3>2. q.ok /\ Short(r.ledger, q.ledger, X, K) /\ r.diff = q.diff
        BY <2>3, <2>5 DEF AppliesShort
      <3>3. Accepts(q.ledger, b, n)
        BY <2>1, <2>5, <3>1, <3>2, AcceptsShort
      <3>4. Short(LedgerAfterTx(r.ledger, b, n), LedgerAfterTx(q.ledger, b, n), X, K)
            /\ DiffAfterTx(r.diff, r.ledger, b, n) = DiffAfterTx(r.diff, q.ledger, b, n)
        BY <2>1, <2>5, <3>1, <3>2, StepShort
      <3>5. AppliesShort(P[n], Q[n], X, K)
        BY <2>2, <2>5, <3>2, <3>3, <3>4 DEF ApplyNext, AppliesShort
      <3> QED  BY <2>1, <3>5 DEF n
    <2> QED  BY <2>4, <2>5
  <1> HIDE DEF T
  <1>6. \A k \in 0..N : k \in T
    BY <1>1, <1>4, <1>5, BoundedInduction
  <1> DEFINE r == P[N]
             q == Q[N]
  <1>7. r \in Outcome /\ q \in Outcome /\ AppliesShort(r, q, X, K)
    BY <1>1, <1>6 DEF T
  <1>8. /\ ApplyBlock(L, b) = IF r.ok THEN r
                              ELSE [r EXCEPT !.ledger = UnwindWithDiff(r.ledger, r.diff)]
        /\ ApplyBlock(M, b) = IF q.ok THEN q
                              ELSE [q EXCEPT !.ledger = UnwindWithDiff(q.ledger, q.diff)]
    BY <1>2, <1>3
  <1> HIDE DEF r, q
  <1>9. CASE r.ok
    <2>1. ApplyBlock(L, b) = r /\ ApplyBlock(M, b) = q
      BY <1>7, <1>8, <1>9 DEF AppliesShort
    <2> QED  BY <1>7, <2>1
  <1>10. CASE ~r.ok
    <2>1. ~ApplyBlock(L, b).ok
      BY <1>7, <1>8, <1>10 DEF Outcome
    <2> QED  BY <2>1 DEF AppliesShort
  <1> QED  BY <1>9, <1>10

-----------------------------------------------------------------------------
(* Taking blocks back.                                                     *)

\* What D records but the entries that were consumed is what the legacy unwind
\* rebuilds for the block b.
RecordsLike(D, b) ==
  LET F == FallbackDiff(b)
  IN  D.created = F.created /\ D.images = F.images /\ D.supply = F.supply

LEMMA FallbackRecords ==
  ASSUME NEW L \in UtxoSet, NEW b \in Block, ApplyBlock(L, b).ok
  PROVE  RecordsLike(ApplyBlock(L, b).diff, b)
  <1> DEFINE N == Len(TxsOf[b])
             t(n) == TxsOf[b][n]
             Made(k) == UNION {KeysOf(t(n)) : n \in 1..k}
             Spent(k) == UNION {SpentImages(t(n)) : n \in 2..k}
             Minted(k) == IF k = 0 THEN 0 ELSE CoinbaseAmount(t(1))
             Records(D, k) == D.created = Made(k) /\ D.images = Spent(k) /\ D.supply = Minted(k)
  <1>1. N \in Nat /\ (N = 0 <=> TxsOf[b] = <<>>)
    BY BlockAssumption, EmptySeq, LenProperties
  <1>2. PICK P \in [0..N -> Outcome] :
           /\ P[0] = [ok |-> TRUE, ledger |-> L, diff |-> EmptyDiff]
           /\ \A k \in 0..(N - 1) : P[k + 1] = ApplyNext(P[k], b, k + 1)
           /\ LET r == P[N]
              IN  ApplyBlock(L, b) =
                    IF r.ok THEN r
                    ELSE [r EXCEPT !.ledger = UnwindWithDiff(r.ledger, r.diff)]
    BY ApplyByPrefix
  <1> DEFINE T == {k \in 0..N : P[k].ok => Records(P[k].diff, k)}
  <1>3. 0 \in T
    <2>1. P[0].diff = EmptyDiff /\ Made(0) = {} /\ Spent(0) = {} /\ Minted(0) = 0
      BY <1>2
    <2> QED  BY <1>1, <2>1 DEF EmptyDiff
  <1>4. ASSUME NEW k \in 0..(N - 1), k \in T  PROVE  k + 1 \in T
    <2> DEFINE r == P[k]
               n == k + 1
    <2>1. k \in Nat /\ k \in 0..N /\ n \in 0..N /\ n \in 1..N /\ r \in Outcome
      BY <1>1, <1>2
    <2>2. P[n] = ApplyNext(r, b, n)
      BY <1>2
    <2>3. r.ok => Records(r.diff, k)
      BY <1>4
    <2> SUFFICES ASSUME P[n].ok  PROVE  Records(P[n].diff, n)
      BY <2>1
    <2> HIDE DEF r, Records
    <2>4. r.ok /\ P[n].diff = DiffAfterTx(r.diff, r.ledger, b, n)
      BY <2>1, <2>2 DEF ApplyNext, Outcome
    <2>5. r.diff \in BlockDiff /\ r.ledger \in UtxoSet
      BY <2>1 DEF Outcome
    <2>6. Made(n) = Made(k) \cup KeysOf(t(n))
      <3>1. 1..n = (1..k) \cup {n}
        BY <2>1
      <3> QED  BY <3>1
    <2>7. CASE k = 0
      <3>1. n = 1 /\ Spent(k) = {} /\ Spent(n) = {} /\ Minted(k) = 0 /\ Minted(n) = CoinbaseAmount(t(1))
        BY <2>7
      <3>2. /\ P[n].diff.created = r.diff.created \cup KeysOf(t(1))
            /\ P[n].diff.images = r.diff.images
            /\ P[n].diff.supply = r.diff.supply + CoinbaseAmount(t(1))
        BY <2>4, <2>5, <3>1, DiffAfterCoinbase
      <3>3. CoinbaseAmount(t(1)) \in Nat
        BY <2>1, <3>1, BlockAssumption, SumsNatural
      <3> HIDE DEF n, Made, Spent, Minted, t
      <3>4. 0 + CoinbaseAmount(t(1)) = CoinbaseAmount(t(1))
        BY <3>3
      <3> QED  BY <2>3, <2>4, <2>6, <3>1, <3>2, <3>4 DEF Records
    <2>8. CASE k # 0
      <3>1. n \in Nat /\ n > 1 /\ n # 0
        BY <2>1, <2>8
      <3>2. Spent(n) = Spent(k) \cup SpentImages(t(n)) /\ Minted(n) = Minted(k)
        <4>1. 2..n = (2..k) \cup {n}
          BY <2>1, <2>8
        <4> QED  BY <4>1, <2>8, <3>1
      <3>3. /\ P[n].diff.created = r.diff.created \cup KeysOf(t(n))
            /\ P[n].diff.images = r.diff.images \cup SpentImages(t(n))
            /\ P[n].diff.supply = r.diff.supply
        BY <2>4, <2>5, <3>1, DiffAfterSpend
      <3> HIDE DEF n, Made, Spent, Minted, t
      <3> QED  BY <2>3, <2>4, <2>6, <3>2, <3>3 DEF Records
    <2> QED  BY <2>7, <2>8
  <1> HIDE DEF T
  <1>5. \A k \in 0..N : k \in T
    BY <1>1, <1>3, <1>4, BoundedInduction
  <1>6. P[N] \in Outcome /\ N \in 0..N
    BY <1>1
  <1>7. P[N].ok /\ ApplyBlock(L, b) = P[N]
    BY <1>2, <1>6 DEF Outcome
  <1>8. Records(ApplyBlock(L, b).diff, N)
    BY <1>5, <1>6, <1>7 DEF T
  <1> QED  BY <1>1, <1>8 DEF RecordsLike, FallbackDiff

\* With the diff of the replay, or without one if any output may be lost, taking a block
\* back from a ledger short of its replay gives one as short of its parent's.
LEMMA UnwindShort ==
  ASSUME diffs \in DiffMap, NEW g \in Block, ReplayOf[g].ok,
         diffs[g] \in {NoDiff, ReplayOf[g].diff},
         NEW X, NEW K, diffs[g] # NoDiff \/ K = Key,
         NEW L \in UtxoSet, Short(L, ReplayOf[g].ledger, X, K)
  PROVE  /\ UnwindWithDiff(L, UndoOf(g)) \in UtxoSet
         /\ Short(UnwindWithDiff(L, UndoOf(g)), ReplayOf[Parent[g]].ledger, X, K)
  <1> DEFINE M == ReplayOf[g].ledger
             S == ReplayOf[Parent[g]].ledger
             D == ReplayOf[g].diff
             F == UndoOf(g)
             V == UnwindWithDiff(L, F)
  <1>1. /\ g \in Hash /\ g # Genesis /\ Parent[g] \in Hash
        /\ ReplayOf[Parent[g]].ok /\ ReplayOf[g] = ApplyBlock(S, g) /\ Undoes(D, M, S)
    BY ReplaySound, TreeAssumption DEF ReplayedOn, Hash
  <1>2. M \in UtxoSet /\ S \in UtxoSet /\ D \in BlockDiff
    BY <1>1, ReplayEquation DEF Outcome
  <1>3. F \in BlockDiff
    BY UndoType
  <1>4. RecordsLike(D, g)
    BY <1>1, <1>2, FallbackRecords
  <1>5. /\ F.created = D.created /\ F.images = D.images /\ F.supply = D.supply
        /\ \A k \in Key : \/ F.consumed[k] = D.consumed[k]
                          \/ F.consumed[k] = NoEntry /\ k \in K
    <2>1. CASE diffs[g] = NoDiff
      <3>1. F = FallbackDiff(g)
        BY <2>1 DEF UndoOf
      <3>2. \A k \in Key : FallbackDiff(g).consumed[k] = NoEntry
        BY DEF FallbackDiff
      <3> HIDE DEF F
      <3>3. K = Key
        BY <2>1
      <3> QED  BY <3>1, <3>2, <3>3, <1>4 DEF RecordsLike
    <2>2. CASE diffs[g] # NoDiff
      BY <2>2 DEF UndoOf
    <2> QED  BY <2>1, <2>2
  <1> HIDE DEF F
  <1>6. V \in UtxoSet
    BY <1>3, UnwindType
  <1>7. /\ \A k \in Key : V.utxos[k] = IF k \in F.created THEN NoEntry
                                        ELSE IF F.consumed[k] # NoEntry THEN F.consumed[k]
                                        ELSE L.utxos[k]
        /\ V.images = L.images \ F.images
        /\ V.supply = IF F.supply <= L.supply THEN L.supply - F.supply ELSE 0
    BY <1>3, <1>6, UnwindFields
  <1>12. D.images \subseteq M.images
    <2>1. Grounded(M, ChainTxs(g)) /\ BodyOf(g) \subseteq ChainTxs(g)
      <3>1. Grounded(M, ChainTxs(g))
        BY <1>1, ReplaySound DEF ReplayedOn
      <3>2. ChainTxs(g) = ChainTxs(Parent[g]) \cup BodyOf(g)
        BY <1>1, ChainTxsFacts, TreeAssumption
      <3> QED  BY <3>1, <3>2
    <2>2. D.images = UNION {SpentImages(TxsOf[g][n]) : n \in 2..Len(TxsOf[g])}
      BY <1>4 DEF RecordsLike, FallbackDiff
    <2> HIDE DEF D, M
    <2>3. \A n \in 2..Len(TxsOf[g]) : TxsOf[g][n] \in BodyOf(g)
      BY BlockAssumption DEF BodyOf, FirstOf
    <2> QED  BY <2>1, <2>2, <2>3 DEF Grounded, Rooted
  <1> HIDE DEF V, M, S, D
  <1>8. /\ \A k \in Key : S.utxos[k] = IF k \in D.created THEN NoEntry
                                        ELSE IF D.consumed[k] # NoEntry THEN D.consumed[k]
                                        ELSE M.utxos[k]
        /\ S.images = M.images \ D.images
        /\ S.supply = IF D.supply <= M.supply THEN M.supply - D.supply ELSE 0
    BY <1>1, <1>2, UnwindFields DEF Undoes
  <1>9. \A k \in Key : D.consumed[k] # NoEntry /\ k \notin D.created => M.utxos[k] = NoEntry
    BY <1>1 DEF Undoes, Exists
  <1>10. /\ \A k \in Key : L.utxos[k] = M.utxos[k] \/ (L.utxos[k] = NoEntry /\ k \in K)
         /\ L.images = M.images \cup X /\ X \cap M.images = {} /\ L.supply = M.supply
    BY DEF Short, M
  <1>11. \A k \in Key : V.utxos[k] = S.utxos[k] \/ (V.utxos[k] = NoEntry /\ k \in K)
    BY <1>5, <1>7, <1>8, <1>9, <1>10
  <1>13. V.images = S.images \cup X /\ X \cap S.images = {} /\ V.supply = S.supply
    BY <1>5, <1>7, <1>8, <1>10, <1>12
  <1> QED  BY <1>6, <1>11, <1>13 DEF Short, V, S, F

-----------------------------------------------------------------------------
(* A reorganisation.                                                       *)

\* Taking back a branch from a ledger short of the replay of its end.
LEMMA UnwindsShort ==
  ASSUME diffs \in DiffMap, DiffsReplayed(diffs), NEW h \in Hash, ReplayOf[h].ok,
         NEW f, NEW hs, Descent(hs, h, f),
         NEW X, NEW K, Undoable(diffs, h, K), NEW L \in UtxoSet, Short(L, ReplayOf[h].ledger, X, K)
  PROVE  /\ UnwindBlocks(L, hs) \in UtxoSet
         /\ Short(UnwindBlocks(L, hs), ReplayOf[f].ledger, X, K)
         /\ ReplayOf[f].ok /\ Undoable(diffs, f, K)
  <1> DEFINE N == Len(hs)
  <1>1. PICK node : Descends(hs, node, h, f)
    BY DEF Descent
  <1>2. hs \in Seq(Block) /\ N \in Nat /\ DOMAIN hs = 1..N
    BY LenProperties DEF Descent
  <1>3. PICK P : UnwindsBy(P, L, hs)
    BY <1>2, UnwindByPrefix
  <1>4. /\ node \in [0..N -> Hash] /\ node[0] = h /\ node[N] = f
        /\ \A k \in 0..(N - 1) : hs[k + 1] = node[k] /\ node[k + 1] = Parent[node[k]]
    BY <1>1 DEF Descends
  <1>5. /\ P[0] = L /\ UnwindBlocks(L, hs) = P[N]
        /\ \A k \in 0..(N - 1) : P[k + 1] = UnwindWithDiff(P[k], UndoOf(hs[k + 1]))
    BY <1>3 DEF UnwindsBy
  <1> DEFINE T == {k \in 0..N : /\ P[k] \in UtxoSet
                                /\ Short(P[k], ReplayOf[node[k]].ledger, X, K)
                                /\ ReplayOf[node[k]].ok
                                /\ Undoable(diffs, node[k], K)}
  <1> HIDE DEF N
  <1>6. 0 \in T
    BY <1>2, <1>4, <1>5
  <1>7. ASSUME NEW k \in 0..(N - 1), k \in T  PROVE  k + 1 \in T
    <2> DEFINE g == node[k]
    <2>1. k \in 0..N /\ k + 1 \in 0..N /\ k + 1 \in DOMAIN hs
      BY <1>2
    <2>2. g \in Hash /\ hs[k + 1] = g /\ node[k + 1] = Parent[g]
      BY <2>1, <1>4
    <2>3. /\ P[k] \in UtxoSet /\ Short(P[k], ReplayOf[g].ledger, X, K)
          /\ ReplayOf[g].ok /\ Undoable(diffs, g, K)
      BY <1>7
    <2> HIDE DEF g
    <2>4. g \in Block /\ g # Genesis
      BY <2>1, <2>2, <1>2, TreeAssumption, ElementOfSeq
    <2>5. ReplayOf[Parent[g]].ok
      BY <2>2, <2>3, <2>4, ReplaySound DEF ReplayedOn
    <2>6. diffs[g] \in {NoDiff, ReplayOf[g].diff}
      BY <2>2 DEF DiffsReplayed
    <2>9. (diffs[g] # NoDiff \/ K = Key) /\ Undoable(diffs, Parent[g], K)
      <3>1. PathFrom[g] = {g} \cup PathFrom[Parent[g]]
        BY <2>2, PathEquation
      <3> QED  BY <2>3, <2>4, <3>1 DEF Undoable
    <2>7. P[k + 1] = UnwindWithDiff(P[k], UndoOf(g))
      BY <1>5, <2>2
    <2>8. P[k + 1] \in UtxoSet /\ Short(P[k + 1], ReplayOf[Parent[g]].ledger, X, K)
      BY <2>3, <2>4, <2>6, <2>7, <2>9, UnwindShort
    <2> QED  BY <2>1, <2>2, <2>5, <2>8, <2>9
  <1> HIDE DEF T
  <1>8. \A k \in 0..N : k \in T
    BY <1>2, <1>6, <1>7, BoundedInduction
  <1>9. N \in T
    BY <1>2, <1>8
  <1> QED  BY <1>4, <1>5, <1>9 DEF T

\* What phase 2 must return for the branch up to b on such a ledger: if it succeeds, so
\* does the chain of b from the root, and the ledger falls short of its replay by no more.
ReplaysShort(new, b, X, K) ==
  /\ new \in Progress
  /\ DiffsReplayed(new.diffs)
  /\ new.ok => /\ ReplayOf[b].ok /\ Short(new.ledger, ReplayOf[b].ledger, X, K)
               /\ Undoable(new.diffs, b, K)

LEMMA AppliesBranchShort ==
  ASSUME diffs \in DiffMap, DiffsReplayed(diffs), NEW f \in Hash, ReplayOf[f].ok, NEW b,
         NEW hs, Ascent(hs, f, b),
         NEW X, NEW K, Undoable(diffs, f, K),
         NEW L \in UtxoSet, Short(L, ReplayOf[f].ledger, X, K)
  PROVE  ReplaysShort(ApplyBlocks(L, hs), b, X, K)
  <1> DEFINE N == Len(hs)
  <1>1. PICK node : Ascends(hs, node, f, b)
    BY DEF Ascent
  <1>2. hs \in Seq(Block) /\ N \in Nat /\ DOMAIN hs = 1..N
    BY LenProperties DEF Ascent
  <1>3. PICK P : AppliesBy(P, L, hs)
    BY <1>2, ApplyByPrefixOfBranch
  <1>4. /\ node \in [0..N -> Hash] /\ node[0] = f /\ node[N] = b
        /\ \A k \in 0..(N - 1) : hs[k + 1] = node[k + 1] /\ Parent[node[k + 1]] = node[k]
    BY <1>1 DEF Ascends
  <1>5. /\ P \in [0..N -> Progress]
        /\ P[0] = [ok |-> TRUE, ledger |-> L, diffs |-> diffs]
        /\ \A k \in 0..(N - 1) : P[k + 1] = ApplyStep(P[k], hs[k + 1])
        /\ ApplyBlocks(L, hs) = P[N]
    BY <1>3 DEF AppliesBy
  <1> DEFINE T == {k \in 0..N : ReplaysShort(P[k], node[k], X, K)}
  <1> HIDE DEF N
  <1>6. 0 \in T
    <2>1. 0 \in 0..N
      BY <1>2
    <2>2. P[0] \in Progress
      BY <2>1, <1>5
    <2>3. P[0].ledger = L /\ P[0].diffs = diffs
      <3>1. P[0] = [ok |-> TRUE, ledger |-> L, diffs |-> diffs]
        BY <1>5
      <3> QED  BY <3>1
    <2> QED  BY <2>1, <2>2, <2>3, <1>4 DEF ReplaysShort
  <1>7. ASSUME NEW k \in 0..(N - 1), k \in T  PROVE  k + 1 \in T
    <2> DEFINE r == P[k]
               g == hs[k + 1]
               s == ApplyBlock(r.ledger, g)
    <2>1. k \in Nat /\ k \in 0..N /\ k + 1 \in 0..N /\ k + 1 \in 1..N
      BY <1>2
    <2>2. g \in Block /\ g \in Hash /\ node[k + 1] = g /\ Parent[g] = node[k]
          /\ node[k] \in Hash /\ Parent[g] # Zero
      BY <2>1, <1>2, <1>4, ElementOfSeq, TreeAssumption DEF Hash
    <2>3. r \in Progress /\ P[k + 1] = ApplyStep(r, g) /\ P[k + 1] \in Progress
      BY <2>1, <1>5
    <2>4. ReplaysShort(r, node[k], X, K)
      BY <1>7
    <2>5. r.ledger \in UtxoSet /\ r.diffs \in DiffMap /\ DiffsReplayed(r.diffs)
      BY <2>3, <2>4 DEF Progress, ReplaysShort
    <2>6. P[k + 1] = IF r.ok /\ s.ok
                     THEN [ok |-> TRUE, ledger |-> s.ledger,
                           diffs |-> [r.diffs EXCEPT ![g] = s.diff]]
                     ELSE [r EXCEPT !.ok = FALSE]
      BY <2>3 DEF ApplyStep
    <2> HIDE DEF r, g, s
    <2>7. CASE r.ok /\ s.ok
      <3> DEFINE q == ReplayOf[node[k]]
      <3>1. q.ok /\ Short(r.ledger, q.ledger, X, K) /\ q.ledger \in UtxoSet
        BY <2>2, <2>4, <2>7, ReplayEquation DEF ReplaysShort, Outcome
      <3>2. ReplayOf[g] = ApplyBlock(q.ledger, g)
        BY <2>2, <3>1, ReplayEquation
      <3>3. AppliesShort(s, ReplayOf[g], X, K)
        BY <2>2, <2>5, <3>1, <3>2, ApplyShort DEF s
      <3>4. ReplayOf[g].ok /\ Short(s.ledger, ReplayOf[g].ledger, X, K) /\ s.diff = ReplayOf[g].diff
        BY <2>7, <3>3 DEF AppliesShort
      <3>5. P[k + 1].ledger = s.ledger /\ P[k + 1].diffs = [r.diffs EXCEPT ![g] = s.diff]
        BY <2>6, <2>7
      <3>6. \A x \in Hash : P[k + 1].diffs[x] = IF x = g THEN s.diff ELSE r.diffs[x]
        BY <2>5, <3>5 DEF DiffMap
      <3>7. DiffsReplayed(P[k + 1].diffs)
        BY <2>5, <3>4, <3>6 DEF DiffsReplayed
      <3>8. Undoable(P[k + 1].diffs, g, K)
        <4>1. PathFrom[g] = {g} \cup PathFrom[node[k]] /\ PathFrom[node[k]] \in SUBSET Hash
          BY <2>2, PathEquation
        <4>2. s.diff \in BlockDiff /\ NoDiff \notin BlockDiff
          BY <2>2, <2>5, ApplyBlockType, TreeAssumption DEF s, Outcome
        <4>3. Undoable(r.diffs, node[k], K)
          BY <2>4, <2>7 DEF ReplaysShort
        <4> QED  BY <2>2, <3>6, <4>1, <4>2, <4>3 DEF Undoable
      <3> QED  BY <2>1, <2>2, <2>3, <3>4, <3>5, <3>7, <3>8 DEF ReplaysShort
    <2>8. CASE ~(r.ok /\ s.ok)
      <3>1. P[k + 1].ok = FALSE /\ P[k + 1].diffs = r.diffs
        BY <2>3, <2>6, <2>8 DEF Progress
      <3> QED  BY <2>1, <2>3, <2>5, <3>1 DEF ReplaysShort
    <2> QED  BY <2>7, <2>8
  <1> HIDE DEF T
  <1>8. \A k \in 0..N : k \in T
    BY <1>2, <1>6, <1>7, BoundedInduction
  <1>9. N \in T
    BY <1>2, <1>8
  <1> QED  BY <1>4, <1>5, <1>9 DEF T
-----------------------------------------------------------------------------
(* The ledger of a running node.                                           *)

\* What applying b over the tip must return on such a ledger.
ExtendsShort(r, L, b, X, K) ==
  /\ r.ok => /\ ReplayOf[b].ok /\ Short(r.ledger, ReplayOf[b].ledger, X, K)
             /\ r.diff = ReplayOf[b].diff
  /\ ~r.ok => r.ledger = L

LEMMA AppliedShortOfTip ==
  ASSUME MemoryTypes, NEW L \in UtxoSet, NEW X, NEW K, LedgerGood(L, X, K),
         NEW b \in Block, Parent[b] = tip
  PROVE  ExtendsShort(ApplyBlock(L, b), L, b, X, K)
  <1> DEFINE M == ReplayOf[tip].ledger
             C == ChainTxs(tip)
             r == ApplyBlock(L, b)
  <1>1. tip \in Hash /\ tip # Zero /\ ReplayOf[tip].ok /\ Short(L, M, X, K)
    BY DEF MemoryTypes, LedgerGood
  <1>2. M \in UtxoSet /\ C \in SUBSET Tx /\ Rooted(M, C)
    BY <1>1, ReplayEquation, ReplaySound, ChainTxsFacts DEF Outcome, ReplayedOn, Grounded
  <1>3. ReplayOf[b] = ApplyBlock(M, b)
    BY <1>1, ReplayEquation
  <1> HIDE DEF M, C, r
  <1>4. AppliesShort(r, ReplayOf[b], X, K)
    BY <1>1, <1>2, <1>3, ApplyShort DEF r
  <1>5. Rooted(L, C)
    <2>1. M.images \subseteq L.images /\ \A k \in Key : Exists(L, k) => Exists(M, k)
      BY <1>1 DEF Short, Exists
    <2>2. \A t \in C : SpentKeys(t) \subseteq Key
      BY <1>2, InputTypes
    <2> QED  BY <1>2, <2>1, <2>2 DEF Rooted
  <1>6. FreshStart(b, C)
    BY <1>1, FreshMints DEF C
  <1>7. AppliedSoundly(r, L, C, b)
    BY <1>1, <1>2, <1>5, <1>6, ApplyBlockSound DEF r
  <1> QED  BY <1>4, <1>7 DEF AppliesShort, AppliedSoundly, ExtendsShort, r

\* A reorganisation: nothing moves, or the ledger falls short of the replay of the new tip.
LEMMA ReorgShort ==
  ASSUME MemoryTypes, NEW X, NEW K, LedgerGood(ledger, X, K),
         NEW b \in Block, Parent[b] \in Hash, ForkPoint(b) # Zero
  PROVE  ReplaysShort(ApplyBlocks(UnwindBlocks(ledger, OldBranch(b)), NewBranch(b)), b, X, K)
  <1> DEFINE f == ForkPoint(b)
             L == UnwindBlocks(ledger, OldBranch(b))
  <1>1. tip \in Hash /\ cached \in SUBSET Hash
    BY DEF MemoryTypes, LedgerGood
  <1>2. Descent(OldBranch(b), tip, f) /\ Ascent(NewBranch(b), f, b) /\ f \in Hash
    BY <1>1, BranchesMeet, PathFacts DEF Forks
  <1> HIDE DEF f
  <1>3. /\ L \in UtxoSet /\ Short(L, ReplayOf[f].ledger, X, K)
        /\ ReplayOf[f].ok /\ Undoable(diffs, f, K)
    BY <1>1, <1>2, UnwindsShort DEF MemoryTypes, LedgerGood
  <1> HIDE DEF L
  <1>4. ReplaysShort(ApplyBlocks(L, NewBranch(b)), b, X, K)
    BY <1>2, <1>3, AppliesBranchShort DEF MemoryTypes, LedgerGood
  <1> QED  BY <1>4 DEF L

-----------------------------------------------------------------------------
(* The handlers.                                                           *)

\* The tip moves to b: over the tip, or to a heavier branch that meets the canonical
\* chain and whose blocks get_block finds.
MovesTip(b) ==
  /\ CanAdd(b) /\ AddBlock(b) /\ SetChainTip(b)
  /\ tip # Zero
  /\ \/ Parent[b] = tip
     \/ /\ Heavier(b) /\ Parent[b] \in cached
        /\ PathFrom[b] \cap PathFrom[tip] # {}
        /\ PathFrom[b] \ PathFrom[tip] \subseteq cached \cup {b}

\* However far L fell short, the ledger does not fall further.
Falls(L) ==
  \A X \in SUBSET Image, K \in SUBSET Key : LedgerGood(L, X, K) => LedgerGood(ledger, X, K)'

\* What every handler of the node does, from its ledger or from another L.
HandledFrom(L, b) ==
  /\ UNCHANGED tree \/ (CanAdd(b) /\ AddBlock(b))
  /\ \/ UNCHANGED queue
     \/ UNCHANGED tree /\ ~ParentKnown(b) /\ HeightOf(b) > 0 /\ AddOrphan(b)
  /\ UNCHANGED <<tip, tipWork>> \/ MovesTip(b)
  /\ diffs' \in DiffMap /\ ledger' \in UtxoSet
  /\ Falls(L)

Handled(b) == HandledFrom(ledger, b)

LEMMA ChainUnchanged ==
  ASSUME MemoryTypes, UNCHANGED <<tip, tipWork, ledger, diffs>>
  PROVE  diffs' \in DiffMap /\ ledger' \in UtxoSet /\ Falls(ledger)
  BY DEF MemoryTypes, LedgerGood, Falls

\* The block that applies over the tip becomes the tip.
LEMMA TipExtends ==
  ASSUME MemoryTypes, NEW L \in UtxoSet, NEW b \in Block, Parent[b] = tip, tip # Zero,
         NEW r, r = ApplyBlock(L, b), r.ok,
         ledger' = r.ledger, diffs' = [diffs EXCEPT ![b] = r.diff], tip' = b
  PROVE  diffs' \in DiffMap /\ ledger' \in UtxoSet /\ Falls(L)
  <1>1. r \in Outcome /\ b \in Hash /\ b # Zero
    BY ApplyBlockType, TreeAssumption DEF MemoryTypes, Hash
  <1> DEFINE d == r.diff
  <1>2. d \in BlockDiff /\ r.ledger \in UtxoSet
    BY <1>1 DEF Outcome
  <1>3. diffs' = [diffs EXCEPT ![b] = d]
    OBVIOUS
  <1> HIDE DEF d
  <1>4. diffs' \in DiffMap /\ \A h \in Hash : diffs'[h] = IF h = b THEN d ELSE diffs[h]
    BY <1>1, <1>2, <1>3 DEF MemoryTypes, DiffMap
  <1>5. ASSUME NEW X \in SUBSET Image, NEW K \in SUBSET Key, LedgerGood(L, X, K)
        PROVE  LedgerGood(ledger, X, K)'
    <2>1. ExtendsShort(r, L, b, X, K)
      BY <1>5, AppliedShortOfTip
    <2>2. ReplayOf[b].ok /\ Short(r.ledger, ReplayOf[b].ledger, X, K) /\ d = ReplayOf[b].diff
      BY <2>1 DEF ExtendsShort, d
    <2>3. DiffsReplayed(diffs')
      BY <1>4, <1>5, <2>2 DEF LedgerGood, DiffsReplayed
    <2>4. Undoable(diffs', b, K)
      <3>1. PathFrom[b] = {b} \cup PathFrom[tip] /\ PathFrom[tip] \in SUBSET Hash
        BY <1>1, PathEquation DEF MemoryTypes
      <3>2. d # NoDiff
        BY <1>2, TreeAssumption
      <3> QED  BY <1>1, <1>4, <1>5, <3>1, <3>2 DEF LedgerGood, Undoable
    <2> QED  BY <1>1, <2>2, <2>3, <2>4 DEF LedgerGood
  <1> QED  BY <1>2, <1>4, <1>5 DEF Falls

LEMMA ExtendHandled ==
  ASSUME MemoryTypes, NEW b \in Block, ExtendCanonical(b)
  PROVE  Handled(b)
  <1> DEFINE r == ApplyBlock(ledger, b)
  <1>1. /\ Connects(b) /\ Parent[b] = tip /\ ledger' = r.ledger
        /\ IF r.ok THEN diffs' = [diffs EXCEPT ![b] = r.diff] /\ SetChainTip(b)
                   ELSE UNCHANGED <<diffs, tip, tipWork>>
    BY DEF ExtendCanonical
  <1>2. /\ CanAdd(b) /\ AddBlock(b) /\ UNCHANGED queue
        /\ tip \in cached /\ tip # Zero /\ ledger \in UtxoSet
    BY <1>1, TreeAssumption DEF Connects, ParentKnown, MemoryTypes
  <1>3. r \in Outcome
    BY ApplyBlockType DEF MemoryTypes
  <1> HIDE DEF r
  <1>4. CASE r.ok
    <2>1. diffs' \in DiffMap /\ ledger' \in UtxoSet /\ Falls(ledger)
      BY <1>1, <1>2, <1>4, TipExtends DEF SetChainTip, r
    <2> QED  BY <1>1, <1>2, <1>4, <2>1 DEF Handled, HandledFrom, MovesTip
  <1>5. CASE ~r.ok
    <2>1. ASSUME NEW X \in SUBSET Image, NEW K \in SUBSET Key, LedgerGood(ledger, X, K)
          PROVE  LedgerGood(ledger, X, K)'
      <3>1. ledger' = ledger
        BY <1>1, <1>2, <1>5, <2>1, AppliedShortOfTip DEF ExtendsShort, r
      <3> QED  BY <1>1, <1>5, <2>1, <3>1 DEF LedgerGood
    <2>2. diffs' \in DiffMap /\ ledger' \in UtxoSet
      BY <1>1, <1>3, <1>5 DEF MemoryTypes, Outcome
    <2> QED  BY <1>1, <1>2, <1>5, <2>1, <2>2 DEF Handled, HandledFrom, Falls
  <1> QED  BY <1>4, <1>5

\* Mining over whatever ledger the miner is given.
LEMMA MineHandledFrom ==
  ASSUME MemoryTypes, NEW L \in UtxoSet, NEW b \in Block, Mine(L, b)
  PROVE  HandledFrom(L, b)
  <1> DEFINE r == ApplyBlock(L, b)
  <1>1. /\ Parent[b] = tip /\ HeightOf(b) = HeightOf(tip) + 1
        /\ ledger' = r.ledger /\ UNCHANGED queue
        /\ IF r.ok /\ CanAdd(b)
           THEN AddBlock(b) /\ diffs' = [diffs EXCEPT ![b] = r.diff] /\ SetChainTip(b)
           ELSE UNCHANGED <<tree, diffs, tip, tipWork>>
    BY DEF Mine
  <1>2. r \in Outcome
    BY ApplyBlockType
  <1>3. CanAdd(b) => tip # Zero
    BY <1>1, BlockAssumption, TreeAssumption DEF CanAdd, HeightOf, MemoryTypes, Hash
  <1> HIDE DEF r
  <1>4. CASE r.ok /\ CanAdd(b)
    <2>1. diffs' \in DiffMap /\ ledger' \in UtxoSet /\ Falls(L)
      BY <1>1, <1>3, <1>4, TipExtends DEF SetChainTip, r
    <2> QED  BY <1>1, <1>3, <1>4, <2>1 DEF HandledFrom, MovesTip
  <1>5. CASE ~(r.ok /\ CanAdd(b))
    <2>1. diffs' \in DiffMap /\ ledger' \in UtxoSet
      BY <1>1, <1>2, <1>5 DEF MemoryTypes, Outcome
    <2>2. UNCHANGED tree /\ UNCHANGED <<tip, tipWork, diffs>>
      BY <1>1, <1>5
    <2>3. ASSUME NEW X \in SUBSET Image, NEW K \in SUBSET Key, LedgerGood(L, X, K)
          PROVE  LedgerGood(ledger, X, K)'
      <3>1. tip # Zero /\ tip \in stored
        BY <2>3 DEF LedgerGood, MemoryTypes
      <3>2. CanAdd(b)
        BY <1>1, <3>1 DEF Mine, CanAdd
      <3>3. ledger' = L
        BY <1>1, <1>5, <2>3, <3>2, AppliedShortOfTip DEF ExtendsShort, r
      <3> QED  BY <2>2, <2>3, <3>3 DEF LedgerGood
    <2> QED  BY <1>1, <2>1, <2>2, <2>3 DEF HandledFrom, Falls
  <1> QED  BY <1>4, <1>5

LEMMA MineHandled ==
  ASSUME MemoryTypes, NEW b \in Block, MineBlock(b)
  PROVE  Handled(b)
  BY MineHandledFrom DEF MineBlock, Handled, MemoryTypes

LEMMA ReorgHandled ==
  ASSUME MemoryTypes, NEW b \in Block, ReorgToNew(b)
  PROVE  Handled(b)
  <1> DEFINE f == ForkPoint(b)
             old == OldBranch(b)
             up == NewBranch(b)
             new == ApplyBlocks(UnwindBlocks(ledger, old), up)
  <1>1. Connects(b) /\ Heavier(b) /\ f # Zero /\ ExecuteReorg(b, old, up)
    BY DEF ReorgToNew, OldBranch, NewBranch
  <1>2. /\ CanAdd(b) /\ AddBlock(b) /\ UNCHANGED queue
        /\ Parent[b] \in cached /\ Parent[b] \in Hash /\ cached \in SUBSET Hash
        /\ b \in Hash /\ b # Zero
    BY <1>1, TreeAssumption DEF Connects, ParentKnown, MemoryTypes, Hash
  <1>3. tip # Zero /\ tip \in Hash
    <2>1. f = FindLca(cached \cup {b}, Parent[b], tip) /\ cached \cup {b} \in SUBSET Hash
      BY <1>2 DEF ForkPoint
    <2> QED  BY <1>1, <1>2, <2>1, NoForkWithZero DEF MemoryTypes
  <1>4. /\ f \in PathFrom[Parent[b]] /\ PathFrom[Parent[b]] \ PathFrom[f] \subseteq cached \cup {b}
        /\ f \in PathFrom[tip]
        /\ old \in Seq(Block) /\ up \in Seq(Block)
    BY <1>1, <1>2, <1>3, BranchesMeet DEF Forks, Descent, Ascent
  <1>5. new \in Progress
    <2>1. diffs \in DiffMap /\ ledger \in UtxoSet
      BY DEF MemoryTypes
    <2> HIDE DEF old, up
    <2>2. UnwindBlocks(ledger, old) \in UtxoSet
      <3>1. PICK P : UnwindsBy(P, ledger, old)
        BY <1>4, <2>1, UnwindByPrefix
      <3>2. Len(old) \in Nat
        BY <1>4, LenProperties
      <3> QED  BY <3>1, <3>2 DEF UnwindsBy
    <2>3. PICK P : AppliesBy(P, UnwindBlocks(ledger, old), up)
      BY <1>4, <2>1, <2>2, ApplyByPrefixOfBranch
    <2>4. Len(up) \in Nat
      BY <1>4, LenProperties
    <2> QED  BY <2>3, <2>4 DEF AppliesBy
  <1>6. \A X \in SUBSET Image, K \in SUBSET Key :
          LedgerGood(ledger, X, K) => ReplaysShort(new, b, X, K)
    BY <1>1, <1>2, ReorgShort
  <1> DEFINE Taken == /\ Len(old) <= MaxReorg /\ Len(up) <= MaxReorg
                      /\ ToSet(old) \cup ToSet(up) \subseteq cached \cup {b}
                      /\ new.ok
  <1>7. IF Taken THEN ledger' = new.ledger /\ diffs' = new.diffs /\ SetChainTip(b)
                 ELSE UNCHANGED chain
    BY <1>1 DEF ExecuteReorg
  <1> HIDE DEF f, old, up, new
  <1>8. CASE Taken
    <2>1. diffs' \in DiffMap /\ ledger' \in UtxoSet
      BY <1>5, <1>7, <1>8 DEF Progress
    <2>2. ASSUME NEW X \in SUBSET Image, NEW K \in SUBSET Key, LedgerGood(ledger, X, K)
          PROVE  LedgerGood(ledger, X, K)'
      <3>1. ReplaysShort(new, b, X, K)
        BY <1>6, <2>2
      <3> QED  BY <1>2, <1>7, <1>8, <3>1 DEF ReplaysShort, LedgerGood, SetChainTip
    <2>3. PathFrom[b] = {b} \cup PathFrom[Parent[b]] /\ PathFrom[f] \subseteq PathFrom[tip]
      BY <1>2, <1>3, <1>4, PathEquation, PathFacts
    <2>4. MovesTip(b)
      BY <1>1, <1>2, <1>3, <1>4, <1>7, <1>8, <2>3 DEF MovesTip
    <2> QED  BY <1>2, <2>1, <2>2, <2>4 DEF Handled, HandledFrom, Falls
  <1>9. CASE ~Taken
    <2>1. UNCHANGED <<tip, tipWork, ledger, diffs>>
      BY <1>7, <1>9 DEF chain
    <2> QED  BY <1>2, <2>1, ChainUnchanged DEF Handled, HandledFrom
  <1> QED  BY <1>8, <1>9

LEMMA QuietHandled ==
  ASSUME MemoryTypes, NEW b \in Block, QueueOrphan(b) \/ RejectGenesis(b) \/ Sidechain(b)
  PROVE  Handled(b) /\ UNCHANGED <<tip, tipWork>>
  <1>1. UNCHANGED chain
    BY DEF QueueOrphan, RejectGenesis, Sidechain
  <1>2. UNCHANGED <<tip, tipWork, ledger, diffs>>
    BY <1>1 DEF chain
  <1>3. \/ UNCHANGED tree /\ ~ParentKnown(b) /\ HeightOf(b) > 0 /\ AddOrphan(b)
        \/ CanAdd(b) /\ AddBlock(b) /\ UNCHANGED queue
    BY DEF QueueOrphan, RejectGenesis, Sidechain, Connects
  <1> QED  BY <1>2, <1>3, ChainUnchanged DEF Handled, HandledFrom
LEMMA HandledTypes ==
  ASSUME MemoryTypes, NEW L, NEW b \in Block, HandledFrom(L, b)
  PROVE  MemoryTypes'
  <1>1. b \in Hash /\ Zero \notin Hash /\ Weight[b] \in Nat
    BY TreeAssumption DEF Hash
  <1>2. /\ stored' \subseteq Hash /\ cached' \subseteq stored' /\ stored \subseteq stored'
        /\ work' \in [Hash -> Nat]
    <2>1. CASE UNCHANGED tree
      BY <2>1 DEF tree, MemoryTypes
    <2>2. CASE CanAdd(b) /\ AddBlock(b)
      <3> DEFINE w == WorkOver(b)
      <3>1. w \in Nat
        <4>1. CASE Parent[b] \in stored
          <5>1. work[Parent[b]] \in Nat
            BY <4>1 DEF MemoryTypes
          <5> QED  BY <1>1, <4>1, <5>1 DEF WorkOver
        <4>2. CASE Parent[b] \notin stored
          BY <1>1, <4>2 DEF WorkOver
        <4> QED  BY <4>1, <4>2
      <3>2. work' = [work EXCEPT ![b] = w]
        BY <2>2 DEF AddBlock
      <3> HIDE DEF w
      <3>3. work' \in [Hash -> Nat]
        BY <3>1, <3>2 DEF MemoryTypes
      <3> QED  BY <1>1, <2>2, <3>3 DEF AddBlock, MemoryTypes
    <2> QED  BY <2>1, <2>2 DEF HandledFrom
  <1>3. orphans' \subseteq Hash /\ orphanOrder' \in Seq(Hash)
    <2>1. CASE UNCHANGED queue
      BY <2>1 DEF queue, MemoryTypes
    <2>2. CASE AddOrphan(b)
      <3> DEFINE s == Evicted.set
                 q == Evicted.order
      <3>1. s \subseteq Hash /\ q \in Seq(Hash)
        <4>1. orphans \subseteq Hash /\ orphanOrder \in Seq(Hash)
          BY DEF MemoryTypes
        <4>2. orphanOrder # <<>> => Tail(orphanOrder) \in Seq(Hash)
          BY <4>1, HeadTailProperties
        <4> QED  BY <4>1, <4>2 DEF Evicted
      <3> HIDE DEF s, q
      <3>2. CASE b \in orphans
        BY <2>2, <3>2 DEF AddOrphan, queue, MemoryTypes
      <3>3. CASE b \notin orphans
        <4>1. orphans' = s \cup {b} /\ orphanOrder' = Append(q, b)
          BY <2>2, <3>3 DEF AddOrphan, s, q
        <4> QED  BY <1>1, <3>1, <4>1, AppendProperties
      <3> QED  BY <3>2, <3>3
    <2> QED  BY <2>1, <2>2 DEF HandledFrom
  <1>4. tip' \in stored' \cup {Zero} /\ tipWork' \in Nat
    <2>1. CASE UNCHANGED <<tip, tipWork>>
      BY <2>1, <1>2 DEF MemoryTypes
    <2>2. CASE MovesTip(b)
      <3>1. tip' = b /\ tipWork' = work'[b] /\ b \in stored'
        BY <2>2 DEF MovesTip, SetChainTip, AddBlock
      <3> QED  BY <3>1, <1>1, <1>2
    <2> QED  BY <2>1, <2>2 DEF HandledFrom
  <1> QED  BY <1>2, <1>3, <1>4 DEF HandledFrom, MemoryTypes

-----------------------------------------------------------------------------
(***************************************************************************)
(* The node with its files                                                 *)
(***************************************************************************)

-----------------------------------------------------------------------------
(* Types.                                                                  *)

FileTypes ==
  /\ utxoFile \in UtxoSet
  /\ log \in Seq(Hash)
  /\ storeFile \in SavedStore \cup {NoFile}
  /\ mode \in {"down", "node", "saving", "miner", "halted"}

LEMMA TypesSplit ==
  PersistTypes <=> MemoryTypes /\ FileTypes
  <1>1. ChainStore \in SavedStore <=>
          /\ stored \subseteq Hash /\ work \in [Hash -> Nat] /\ tip \in Hash \cup {Zero}
          /\ tipWork \in Nat /\ orphans \subseteq Hash /\ orphanOrder \in Seq(Hash)
    BY DEF ChainStore, SavedStore
  <1> QED  BY <1>1 DEF PersistTypes, MemoryTypes, FileTypes, DiffMap

LEMMA TypesSplitNext ==
  PersistTypes' <=> MemoryTypes' /\ FileTypes'
  <1>1. ChainStore' \in SavedStore <=>
          /\ stored' \subseteq Hash /\ work' \in [Hash -> Nat] /\ tip' \in Hash \cup {Zero}
          /\ tipWork' \in Nat /\ orphans' \subseteq Hash /\ orphanOrder' \in Seq(Hash)
    BY DEF ChainStore, SavedStore
  <1> QED  BY <1>1 DEF PersistTypes, MemoryTypes, FileTypes, DiffMap

-----------------------------------------------------------------------------
(* Reading the log.                                                        *)

ReadTree == [ok : BOOLEAN, known : SUBSET Hash, root : Hash \cup {Zero}, work : [Hash -> Nat]]

ReadOf(s) == FoldLeft(Relink, EmptyTree, s)

LEMMA Heights ==
  /\ \A h \in Hash \cup {Zero} : HeightOf(h) \in Nat
  /\ \A h \in Block : HeightOf(h) = Height[h]
  /\ HeightOf(Genesis) = 0 /\ HeightOf(Zero) = 0
  BY BlockAssumption, TreeAssumption DEF HeightOf, Hash

LEMMA EmptyTreeFields ==
  /\ EmptyTree \in ReadTree
  /\ EmptyTree.ok /\ EmptyTree.known = {} /\ EmptyTree.root = Zero
  /\ \A h \in Hash : EmptyTree.work[h] = 0
  <1>1. [h \in Hash |-> 0] \in [Hash -> Nat]
    OBVIOUS
  <1> QED  BY <1>1 DEF EmptyTree, ReadTree

\* A line that starts the tree anew, one that extends it, and one that is skipped.
StartsAnew(t, h) == h \notin t.known /\ HeightOf(h) = 0
Extends(t, h) == h \notin t.known /\ HeightOf(h) > 0 /\ Parent[h] \in t.known
Skipped(t, h) == h \notin t.known /\ HeightOf(h) > 0 /\ Parent[h] \notin t.known

\* What u must be once h is read into t.
Relinked(u, t, h) ==
  /\ u \in ReadTree
  /\ h \in t.known => u = t
  /\ StartsAnew(t, h) => (u.ok <=> t.ok) /\ u.known = {h} /\ u.root = h /\ u.work[h] = Weight[h]
  /\ Extends(t, h) => /\ (u.ok <=> t.ok) /\ u.known = t.known \cup {h} /\ u.root = t.root
                      /\ u.work[h] = t.work[Parent[h]] + Weight[h]
                      /\ \A g \in Hash : g # h => u.work[g] = t.work[g]
  /\ Skipped(t, h) => /\ (u.ok <=> t.ok /\ Parent[h] = Zero)
                      /\ u.known = t.known /\ u.root = t.root /\ u.work = t.work

LEMMA RelinkFields ==
  ASSUME NEW t \in ReadTree, NEW h \in Hash
  PROVE  Relinked(Relink(t, h), t, h)
  <1> DEFINE u == Relink(t, h)
             w == t.work[Parent[h]] + Weight[h]
             z == EmptyTree.work
  <1>1. /\ t.known \in SUBSET Hash /\ t.root \in Hash \cup {Zero} /\ t.work \in [Hash -> Nat]
        /\ t.ok \in BOOLEAN /\ Weight[h] \in Nat /\ HeightOf(h) \in Nat /\ z \in [Hash -> Nat]
    BY Heights, EmptyTreeFields, TreeAssumption DEF ReadTree
  <1>2. CASE h \in t.known
    BY <1>2 DEF Relink, Relinked, StartsAnew, Extends, Skipped
  <1>3. CASE StartsAnew(t, h)
    <2> DEFINE y == [EmptyTree.work EXCEPT ![h] = Weight[h]]
    <2>1. u = [t EXCEPT !.known = {h}, !.root = h, !.work = y]
      BY <1>3 DEF Relink, StartsAnew
    <2>2. y \in [Hash -> Nat] /\ y[h] = Weight[h]
      BY <1>1
    <2> HIDE DEF y
    <2>3. u = [ok |-> t.ok, known |-> {h}, root |-> h, work |-> y]
      BY <2>1 DEF ReadTree
    <2> HIDE DEF u
    <2>4. u \in ReadTree /\ u.ok = t.ok /\ u.known = {h} /\ u.root = h /\ u.work = y
      BY <2>2, <2>3, <1>1 DEF ReadTree
    <2> QED  BY <1>3, <2>2, <2>4 DEF Relinked, StartsAnew, Extends, Skipped, u
  <1>4. CASE Extends(t, h)
    <2> DEFINE y == [t.work EXCEPT ![h] = w]
    <2>1. u = [t EXCEPT !.known = t.known \cup {h}, !.work = y]
      BY <1>3, <1>4 DEF Relink, Extends, ReadTree
    <2>2. w \in Nat
      BY <1>1, <1>4 DEF Extends
    <2> HIDE DEF w
    <2>3. y \in [Hash -> Nat] /\ y[h] = w /\ \A g \in Hash : g # h => y[g] = t.work[g]
      BY <1>1, <2>2
    <2> HIDE DEF y
    <2>4. u = [ok |-> t.ok, known |-> t.known \cup {h}, root |-> t.root, work |-> y]
      BY <2>1 DEF ReadTree
    <2> HIDE DEF u
    <2>5. /\ u \in ReadTree /\ u.ok = t.ok /\ u.known = t.known \cup {h}
          /\ u.root = t.root /\ u.work = y
      BY <2>3, <2>4, <1>1 DEF ReadTree
    <2> QED  BY <1>4, <2>3, <2>5 DEF Relinked, StartsAnew, Extends, Skipped, u, w
  <1>5. CASE Skipped(t, h)
    <2>1. u = [t EXCEPT !.ok = t.ok /\ Parent[h] = Zero]
      BY <1>5 DEF Relink, Skipped, ReadTree
    <2> DEFINE o == t.ok /\ Parent[h] = Zero
    <2>2. o \in BOOLEAN
      OBVIOUS
    <2>3. u = [t EXCEPT !.ok = o]
      BY <2>1
    <2> HIDE DEF o
    <2>4. u = [ok |-> o, known |-> t.known, root |-> t.root, work |-> t.work]
      BY <2>3 DEF ReadTree
    <2> HIDE DEF u
    <2>5. /\ u \in ReadTree /\ u.ok = o /\ u.known = t.known /\ u.root = t.root
          /\ u.work = t.work
      BY <2>2, <2>4, <1>1 DEF ReadTree
    <2>6. u.ok <=> t.ok /\ Parent[h] = Zero
      <3>1. u.ok = o
        BY <2>5
      <3>2. o <=> t.ok /\ Parent[h] = Zero
        BY Zenon DEF o
      <3> QED  BY <3>1, <3>2, Zenon
    <2>7. Relinked(u, t, h)
      BY <1>5, <2>5, <2>6 DEF Relinked, StartsAnew, Extends, Skipped
    <2> QED  BY <2>7 DEF u
  <1> QED  BY <1>1, <1>2, <1>3, <1>4, <1>5 DEF StartsAnew, Extends, Skipped

\* The trees read so far, line by line.
ReadsBy(P, s) ==
  /\ P \in [0..Len(s) -> ReadTree]
  /\ P[0] = EmptyTree
  /\ \A k \in 0..(Len(s) - 1) : P[k + 1] = Relink(P[k], s[k + 1])
  /\ ReadOf(s) = P[Len(s)]

LEMMA ReadByPrefix ==
  ASSUME NEW s \in Seq(Hash)
  PROVE  \E P : ReadsBy(P, s)
  <1> DEFINE N == Len(s)
             Body(g) == [x \in SUBSET (DOMAIN s) |->
                           IF x = {} THEN EmptyTree ELSE Relink(g[x \ {Max(x)}], s[Max(x)])]
             F == CHOOSE g : g = Body(g)
             step == [p \in ReadTree \X Hash |-> Relink(p[1], p[2])]
             P == [k \in 0..N |-> F[1..k]]
  <1>1. ReadOf(s) = F[DOMAIN s]
    BY DEF ReadOf, FoldLeft, MapThenFoldSet
  <1>2. \A v \in ReadTree, e \in Hash :
          Relink(v, e) \in ReadTree /\ step[<<v, e>>] = Relink(v, e)
    BY RelinkFields DEF Relinked
  <1>3. N \in Nat /\ DOMAIN s = 1..N /\ \A k \in 1..N : s[k] \in Hash
    OBVIOUS
  <1>4. EmptyTree \in ReadTree
    BY EmptyTreeFields
  <1> HIDE DEF step
  <1>5. FoldStep(Hash, ReadTree, EmptyTree, step)
    BY <1>2, <1>4 DEF FoldStep
  <1>6. PICK g : FoldSolution(s, ReadTree, EmptyTree, step, g)
    BY <1>5, FoldRecursion
  <1>7. g = Body(g)
    <2>1. ASSUME NEW x \in SUBSET (DOMAIN s), x # {}
          PROVE  step[<<g[x \ {Max(x)}], s[Max(x)]>>] = Relink(g[x \ {Max(x)}], s[Max(x)])
      <3>1. g[x \ {Max(x)}] \in ReadTree
        BY <1>6 DEF FoldSolution
      <3>2. Max(x) \in DOMAIN s
        BY <2>1, <1>3, MaxOfInterval
      <3> QED  BY <3>1, <3>2, <1>2
    <2> QED  BY <2>1, <1>6 DEF FoldSolution
  <1>8. F = Body(F)
    BY <1>7
  <1> HIDE DEF F, N
  <1>9. F[1..0] = EmptyTree
    BY <1>8
  <1>10. ASSUME NEW k \in 0..(N - 1)  PROVE  F[1..(k + 1)] = Relink(F[1..k], s[k + 1])
    <2>1. F[1..(k + 1)] = Body(F)[1..(k + 1)]
      BY <1>8
    <2> QED  BY <2>1, FirstPlaces DEF N
  <1>11. \A k \in 0..N : F[1..k] \in ReadTree
    <2> DEFINE T == {k \in 0..N : F[1..k] \in ReadTree}
    <2>1. 0 \in T
      <3>1. F[1..0] \in ReadTree
        BY <1>4, <1>9
      <3>2. 0 \in 0..N
        BY <1>3
      <3> QED  BY <3>1, <3>2
    <2>2. ASSUME NEW k \in 0..(N - 1), k \in T  PROVE  k + 1 \in T
      <3>1. k \in 0..N /\ k + 1 \in 0..N /\ s[k + 1] \in Hash /\ F[1..k] \in ReadTree
        BY <2>2, <1>3
      <3> QED  BY <3>1, <1>2, <1>10
    <2> HIDE DEF T
    <2>3. \A k \in 0..N : k \in T
      BY <2>1, <2>2, <1>3, BoundedInduction
    <2> QED  BY <2>3 DEF T
  <1>12. P \in [0..N -> ReadTree] /\ P[0] = EmptyTree /\ P[N] = F[DOMAIN s]
         /\ \A k \in 0..(N - 1) : P[k + 1] = Relink(P[k], s[k + 1])
    BY <1>3, <1>9, <1>10, <1>11
  <1> HIDE DEF P
  <1> QED  BY <1>1, <1>12 DEF N, ReadsBy

\* One more line is one more step.
LEMMA ReadAppend ==
  ASSUME NEW s \in Seq(Hash), NEW b \in Hash
  PROVE  /\ ReadOf(s) \in ReadTree
         /\ ReadOf(Append(s, b)) = Relink(ReadOf(s), b)
  <1> DEFINE N == Len(s)
             r == Append(s, b)
  <1>1. /\ N \in Nat /\ r \in Seq(Hash) /\ Len(r) = N + 1 /\ r[N + 1] = b
        /\ \A k \in 1..N : r[k] = s[k]
    BY LenProperties, AppendProperties
  <1>2. PICK P : ReadsBy(P, s)
    BY ReadByPrefix
  <1> HIDE DEF r, N
  <1>3. PICK Q : ReadsBy(Q, r)
    BY <1>1, ReadByPrefix
  <1>4. /\ P \in [0..N -> ReadTree] /\ P[0] = EmptyTree /\ ReadOf(s) = P[N]
        /\ \A k \in 0..(N - 1) : P[k + 1] = Relink(P[k], s[k + 1])
    BY <1>2 DEF ReadsBy, N
  <1>5. /\ Q[0] = EmptyTree /\ ReadOf(r) = Q[N + 1]
        /\ \A k \in 0..N : Q[k + 1] = Relink(Q[k], r[k + 1])
    <2>1. (N + 1) - 1 = N
      BY <1>1
    <2> QED  BY <1>1, <1>3, <2>1 DEF ReadsBy
  <1> DEFINE T == {k \in 0..N : Q[k] = P[k]}
  <1>6. 0 \in T
    BY <1>1, <1>4, <1>5
  <1>7. ASSUME NEW k \in 0..(N - 1), k \in T  PROVE  k + 1 \in T
    <2>1. k \in 0..N /\ k + 1 \in 0..N /\ k + 1 \in 1..N /\ Q[k] = P[k]
      BY <1>1, <1>7
    <2> QED  BY <2>1, <1>1, <1>4, <1>5
  <1> HIDE DEF T
  <1>8. \A k \in 0..N : k \in T
    BY <1>1, <1>6, <1>7, BoundedInduction
  <1>9. N \in 0..N /\ Q[N] = P[N]
    BY <1>1, <1>8 DEF T
  <1> QED  BY <1>1, <1>4, <1>5, <1>9 DEF r

\* A tree read from a log: rooted in itself, and, if blocks of height 0 are over the
\* zero hash, closed under parents up to them, with the work of every branch.
ReadSound(t) ==
  /\ t.root \in t.known \cup {Zero}
  /\ RootsAtZero =>
       \A h \in t.known :
         /\ Parent[h] \in t.known \cup {Zero}
         /\ t.work[h] = Weight[h] + (IF Parent[h] = Zero THEN 0 ELSE t.work[Parent[h]])
         /\ Parent[h] = Zero => HeightOf(h) = 0

LEMMA RelinkSound ==
  ASSUME NEW t \in ReadTree, ReadSound(t), NEW h \in Hash
  PROVE  ReadSound(Relink(t, h))
  <1> DEFINE u == Relink(t, h)
  <1>1. Relinked(u, t, h)
    BY RelinkFields
  <1>2. /\ t.known \in SUBSET Hash /\ Zero \notin Hash /\ Weight \in [Hash -> Nat]
        /\ t.work \in [Hash -> Nat] /\ Parent \in [Hash -> Hash \cup {Zero}]
    BY TreeAssumption DEF ReadTree
  <1>3. HeightOf(h) \in Nat
    BY Heights
  <1> HIDE DEF u
  <1> SUFFICES ReadSound(u)
    BY DEF u
  <1>4. CASE h \in t.known
    BY <1>1, <1>4 DEF Relinked
  <1>5. CASE StartsAnew(t, h)
    <2>1. u.known = {h} /\ u.root = h /\ u.work[h] = Weight[h]
      BY <1>1, <1>5 DEF Relinked
    <2>2. RootsAtZero => Parent[h] = Zero
      BY <1>5, Heights, TreeAssumption DEF StartsAnew, RootsAtZero, Hash
    <2>3. Weight[h] + 0 = Weight[h]
      BY <1>2
    <2> QED  BY <1>5, <2>1, <2>2, <2>3 DEF ReadSound, StartsAnew
  <1>6. CASE Extends(t, h)
    <2>1. /\ u.known = t.known \cup {h} /\ u.root = t.root
          /\ u.work[h] = t.work[Parent[h]] + Weight[h]
          /\ \A g \in Hash : g # h => u.work[g] = t.work[g]
      BY <1>1, <1>6 DEF Relinked
    <2>2. Parent[h] \in t.known /\ h \notin t.known /\ Parent[h] # Zero /\ Parent[h] # h
      BY <1>2, <1>6 DEF Extends
    <2>3. u.root \in u.known \cup {Zero}
      BY <2>1 DEF ReadSound
    <2>4. ASSUME RootsAtZero, NEW g \in u.known
          PROVE  /\ Parent[g] \in u.known \cup {Zero}
                 /\ u.work[g] = Weight[g] + (IF Parent[g] = Zero THEN 0 ELSE u.work[Parent[g]])
                 /\ Parent[g] = Zero => HeightOf(g) = 0
      <3>1. CASE g = h
        <4>1. u.work[Parent[h]] = t.work[Parent[h]] /\ t.work[Parent[h]] \in Nat /\ Weight[h] \in Nat
          BY <1>2, <2>1, <2>2
        <4> QED  BY <3>1, <4>1, <2>1, <2>2
      <3>2. CASE g # h
        <4>1. g \in t.known /\ g \in Hash
          BY <3>2, <2>1, <1>2
        <4>2. /\ Parent[g] \in t.known \cup {Zero}
              /\ t.work[g] = Weight[g] + (IF Parent[g] = Zero THEN 0 ELSE t.work[Parent[g]])
              /\ Parent[g] = Zero => HeightOf(g) = 0
          BY <2>4, <4>1 DEF ReadSound
        <4>3. Parent[g] # h /\ u.work[g] = t.work[g]
          BY <3>2, <4>1, <4>2, <2>1, <2>2, <1>2
        <4>4. Parent[g] # Zero => u.work[Parent[g]] = t.work[Parent[g]]
          BY <4>2, <4>3, <2>1, <1>2
        <4> QED  BY <4>2, <4>3, <4>4, <2>1
      <3> QED  BY <3>1, <3>2
    <2> QED  BY <2>3, <2>4 DEF ReadSound
  <1>7. CASE Skipped(t, h)
    <2>1. u.known = t.known /\ u.root = t.root /\ u.work = t.work
      BY <1>1, <1>7 DEF Relinked
    <2> QED  BY <2>1 DEF ReadSound
  <1> QED  BY <1>3, <1>4, <1>5, <1>6, <1>7 DEF StartsAnew, Extends, Skipped

LEMMA ReadIsSound ==
  ASSUME NEW s \in Seq(Hash)
  PROVE  ReadOf(s) \in ReadTree /\ ReadSound(ReadOf(s))
  <1> DEFINE N == Len(s)
  <1>1. PICK P : ReadsBy(P, s)
    BY ReadByPrefix
  <1>2. N \in Nat /\ \A k \in 1..N : s[k] \in Hash
    BY LenProperties, ElementOfSeq
  <1>3. /\ P \in [0..N -> ReadTree] /\ P[0] = EmptyTree /\ ReadOf(s) = P[N]
        /\ \A k \in 0..(N - 1) : P[k + 1] = Relink(P[k], s[k + 1])
    BY <1>1 DEF ReadsBy
  <1> HIDE DEF N
  <1> DEFINE T == {k \in 0..N : ReadSound(P[k])}
  <1>4. 0 \in T
    BY <1>2, <1>3, EmptyTreeFields DEF ReadSound
  <1>5. ASSUME NEW k \in 0..(N - 1), k \in T  PROVE  k + 1 \in T
    <2>1. k \in 0..N /\ k + 1 \in 0..N /\ k + 1 \in 1..N
      BY <1>2
    <2> QED  BY <2>1, <1>2, <1>3, <1>5, RelinkSound
  <1> HIDE DEF T
  <1>6. \A k \in 0..N : k \in T
    BY <1>2, <1>4, <1>5, BoundedInduction
  <1>7. N \in 0..N /\ N \in T
    BY <1>2, <1>6
  <1> QED  BY <1>3, <1>7 DEF T

\* The first line of the heaviest blocks of t.
IsHeaviest(t, h) == h \in t.known /\ t.work[h] > 0 /\ \A g \in t.known : t.work[g] <= t.work[h]

FirstHeaviest(t, n) ==
  /\ n \in 1..Len(log) /\ IsHeaviest(t, log[n])
  /\ \A m \in 1..Len(log) : IsHeaviest(t, log[m]) => n <= m

LEMMA HeaviestFound ==
  ASSUME log \in Seq(Hash), NEW t
  PROVE  \/ /\ HeaviestLogged(t) = t.root
            /\ \A n \in 1..Len(log) : ~IsHeaviest(t, log[n])
         \/ \E n : FirstHeaviest(t, n) /\ HeaviestLogged(t) = log[n]
  <1> DEFINE I == {n \in 1..Len(log) : IsHeaviest(t, log[n])}
             best == IF I # {} THEN Min(I) ELSE 0
  <1>1. HeaviestLogged(t) = IF best = 0 THEN t.root ELSE log[best]
    BY DEF HeaviestLogged, SelectInSeq, IsHeaviest
  <1>2. Len(log) \in Nat /\ I \subseteq 1..Len(log)
    BY LenProperties
  <1>3. CASE I = {}
    BY <1>1, <1>3
  <1>4. CASE I # {}
    <2>1. I \in SUBSET Nat
      BY <1>2
    <2> HIDE DEF I
    <2>2. \E m \in I : \A n \in I : m <= n
      BY <1>4, <2>1, LeastNatural
    <2>3. best \in I /\ \A n \in I : best <= n
      BY <1>4, <2>2 DEF Min
    <2> HIDE DEF best
    <2>4. best # 0
      BY <1>2, <2>3
    <2>5. FirstHeaviest(t, best)
      BY <2>3 DEF FirstHeaviest, I
    <2> QED  BY <1>1, <2>4, <2>5
  <1> QED  BY <1>3, <1>4

-----------------------------------------------------------------------------
(* The types are kept.                                                     *)

LEMMA LineTypes ==
  ASSUME FileTypes, NEW b \in Block, WriteLine(b) \/ UNCHANGED log
  PROVE  log' \in Seq(Hash)
  BY AppendProperties DEF FileTypes, WriteLine, Hash

LEMMA ForgottenTypes ==
  ASSUME Forget
  PROVE  MemoryTypes' /\ tip' = Zero /\ stored' = {} /\ cached' = {}
  <1>1. EmptyTree.work \in [Hash -> Nat]
    BY EmptyTreeFields DEF ReadTree
  <1>2. [h \in Hash |-> NoDiff] \in DiffMap
    BY DEF DiffMap
  <1> QED  BY <1>1, <1>2, GenesisGrounded DEF Forget, MemoryTypes

\* What a start puts into memory.
LEMMA LoadedTypes ==
  ASSUME FileTypes, Loadable, LoadStore, ledger' = utxoFile, diffs' = [h \in Hash |-> NoDiff]
  PROVE  MemoryTypes'
  <1>1. storeFile \in SavedStore /\ storeFile.tip \in storeFile.stored
    BY DEF FileTypes, Loadable
  <1>2. diffs' \in DiffMap
    BY DEF DiffMap
  <1> QED  BY <1>1, <1>2 DEF LoadStore, SavedStore, FileTypes, MemoryTypes

LEMMA RebuiltTypes ==
  ASSUME FileTypes, RebuildStore, ledger' = utxoFile, diffs' = [h \in Hash |-> NoDiff]
  PROVE  MemoryTypes'
  <1> DEFINE t == Rebuilt
  <1>1. t \in ReadTree /\ ReadSound(t)
    BY ReadIsSound DEF Rebuilt, ReadOf, FileTypes
  <1>2. diffs' \in DiffMap
    BY DEF DiffMap
  <1>3. /\ stored' = t.known /\ cached' = t.known /\ work' = t.work /\ tip' = HeaviestLogged(t)
        /\ tipWork' = (IF tip' = Zero THEN 0 ELSE t.work[tip'])
        /\ orphans' = {} /\ orphanOrder' = <<>>
    BY DEF RebuildStore
  <1> HIDE DEF t
  <1>4. HeaviestLogged(t) \in t.known \cup {Zero}
    BY <1>1, HeaviestFound DEF FileTypes, ReadSound, FirstHeaviest, IsHeaviest
  <1>5. t.known \subseteq Hash /\ t.work \in [Hash -> Nat]
    BY <1>1 DEF ReadTree
  <1>6. tipWork' \in Nat
    BY <1>3, <1>4, <1>5
  <1> QED  BY <1>2, <1>3, <1>4, <1>5, <1>6 DEF FileTypes, MemoryTypes

LEMMA StartTypes ==
  ASSUME FileTypes, StartNode
  PROVE  MemoryTypes'
  <1>1. ledger' = utxoFile /\ diffs' = [h \in Hash |-> NoDiff]
    BY DEF StartNode
  <1>2. CASE Loadable
    BY <1>1, <1>2, LoadedTypes DEF StartNode
  <1>3. CASE ~Loadable
    BY <1>1, <1>3, RebuiltTypes DEF StartNode
  <1> QED  BY <1>2, <1>3

\* The handlers that a running node may enter, and what they do with the log.
LEMMA ReceiveHandled ==
  ASSUME MemoryTypes, NEW b \in Block, AcceptBlock(b)
  PROVE  Handled(b) /\ (WriteLine(b) \/ UNCHANGED log) /\ UNCHANGED <<utxoFile, storeFile, mode, matched>>
  <1>1. Handled(b)
    BY QuietHandled, ExtendHandled, ReorgHandled DEF AcceptBlock
  <1> QED  BY <1>1 DEF AcceptBlock, WriteIfApplied

LEMMA MineNodeHandled ==
  ASSUME MemoryTypes, NEW b \in Block, MineNode(b)
  PROVE  Handled(b) /\ (WriteLine(b) \/ UNCHANGED log) /\ UNCHANGED <<utxoFile, storeFile, mode, matched>>
  BY MineHandled DEF MineNode, history

LEMMA TypesKept ==
  ASSUME PersistTypes, [PersistNext]_persistVars
  PROVE  PersistTypes'
  <1>1. MemoryTypes /\ FileTypes
    BY TypesSplit
  <1> SUFFICES MemoryTypes' /\ FileTypes'
    BY TypesSplitNext
  <1>2. CASE StartNode
    <2>1. FileTypes'
      BY <1>1, <1>2 DEF StartNode, files, FileTypes
    <2> QED  BY <1>1, <1>2, <2>1, StartTypes
  <1>3. CASE HaltNode
    BY <1>1, <1>3 DEF HaltNode, files, vars, MemoryTypes, FileTypes
  <1>4. CASE Stop
    BY <1>1, <1>4, ForgottenTypes DEF Stop, files, FileTypes
  <1>5. CASE SaveUtxo
    BY <1>1, <1>5 DEF SaveUtxo, vars, MemoryTypes, FileTypes
  <1>6. CASE SaveStore
    <2>1. ChainStore \in SavedStore
      BY DEF PersistTypes
    <2> QED  BY <1>1, <1>6, <2>1 DEF SaveStore, vars, MemoryTypes, FileTypes
  <1>7. CASE StartMiner
    BY <1>1, <1>7 DEF StartMiner, tree, queue, files, MemoryTypes, FileTypes
  <1>8. CASE MinerSave
    BY <1>1, <1>8 DEF MinerSave, vars, MemoryTypes, FileTypes
  <1>9. ASSUME NEW b \in Block, AcceptBlock(b) \/ MineNode(b)  PROVE  MemoryTypes' /\ FileTypes'
    <2>1. Handled(b) /\ (WriteLine(b) \/ UNCHANGED log) /\ UNCHANGED <<utxoFile, storeFile, mode>>
      BY <1>1, <1>9, ReceiveHandled, MineNodeHandled
    <2> QED  BY <1>1, <2>1, HandledTypes, LineTypes DEF Handled, FileTypes
  <1>10. ASSUME NEW b \in Block, MinerMine(b)  PROVE  MemoryTypes' /\ FileTypes'
    <2>1. ApplyBlock(ledger, b) \in Outcome
      BY <1>1, ApplyBlockType DEF MemoryTypes
    <2>2. ledger' \in UtxoSet
      BY <1>10, <2>1 DEF MinerMine, Outcome
    <2>3. log' \in Seq(Hash)
      BY <1>1, <1>10, LineTypes DEF MinerMine
    <2> QED  BY <1>1, <1>10, <2>2, <2>3 DEF MinerMine, tree, queue, MemoryTypes, FileTypes
  <1>11. CASE UNCHANGED persistVars
    BY <1>1, <1>11 DEF persistVars, vars, files, MemoryTypes, FileTypes
  <1> QED  BY <1>2, <1>3, <1>4, <1>5, <1>6, <1>7, <1>8, <1>9, <1>10, <1>11 DEF PersistNext

LEMMA InitTypes ==
  ASSUME PersistInit
  PROVE  PersistTypes
  <1>1. EmptyTree.work \in [Hash -> Nat]
    BY EmptyTreeFields DEF ReadTree
  <1>2. [h \in Hash |-> NoDiff] \in DiffMap
    BY DEF DiffMap
  <1>3. log \in Seq(Hash)
    <2>1. <<>> \in Seq(Hash) /\ <<Genesis>> \in Seq(Hash)
      BY DEF Hash
    <2> QED  BY <2>1, PersistAssumption DEF PersistInit
  <1>4. GenesisLedger \in UtxoSet
    BY GenesisGrounded
  <1>5. MemoryTypes
    BY <1>1, <1>2, <1>4 DEF PersistInit, MemoryTypes
  <1>6. FileTypes
    BY <1>3, <1>4 DEF PersistInit, FileTypes
  <1> QED  BY <1>5, <1>6, TypesSplit

\* The store, the files and the mode have their types, whatever stopped the process
\* before.
THEOREM PersistentTypes == PersistSpec => []PersistTypes
  <1>1. PersistInit => PersistTypes
    BY InitTypes
  <1>2. PersistTypes /\ [PersistNext]_persistVars => PersistTypes'
    BY TypesKept
  <1> QED  BY <1>1, <1>2, PTL DEF PersistSpec

-----------------------------------------------------------------------------
(* A restart loses outputs and invents none.                               *)

\* A ledger within another lacks whatever outputs of it, and has no image besides.
LEMMA WithinIsShort ==
  ASSUME NEW L, NEW M
  PROVE  Within(L, M) <=> Short(L, M, {}, Key)
  BY DEF Within, Short

WithinTip == LedgerGood(ledger, {}, Key)

LEMMA WithinTipFields ==
  /\ WithinTip <=> /\ tip # Zero
                   /\ ReplayOf[tip].ok /\ Within(ledger, ReplayOf[tip].ledger)
                   /\ DiffsReplayed(diffs)
  /\ WithinTip' <=> /\ tip' # Zero
                    /\ ReplayOf[tip'].ok /\ Within(ledger', ReplayOf[tip'].ledger)
                    /\ DiffsReplayed(diffs')
  BY WithinIsShort DEF WithinTip, LedgerGood, Undoable

LEMMA LedgerKept ==
  ASSUME PersistTypes, LedgerWithin, [PersistNext]_persistVars
  PROVE  LedgerWithin'
  <1>1. MemoryTypes /\ (Running /\ matched => WithinTip)
    BY TypesSplit, WithinTipFields DEF LedgerWithin, DiffsReplayed
  <1> SUFFICES ASSUME Running', matched'  PROVE  WithinTip'
    BY WithinTipFields DEF LedgerWithin, DiffsReplayed
  <1>2. CASE StartNode
    <2>1. /\ tip' # Zero /\ ReplayOf[tip'].ok /\ Within(utxoFile, ReplayOf[tip'].ledger)
          /\ ledger' = utxoFile /\ diffs' = [h \in Hash |-> NoDiff]
      BY <1>2 DEF StartNode
    <2> QED  BY <2>1, WithinTipFields DEF DiffsReplayed
  <1>3. CASE HaltNode \/ Stop \/ StartMiner
    BY <1>3 DEF HaltNode, Stop, StartMiner, Running
  <1>4. CASE SaveUtxo \/ SaveStore
    <2>1. UNCHANGED <<tip, ledger, diffs, matched>> /\ Running
      BY <1>4 DEF SaveUtxo, SaveStore, vars, history, Running
    <2> QED  BY <1>1, <2>1, WithinTipFields
  <1>5. CASE MinerSave \/ \E b \in Block : MinerMine(b)
    BY <1>5 DEF MinerSave, MinerMine, Running
  <1>6. ASSUME NEW b \in Block, AcceptBlock(b) \/ MineNode(b)  PROVE  WithinTip'
    <2>1. Handled(b) /\ UNCHANGED <<mode, matched>>
      BY <1>1, <1>6, ReceiveHandled, MineNodeHandled
    <2> QED  BY <1>1, <2>1 DEF Handled, HandledFrom, Falls, WithinTip, Running
  <1>7. CASE UNCHANGED persistVars
    <2>1. UNCHANGED <<tip, ledger, diffs, matched, mode>>
      BY <1>7 DEF persistVars, vars, history
    <2> QED  BY <1>1, <2>1, WithinTipFields DEF Running
  <1> QED  BY <1>2, <1>3, <1>4, <1>5, <1>6, <1>7 DEF PersistNext

\* While every start has found files that belong together, whatever a running node
\* receives, makes and reorganises away, with or without diffs, its ledger has the
\* images and the supply of its chain and no output beyond it (execute_reorg's legacy
\* unwind; UtxoSet::load beside load_chain_store).
THEOREM ARestartLosesOnly == PersistSpec => []RestartLosesOnly
  <1>1. PersistInit => PersistTypes /\ LedgerWithin
    BY InitTypes DEF PersistInit, LedgerWithin, Running
  <1>2. PersistTypes /\ LedgerWithin /\ [PersistNext]_persistVars
          => PersistTypes' /\ LedgerWithin'
    BY TypesKept, LedgerKept
  <1>3. LedgerWithin => RestartLosesOnly
    BY DEF LedgerWithin, RestartLosesOnly
  <1> QED  BY <1>1, <1>2, <1>3, PTL DEF PersistSpec

-----------------------------------------------------------------------------
(* The order of the log.                                                   *)

\* The lines of s before its n-th.
Earlier(s, n) == {s[i] : i \in 1..(n - 1)}

LEMMA EarlierLines ==
  ASSUME NEW s \in Seq(Hash), NEW n \in 1..Len(s)
  PROVE  ToSet(SubSeq(s, 1, n - 1)) = Earlier(s, n) /\ Earlier(s, n) \subseteq ToSet(s)
  <1> DEFINE r == SubSeq(s, 1, n - 1)
  <1>1. Len(s) \in Nat /\ DOMAIN s = 1..Len(s) /\ \A i \in 1..Len(s) : s[i] \in Hash
    BY LenProperties, ElementOfSeq
  <1>2. \A i \in 1..(n - 1) : s[i] \in Hash
    BY <1>1
  <1>3. /\ r \in Seq(Hash) /\ Len(r) = (IF 1 <= n - 1 THEN (n - 1) - 1 + 1 ELSE 0)
        /\ \A i \in 1..((n - 1) - 1 + 1) : r[i] = s[1 + i - 1]
    BY <1>1, <1>2, SubSeqProperties
  <1> HIDE DEF r
  <1>4. Len(r) = n - 1 /\ \A i \in 1..(n - 1) : r[i] = s[i]
    BY <1>1, <1>3
  <1>5. DOMAIN r = 1..(n - 1)
    BY <1>3, <1>4, LenProperties
  <1>6. ToSet(r) = Earlier(s, n)
    BY <1>4, <1>5 DEF ToSet, Earlier
  <1>7. \A i \in 1..(n - 1) : i \in DOMAIN s
    BY <1>1
  <1> QED  BY <1>6, <1>7 DEF r, ToSet, Earlier

OrderedLog(s) ==
  \A n \in 1..Len(s) :
    /\ HeightOf(s[n]) = 0 => n = 1
    /\ s[n] \in Own => Parent[s[n]] \in Earlier(s, n) \cup {Zero}

LEMMA LogOrderedIs ==
  ASSUME log \in Seq(Hash)
  PROVE  LogOrdered <=> OrderedLog(log)
  BY EarlierLines DEF LogOrdered, OrderedLog, Before

LEMMA LogOrderedNext ==
  ASSUME log' \in Seq(Hash)
  PROVE  LogOrdered' <=> OrderedLog(log')
  BY EarlierLines DEF LogOrdered, OrderedLog, Before

LEMMA LineAppended ==
  ASSUME NEW s \in Seq(Hash), NEW b \in Hash
  PROVE  /\ Append(s, b) \in Seq(Hash) /\ Len(Append(s, b)) = Len(s) + 1
         /\ \A i \in 1..Len(s) : Append(s, b)[i] = s[i]
         /\ Append(s, b)[Len(s) + 1] = b
         /\ ToSet(Append(s, b)) = ToSet(s) \cup {b}
         /\ \A n \in 1..Len(s) : Earlier(Append(s, b), n) = Earlier(s, n)
         /\ Earlier(Append(s, b), Len(s) + 1) = ToSet(s)
  <1> DEFINE r == Append(s, b)
             N == Len(s)
  <1>1. /\ N \in Nat /\ DOMAIN s = 1..N
        /\ r \in Seq(Hash) /\ Len(r) = N + 1 /\ \A i \in 1..N : r[i] = s[i]
        /\ r[N + 1] = b
    BY LenProperties, AppendProperties
  <1> HIDE DEF r, N
  <1>2. DOMAIN r = 1..(N + 1)
    BY <1>1, LenProperties
  <1>3. 1..(N + 1) = (1..N) \cup {N + 1} /\ (N + 1) - 1 = N
    BY <1>1
  <1>4. ToSet(r) = ToSet(s) \cup {b}
    BY <1>1, <1>2, <1>3 DEF ToSet
  <1>5. ASSUME NEW n \in 1..N  PROVE  Earlier(r, n) = Earlier(s, n)
    <2>1. \A i \in 1..(n - 1) : i \in 1..N
      BY <1>1
    <2> QED  BY <2>1, <1>1 DEF Earlier
  <1>6. Earlier(r, N + 1) = ToSet(s)
    BY <1>1, <1>3 DEF Earlier, ToSet
  <1> QED  BY <1>1, <1>4, <1>5, <1>6 DEF r, N

\* A line keeps the order if it is the first, or of a block above height 0, and has its
\* parent's before it if it is one of our own.
LEMMA OrderKept ==
  ASSUME NEW s \in Seq(Hash), OrderedLog(s), NEW b \in Hash,
         HeightOf(b) = 0 => Len(s) = 0,
         b \in Own => b \in ToSet(s) \/ Parent[b] \in ToSet(s) \cup {Zero}
  PROVE  OrderedLog(Append(s, b))
  <1> DEFINE r == Append(s, b)
             N == Len(s)
  <1>1. /\ N \in Nat /\ DOMAIN s = 1..N
        /\ Len(r) = N + 1 /\ \A i \in 1..N : r[i] = s[i]
        /\ r[N + 1] = b
        /\ \A n \in 1..N : Earlier(r, n) = Earlier(s, n)
        /\ Earlier(r, N + 1) = ToSet(s)
    BY LenProperties, LineAppended
  <1>2. b \in Own => Parent[b] \in ToSet(s) \cup {Zero}
    <2> SUFFICES ASSUME b \in Own, b \in ToSet(s)  PROVE  Parent[b] \in ToSet(s) \cup {Zero}
      OBVIOUS
    <2>1. PICK n \in 1..N : s[n] = b
      BY <1>1 DEF ToSet
    <2> QED  BY <2>1, EarlierLines DEF OrderedLog
  <1> HIDE DEF r, N
  <1>3. ASSUME NEW n \in 1..(N + 1)
        PROVE  /\ HeightOf(r[n]) = 0 => n = 1
               /\ r[n] \in Own => Parent[r[n]] \in Earlier(r, n) \cup {Zero}
    <2>1. CASE n \in 1..N
      BY <2>1, <1>1 DEF OrderedLog, N
    <2>2. CASE n = N + 1
      <3>1. HeightOf(b) = 0 => N + 1 = 1
        BY <1>1 DEF N
      <3> QED  BY <2>2, <3>1, <1>1, <1>2
    <2> QED  BY <2>1, <2>2, <1>1
  <1> QED  BY <1>1, <1>3 DEF OrderedLog, r

-----------------------------------------------------------------------------
(* Trees.                                                                  *)

ClosedTree(S, w) ==
  \A h \in S :
    /\ Parent[h] \in S \cup {Zero}
    /\ w[h] = Weight[h] + (IF Parent[h] = Zero THEN 0 ELSE w[Parent[h]])
    /\ Parent[h] = Zero => HeightOf(h) = 0

\* A tree with its tip and the tip's work, given the blocks of the log and those refused.
GoodTreeOf(S, w, h, x, logged, out) ==
  /\ ClosedTree(S, w)
  /\ h \in (S \cap logged) \cup {Zero}
  /\ x = IF h = Zero THEN 0 ELSE w[h]
  /\ PathFrom[h] \subseteq logged \cup out

TreeGood == GoodTreeOf(stored, work, tip, tipWork, Logged, refused)

FileGood ==
  storeFile # NoFile =>
    GoodTreeOf(storeFile.stored, storeFile.work, storeFile.tip, storeFile.tipWork, Logged, refused)

LEMMA TreesSplit ==
  TreesSound <=> LogOrdered /\ TreeGood /\ FileGood /\ CacheLogged
  <1>1. /\ ChainStore.stored = stored /\ ChainStore.work = work /\ ChainStore.tip = tip
        /\ ChainStore.tipWork = tipWork
    BY DEF ChainStore
  <1>2. GoodTree(ChainStore) <=> TreeGood
    BY <1>1 DEF GoodTree, TreeGood, GoodTreeOf, ClosedTree
  <1>3. (storeFile # NoFile => GoodTree(storeFile)) <=> FileGood
    BY DEF GoodTree, FileGood, GoodTreeOf, ClosedTree
  <1> QED  BY <1>2, <1>3 DEF TreesSound

LEMMA TreesSplitNext ==
  TreesSound' <=> LogOrdered' /\ TreeGood' /\ FileGood' /\ CacheLogged'
  <1>1. /\ ChainStore'.stored = stored' /\ ChainStore'.work = work' /\ ChainStore'.tip = tip'
        /\ ChainStore'.tipWork = tipWork'
    BY DEF ChainStore
  <1>2. GoodTree(ChainStore)' <=> TreeGood'
    BY <1>1 DEF GoodTree, TreeGood, GoodTreeOf, ClosedTree
  <1>3. (storeFile # NoFile => GoodTree(storeFile))' <=> FileGood'
    BY DEF GoodTree, FileGood, GoodTreeOf, ClosedTree
  <1> QED  BY <1>2, <1>3 DEF TreesSound

LEMMA GoodTreeGrows ==
  ASSUME NEW S, NEW w, NEW h, NEW x, NEW lg, NEW out, GoodTreeOf(S, w, h, x, lg, out),
         NEW lh, lg \subseteq lh, NEW o, out \subseteq o
  PROVE  GoodTreeOf(S, w, h, x, lh, o)
  BY DEF GoodTreeOf

LEMMA ClosedTreeGrows ==
  ASSUME MemoryTypes, ClosedTree(stored, work), NEW b \in Block, CanAdd(b), AddBlock(b)
  PROVE  /\ ClosedTree(stored', work')
         /\ stored' = stored \cup {b} /\ cached' = cached \cup {b}
         /\ work'[b] = WorkOver(b)
         /\ \A g \in stored : work'[g] = work[g]
  <1> DEFINE w == WorkOver(b)
  <1>1. /\ stored \subseteq Hash /\ work \in [Hash -> Nat] /\ Zero \notin Hash /\ b \in Hash
        /\ Weight \in [Hash -> Nat] /\ b \notin stored
        /\ Parent[b] \in stored \cup {Zero} /\ (Parent[b] = Zero => HeightOf(b) = 0)
    BY TreeAssumption DEF MemoryTypes, CanAdd, Hash
  <1>2. stored' = stored \cup {b} /\ cached' = cached \cup {b} /\ work' = [work EXCEPT ![b] = w]
    BY DEF AddBlock
  <1>3. w = Weight[b] + (IF Parent[b] = Zero THEN 0 ELSE work[Parent[b]])
    <2>1. CASE Parent[b] = Zero
      BY <2>1, <1>1 DEF WorkOver
    <2>2. CASE Parent[b] # Zero
      <3>1. work[Parent[b]] \in Nat /\ Weight[b] \in Nat
        BY <2>2, <1>1
      <3> QED  BY <2>2, <3>1, <1>1 DEF WorkOver
    <2> QED  BY <2>1, <2>2
  <1> HIDE DEF w
  <1>4. work'[b] = w /\ \A g \in Hash : g # b => work'[g] = work[g]
    BY <1>1, <1>2
  <1>5. \A g \in stored : g # b /\ work'[g] = work[g]
    BY <1>1, <1>4
  <1>6. ASSUME NEW g \in stored'
        PROVE  /\ Parent[g] \in stored' \cup {Zero}
               /\ work'[g] = Weight[g] + (IF Parent[g] = Zero THEN 0 ELSE work'[Parent[g]])
               /\ Parent[g] = Zero => HeightOf(g) = 0
    <2>1. Parent[g] \in stored \cup {Zero} /\ (Parent[g] = Zero => HeightOf(g) = 0)
      BY <1>1, <1>2 DEF ClosedTree
    <2>2. Parent[g] # Zero => work'[Parent[g]] = work[Parent[g]]
      BY <2>1, <1>5
    <2>3. CASE g = b
      BY <2>1, <2>2, <2>3, <1>2, <1>3, <1>4
    <2>4. CASE g # b
      <3>1. g \in stored
        BY <2>4, <1>2
      <3>2. work'[g] = work[g]
            /\ work[g] = Weight[g] + (IF Parent[g] = Zero THEN 0 ELSE work[Parent[g]])
        BY <3>1, <1>5 DEF ClosedTree
      <3> QED  BY <2>1, <2>2, <3>2, <1>2
    <2> QED  BY <2>3, <2>4
  <1> QED  BY <1>2, <1>4, <1>5, <1>6 DEF ClosedTree, w

\* What becomes of the block a handler had: it gets a line, or is refused, or is a root
\* or not in the tree at all; without a line the tip stays.
Lines(b) ==
  \/ /\ WriteLine(b) /\ UNCHANGED refused
     /\ HeightOf(b) > 0 /\ (b \in Own => b \in Logged \/ Parent[b] = tip)
  \/ /\ UNCHANGED <<log, tip>>
     /\ \/ UNCHANGED refused /\ (UNCHANGED tree \/ Parent[b] = Zero)
        \/ refused' = refused \cup {b} /\ Parent[b] # Zero

LEMMA ReceiveLines ==
  ASSUME RootsAtZero, MemoryTypes, NEW b \in Block, AcceptBlock(b)
  PROVE  Handled(b) /\ Lines(b) /\ UNCHANGED storeFile
  <1>1. Handled(b) /\ UNCHANGED storeFile /\ (b \in Own => b \in Logged) /\ b # Zero
    BY ReceiveHandled, TreeAssumption DEF AcceptBlock, Reaches, Hash
  <1>2. Connects(b) => HeightOf(b) > 0 /\ Parent[b] # Zero /\ b \notin stored
    BY Heights, TreeAssumption
       DEF Connects, ParentKnown, CanAdd, MemoryTypes, RootsAtZero, Hash
  <1>3. CASE (QueueOrphan(b) \/ Sidechain(b)) /\ WriteLine(b) /\ UNCHANGED refused
    BY <1>1, <1>2, <1>3 DEF QueueOrphan, Sidechain, Lines
  <1>4. CASE RejectGenesis(b) /\ UNCHANGED <<log, refused>>
    <2>1. UNCHANGED tip /\ CanAdd(b) /\ HeightOf(b) = 0
      BY <1>4 DEF RejectGenesis, chain
    <2>2. Parent[b] = Zero
      BY <2>1, Heights DEF RootsAtZero
    <2> QED  BY <1>1, <1>4, <2>1, <2>2 DEF Lines
  <1>5. CASE (ExtendCanonical(b) \/ ReorgToNew(b)) /\ WriteIfApplied(b)
    <2>1. HeightOf(b) > 0 /\ Parent[b] # Zero /\ b \notin stored
      BY <1>2, <1>5 DEF ExtendCanonical, ReorgToNew
    <2>2. CASE tip' = b
      BY <1>1, <1>5, <2>1, <2>2 DEF WriteIfApplied, Lines
    <2>3. CASE tip' # b
      <3>1. UNCHANGED tip
        BY <1>1, <2>3 DEF Handled, HandledFrom, MovesTip, SetChainTip
      <3> QED  BY <1>1, <1>5, <2>1, <2>3, <3>1 DEF WriteIfApplied, Lines
    <2> QED  BY <2>2, <2>3
  <1> QED  BY <1>3, <1>4, <1>5 DEF AcceptBlock

LEMMA MineNodeLines ==
  ASSUME MemoryTypes, NEW b \in Block, MineNode(b)
  PROVE  Handled(b) /\ Lines(b) /\ UNCHANGED storeFile
  <1> DEFINE r == ApplyBlock(ledger, b)
  <1>1. Handled(b) /\ UNCHANGED storeFile
    BY MineNodeHandled
  <1>2. /\ Parent[b] = tip /\ HeightOf(b) = HeightOf(tip) + 1
        /\ IF r.ok /\ CanAdd(b) THEN AddBlock(b) /\ SetChainTip(b)
                                ELSE UNCHANGED <<tree, tip>>
        /\ IF r.ok THEN WriteLine(b) ELSE UNCHANGED log
        /\ UNCHANGED refused
    BY DEF MineNode, MineBlock, Mine, history
  <1> HIDE DEF r
  <1>3. HeightOf(b) > 0
    BY <1>2, Heights DEF MemoryTypes, Hash
  <1>4. CASE r.ok
    BY <1>1, <1>2, <1>3, <1>4 DEF Lines
  <1>5. CASE ~r.ok
    BY <1>1, <1>2, <1>5 DEF Lines
  <1> QED  BY <1>4, <1>5

\* The order of the log is kept.
LEMMA LinesOrdered ==
  ASSUME MemoryTypes, FileTypes, TreesSound, NEW b \in Block, Lines(b)
  PROVE  /\ OrderedLog(log')
         /\ log' \in Seq(Hash)
         /\ Logged' = Logged \/ (Logged' = Logged \cup {b} /\ log' = Append(log, b))
  <1>1. log \in Seq(Hash) /\ OrderedLog(log) /\ b \in Hash /\ tip \in Logged \cup {Zero}
    BY TreesSplit, LogOrderedIs DEF FileTypes, Hash, TreeGood, GoodTreeOf
  <1>2. CASE UNCHANGED log
    BY <1>1, <1>2 DEF Logged
  <1>3. CASE WriteLine(b) /\ HeightOf(b) > 0 /\ (b \in Own => b \in Logged \/ Parent[b] = tip)
    <2>1. log' = Append(log, b)
      BY <1>3 DEF WriteLine
    <2>2. ToSet(log') = ToSet(log) \cup {b} /\ log' \in Seq(Hash)
      BY <1>1, <2>1, LineAppended
    <2>3. OrderedLog(Append(log, b))
      BY <1>1, <1>3, OrderKept DEF Logged
    <2> QED  BY <2>1, <2>2, <2>3 DEF Logged
  <1> QED  BY <1>2, <1>3 DEF Lines

LEMMA TreesHandled ==
  ASSUME MemoryTypes, FileTypes, TreesSound, NEW b \in Block, Handled(b), Lines(b),
         UNCHANGED storeFile
  PROVE  TreesSound'
  <1>1. LogOrdered /\ TreeGood /\ FileGood /\ CacheLogged
    BY TreesSplit
  <1>2. /\ b \in Hash /\ b # Zero /\ stored \subseteq Hash /\ cached \subseteq stored
        /\ Zero \notin Hash /\ tip \in stored \cup {Zero}
    BY TreeAssumption DEF MemoryTypes, Hash
  <1>3. /\ OrderedLog(log') /\ log' \in Seq(Hash)
        /\ Logged \subseteq Logged' /\ Logged' \subseteq Logged \cup {b}
    BY LinesOrdered
  <1>4. LogOrdered'
    BY <1>3, LogOrderedNext
  <1>5. refused \subseteq refused' /\ refused' \subseteq refused \cup {b}
        /\ (b \in refused' \ refused => Parent[b] # Zero)
    BY DEF Lines
  <1>6. FileGood'
    BY <1>1, <1>3, <1>5, GoodTreeGrows DEF FileGood
  <1>7. GoodTreeOf(stored, work, tip, tipWork, Logged', refused')
    BY <1>1, <1>3, <1>5, GoodTreeGrows DEF TreeGood
  <1>8. /\ ClosedTree(stored', work') /\ stored \subseteq stored' /\ stored' \subseteq stored \cup {b}
        /\ cached \subseteq cached' /\ cached' \subseteq cached \cup {b}
        /\ \A g \in stored : work'[g] = work[g]
        /\ (b \in cached' \ cached => b \in Logged' \cup refused' \/ Parent[b] = Zero)
    <2>1. CASE UNCHANGED tree
      <3>1. UNCHANGED <<stored, cached, work>>
        BY <2>1 DEF tree
      <3> QED  BY <3>1, <1>7 DEF GoodTreeOf
    <2>2. CASE CanAdd(b) /\ AddBlock(b)
      <3>1. ClosedTree(stored, work) /\ b \notin stored
        BY <2>2, <1>7 DEF GoodTreeOf, CanAdd
      <3>2. /\ ClosedTree(stored', work') /\ stored' = stored \cup {b} /\ cached' = cached \cup {b}
            /\ \A g \in stored : work'[g] = work[g]
        BY <2>2, <3>1, ClosedTreeGrows
      <3>3. b \in Logged' \cup refused' \/ Parent[b] = Zero
        <4>1. ~UNCHANGED tree
          BY <3>1, <3>2 DEF tree
        <4>2. WriteLine(b) => b \in Logged'
          BY <1>2, LineAppended DEF WriteLine, Logged, FileTypes
        <4> QED  BY <4>1, <4>2 DEF Lines
      <3> QED  BY <3>2, <3>3
    <2> QED  BY <2>1, <2>2 DEF Handled, HandledFrom
  <1>9. \A h \in cached' : h \in Logged' \cup refused' \/ Parent[h] = Zero
    BY <1>1, <1>3, <1>5, <1>8 DEF CacheLogged
  <1>10. \A h \in refused' : h \in Hash /\ Parent[h] # Zero
    BY <1>1, <1>2, <1>5 DEF CacheLogged
  <1>11. CASE UNCHANGED <<tip, tipWork>>
    <2>1. TreeGood'
      <3>1. tip # Zero => work'[tip] = work[tip]
        BY <1>2, <1>8
      <3> QED  BY <1>7, <1>8, <1>11, <3>1 DEF TreeGood, GoodTreeOf
    <2>2. CacheLogged'
      BY <1>1, <1>5, <1>8, <1>9, <1>10, <1>11 DEF CacheLogged, Canonical
    <2> QED  BY <1>4, <1>6, <2>1, <2>2, TreesSplitNext
  <1>12. CASE MovesTip(b)
    <2>1. tip' = b /\ tipWork' = work'[b] /\ b \notin stored /\ stored' = stored \cup {b}
          /\ cached' = cached \cup {b} /\ tip # Zero /\ tip \in Hash
      BY <1>2, <1>12 DEF MovesTip, SetChainTip, CanAdd, AddBlock
    <2>2. b \in Logged'
      <3>1. tip' # tip
        BY <1>2, <2>1
      <3>2. WriteLine(b)
        BY <3>1 DEF Lines
      <3> QED  BY <3>2, <1>2, LineAppended DEF WriteLine, Logged, FileTypes
    <2>3. PathFrom[b] = {b} \cup PathFrom[Parent[b]] /\ PathFrom[b] \subseteq Hash
      BY <1>2, PathEquation
    <2>4. PathFrom[b] \ PathFrom[tip] \subseteq cached \cup {b}
      BY <1>12, <2>3 DEF MovesTip
    <2>5. ASSUME NEW g \in PathFrom[b] \ PathFrom[tip]  PROVE  g \in Logged' \cup refused'
      <3>1. CASE g = b
        BY <3>1, <2>2
      <3>2. CASE g # b
        <4>1. g \in cached' /\ g \in Hash
          BY <3>2, <2>3, <2>4, <1>8
        <4>2. Parent[g] # Zero
          <5> SUFFICES ASSUME Parent[g] = Zero  PROVE  FALSE
            OBVIOUS
          <5>1. Parent[b] # tip
            BY <3>2, <2>3
          <5>2. PICK x : x \in PathFrom[b] /\ x \in PathFrom[tip]
            BY <1>12, <5>1 DEF MovesTip
          <5>3. g \in PathFrom[x]
            BY <1>2, <5>2, RootShared
          <5>4. PathFrom[x] \subseteq PathFrom[tip]
            BY <2>1, <5>2, PathFacts
          <5> QED  BY <5>3, <5>4
        <4> QED  BY <4>1, <4>2, <1>9
      <3> QED  BY <3>1, <3>2
    <2>6. PathFrom[tip] \subseteq Logged' \cup refused'
      BY <1>7 DEF GoodTreeOf
    <2>7. PathFrom[b] \subseteq Logged' \cup refused'
      BY <2>5, <2>6
    <2>8. TreeGood'
      BY <1>2, <1>8, <2>1, <2>2, <2>7 DEF TreeGood, GoodTreeOf
    <2>9. PathFrom[b] \subseteq cached' \cup refused'
      BY <1>1, <1>5, <2>1, <2>4 DEF CacheLogged, Canonical
    <2>10. CacheLogged'
      BY <1>9, <1>10, <2>1, <2>9 DEF CacheLogged, Canonical
    <2> QED  BY <1>4, <1>6, <2>8, <2>10, TreesSplitNext
  <1> QED  BY <1>11, <1>12 DEF Handled, HandledFrom

\* What is read is in the log.
LEMMA ReadFromLog ==
  ASSUME NEW s \in Seq(Hash)
  PROVE  ReadOf(s).known \subseteq ToSet(s)
  <1> DEFINE N == Len(s)
  <1>1. PICK P : ReadsBy(P, s)
    BY ReadByPrefix
  <1>2. N \in Nat /\ DOMAIN s = 1..N /\ \A k \in 1..N : s[k] \in Hash
    BY LenProperties, ElementOfSeq
  <1>3. /\ P \in [0..N -> ReadTree] /\ P[0] = EmptyTree /\ ReadOf(s) = P[N]
        /\ \A k \in 0..(N - 1) : P[k + 1] = Relink(P[k], s[k + 1])
    BY <1>1 DEF ReadsBy
  <1> HIDE DEF N
  <1> DEFINE T == {k \in 0..N : P[k].known \subseteq ToSet(s)}
  <1>4. 0 \in T
    BY <1>2, <1>3, EmptyTreeFields
  <1>5. ASSUME NEW k \in 0..(N - 1), k \in T  PROVE  k + 1 \in T
    <2>1. k \in 0..N /\ k + 1 \in 0..N /\ k + 1 \in 1..N
      BY <1>2
    <2>2. s[k + 1] \in ToSet(s) /\ s[k + 1] \in Hash /\ HeightOf(s[k + 1]) \in Nat
      BY <1>2, <2>1, Heights DEF ToSet
    <2>3. P[k] \in ReadTree /\ P[k].known \subseteq ToSet(s)
      BY <1>3, <1>5, <2>1
    <2>4. Relinked(P[k + 1], P[k], s[k + 1])
      BY <1>3, <2>1, <2>2, <2>3, RelinkFields
    <2>5. P[k + 1].known \subseteq P[k].known \cup {s[k + 1]}
      BY <2>2, <2>4 DEF Relinked, StartsAnew, Extends, Skipped
    <2> QED  BY <2>1, <2>2, <2>3, <2>5
  <1> HIDE DEF T
  <1>6. \A k \in 0..N : k \in T
    BY <1>2, <1>4, <1>5, BoundedInduction
  <1>7. N \in 0..N /\ N \in T
    BY <1>2, <1>6
  <1> QED  BY <1>3, <1>7 DEF T

\* A start gives a tree as sound as the file, or as the log.
LEMMA StartTrees ==
  ASSUME RootsAtZero, FileTypes, TreesSound, StartNode
  PROVE  TreesSound'
  <1>1. LogOrdered /\ FileGood /\ CacheLogged
    BY TreesSplit
  <1>2. UNCHANGED <<log, storeFile>> /\ refused' = refused \cap stored' /\ Logged' = Logged
    BY DEF StartNode, files, Logged
  <1>3. LogOrdered'
    BY <1>1, <1>2 DEF LogOrdered, Before
  <1>4. \A h \in refused' : h \in Hash /\ Parent[h] # Zero
    BY <1>1, <1>2 DEF CacheLogged
  <1>5. CASE Loadable
    <2>1. /\ stored' = storeFile.stored /\ cached' = storeFile.stored \cap Logged
          /\ work' = storeFile.work /\ tip' = storeFile.tip /\ tipWork' = storeFile.tipWork
      BY <1>5 DEF StartNode, LoadStore
    <2>2. /\ storeFile # NoFile /\ storeFile.stored \subseteq Hash /\ tip' \in stored'
          /\ GoodTreeOf(stored', work', tip', tipWork', Logged, refused)
      BY <1>1, <1>5, <2>1 DEF Loadable, FileGood, FileTypes, SavedStore
    <2>3. PathFrom[tip'] \subseteq stored'
      BY <2>1, <2>2, PathWithin DEF GoodTreeOf, ClosedTree
    <2>4. GoodTreeOf(stored', work', tip', tipWork', Logged, refused')
      BY <1>2, <2>2, <2>3 DEF GoodTreeOf
    <2>5. TreeGood' /\ FileGood'
      BY <1>2, <2>1, <2>4 DEF TreeGood, FileGood
    <2>6. PathFrom[tip'] \subseteq cached' \cup refused'
      BY <1>2, <2>1, <2>3, <2>4 DEF GoodTreeOf
    <2>7. CacheLogged'
      BY <1>2, <1>4, <2>1, <2>6 DEF CacheLogged, Canonical
    <2> QED  BY <1>3, <2>5, <2>7, TreesSplitNext
  <1>6. CASE ~Loadable
    <2> DEFINE t == Rebuilt
    <2>1. t = ReadOf(log)
      BY DEF Rebuilt, ReadOf
    <2>2. t \in ReadTree /\ ReadSound(t) /\ t.known \subseteq Logged
      BY <2>1, ReadIsSound, ReadFromLog DEF FileTypes, Logged
    <2>3. /\ stored' = t.known /\ cached' = t.known /\ work' = t.work /\ tip' = HeaviestLogged(t)
          /\ tipWork' = (IF tip' = Zero THEN 0 ELSE t.work[tip'])
      BY <1>6 DEF StartNode, RebuildStore
    <2> HIDE DEF t
    <2>4. tip' \in t.known \cup {Zero} /\ t.known \subseteq Hash
      BY <2>2, <2>3, HeaviestFound DEF FileTypes, ReadSound, FirstHeaviest, IsHeaviest, ReadTree
    <2>5. ClosedTree(t.known, t.work)
      BY <2>2 DEF ReadSound, ClosedTree
    <2>6. PathFrom[tip'] \subseteq t.known
      BY <2>4, <2>5, PathWithin, PathEquation DEF ClosedTree
    <2>7. TreeGood'
      BY <1>2, <2>2, <2>3, <2>4, <2>5, <2>6 DEF TreeGood, GoodTreeOf
    <2>8. FileGood'
      <3>1. storeFile # NoFile => storeFile.tip = Zero
        BY <1>1, <1>6 DEF Loadable, FileGood, GoodTreeOf
      <3>2. PathFrom[Zero] = {}
        BY PathEquation
      <3> QED  BY <1>1, <1>2, <3>1, <3>2 DEF FileGood, GoodTreeOf
    <2>9. CacheLogged'
      BY <1>2, <1>4, <2>2, <2>3, <2>6 DEF CacheLogged, Canonical
    <2> QED  BY <1>3, <2>7, <2>8, <2>9, TreesSplitNext
  <1> QED  BY <1>5, <1>6

\* The stand-alone miner's lines.
LEMMA MinerTrees ==
  ASSUME FileTypes, TreesSound, NEW b \in Block, MinerMine(b)
  PROVE  TreesSound'
  <1>1. LogOrdered /\ TreeGood /\ FileGood /\ CacheLogged
    BY TreesSplit
  <1>2. log \in Seq(Hash) /\ b \in Hash /\ Len(log) \in Nat /\ DOMAIN log = 1..Len(log)
    BY LenProperties DEF FileTypes, Hash
  <1>3. /\ log' = Append(log, b) /\ HeightOf(b) \in Counts
        /\ Parent[b] = (IF log = <<>> THEN Zero ELSE Last(log))
        /\ UNCHANGED <<stored, cached, work, tip, tipWork, storeFile, refused>>
    BY DEF MinerMine, WriteLine, tree, history
  <1>4. Parent[b] \in ToSet(log) \cup {Zero}
    <2>1. log # <<>> => Len(log) \in 1..Len(log)
      BY <1>2, EmptySeq
    <2> QED  BY <1>2, <1>3, <2>1 DEF Last, ToSet
  <1>5. OrderedLog(log') /\ log' \in Seq(Hash) /\ Logged' = Logged \cup {b}
    <2>1. OrderedLog(log)
      BY <1>1, <1>2, LogOrderedIs
    <2>2. HeightOf(b) = 0 => Len(log) = 0
      BY <1>2, <1>3, PersistAssumption DEF Counts
    <2> QED  BY <1>2, <1>3, <1>4, <2>1, <2>2, OrderKept, LineAppended DEF Logged
  <1>6. LogOrdered'
    BY <1>5, LogOrderedNext
  <1>7. Logged \subseteq Logged' /\ refused' = refused
    BY <1>3, <1>5
  <1>8. TreeGood'
    BY <1>1, <1>3, <1>7, GoodTreeGrows DEF TreeGood
  <1>9. FileGood'
    BY <1>1, <1>3, <1>7, GoodTreeGrows DEF FileGood
  <1>10. CacheLogged'
    BY <1>1, <1>3, <1>7 DEF CacheLogged, Canonical
  <1> QED  BY <1>6, <1>8, <1>9, <1>10, TreesSplitNext

LEMMA TreesUnchanged ==
  ASSUME TreesSound, UNCHANGED <<log, storeFile, stored, cached, work, tip, tipWork, refused>>
  PROVE  TreesSound'
  <1>1. LogOrdered /\ TreeGood /\ FileGood /\ CacheLogged
    BY TreesSplit
  <1>2. Logged' = Logged
    BY DEF Logged
  <1>3. LogOrdered' /\ TreeGood' /\ FileGood' /\ CacheLogged'
    BY <1>1, <1>2 DEF LogOrdered, Before, TreeGood, FileGood, CacheLogged, Canonical
  <1> QED  BY <1>3, TreesSplitNext

LEMMA TreesKept ==
  ASSUME RootsAtZero, PersistTypes, TreesSound, [PersistNext]_persistVars
  PROVE  TreesSound'
  <1>1. MemoryTypes /\ FileTypes
    BY TypesSplit
  <1>2. CASE StartNode
    BY <1>1, <1>2, StartTrees
  <1>3. CASE HaltNode \/ SaveUtxo \/ MinerSave \/ UNCHANGED persistVars
    <2>1. UNCHANGED <<log, storeFile, stored, cached, work, tip, tipWork, refused>>
      BY <1>3 DEF HaltNode, SaveUtxo, MinerSave, persistVars, vars, files, history
    <2> QED  BY <2>1, TreesUnchanged
  <1>4. CASE StartMiner
    <2>1. UNCHANGED <<log, storeFile, stored, cached, work, tip, tipWork, refused>>
      BY <1>4 DEF StartMiner, tree, files, history
    <2> QED  BY <2>1, TreesUnchanged
  <1>5. CASE Stop
    <2>1. LogOrdered /\ FileGood /\ CacheLogged
      BY TreesSplit
    <2>2. /\ UNCHANGED <<log, storeFile, refused>> /\ Logged' = Logged
          /\ stored' = {} /\ cached' = {} /\ tip' = Zero /\ tipWork' = 0
      BY <1>5 DEF Stop, Forget, files, history, Logged
    <2>3. PathFrom[Zero] = {}
      BY PathEquation
    <2>4. TreeGood'
      BY <2>2, <2>3 DEF TreeGood, GoodTreeOf, ClosedTree
    <2>5. LogOrdered' /\ FileGood' /\ CacheLogged'
      BY <2>1, <2>2, <2>3 DEF LogOrdered, Before, FileGood, CacheLogged, Canonical
    <2> QED  BY <2>4, <2>5, TreesSplitNext
  <1>6. CASE SaveStore
    <2>1. LogOrdered /\ TreeGood /\ CacheLogged
      BY TreesSplit
    <2>2. /\ UNCHANGED <<log, stored, cached, work, tip, tipWork, refused>> /\ Logged' = Logged
          /\ storeFile'.stored = stored /\ storeFile'.work = work /\ storeFile'.tip = tip
          /\ storeFile'.tipWork = tipWork
      BY <1>6 DEF SaveStore, ChainStore, vars, history, Logged
    <2>3. LogOrdered' /\ TreeGood' /\ FileGood' /\ CacheLogged'
      BY <2>1, <2>2 DEF LogOrdered, Before, TreeGood, FileGood, CacheLogged, Canonical
    <2> QED  BY <2>3, TreesSplitNext
  <1>7. ASSUME NEW b \in Block, AcceptBlock(b) \/ MineNode(b)  PROVE  TreesSound'
    <2>1. Handled(b) /\ Lines(b) /\ UNCHANGED storeFile
      BY <1>1, <1>7, ReceiveLines, MineNodeLines
    <2> QED  BY <1>1, <2>1, TreesHandled
  <1>8. ASSUME NEW b \in Block, MinerMine(b)  PROVE  TreesSound'
    BY <1>1, <1>8, MinerTrees
  <1> QED  BY <1>2, <1>3, <1>4, <1>5, <1>6, <1>7, <1>8 DEF PersistNext

LEMMA InitTrees ==
  ASSUME PersistInit
  PROVE  TreesSound
  <1>1. log \in {<<>>, <<Genesis>>} /\ Genesis \notin Own /\ Genesis \in Hash
    BY PersistAssumption, TreeAssumption DEF PersistInit, Hash
  <1>2. log \in Seq(Hash) /\ OrderedLog(log)
    <2>1. CASE log = <<>>
      BY <2>1 DEF OrderedLog
    <2>2. CASE log = <<Genesis>>
      <3>1. log \in Seq(Hash) /\ Len(log) = 1 /\ log[1] = Genesis
        BY <1>1, <2>2
      <3>2. \A n \in 1..1 : n = 1
        OBVIOUS
      <3> QED  BY <1>1, <3>1, <3>2 DEF OrderedLog
    <2> QED  BY <1>1, <2>1, <2>2
  <1>3. /\ stored = {} /\ cached = {} /\ tip = Zero /\ tipWork = 0 /\ storeFile = NoFile
        /\ refused = {}
    BY DEF PersistInit
  <1>4. PathFrom[Zero] = {}
    BY PathEquation
  <1>5. TreeGood /\ FileGood /\ CacheLogged
    BY <1>3, <1>4 DEF TreeGood, GoodTreeOf, ClosedTree, FileGood, CacheLogged, Canonical
  <1> QED  BY <1>2, <1>5, LogOrderedIs, TreesSplit

-----------------------------------------------------------------------------
(* What the trees give.                                                    *)

LEMMA TreesInductive ==
  ASSUME RootsAtZero
  PROVE  PersistSpec => [](PersistTypes /\ TreesSound)
  <1>1. PersistInit => PersistTypes /\ TreesSound
    BY InitTypes, InitTrees
  <1>2. PersistTypes /\ TreesSound /\ [PersistNext]_persistVars
          => PersistTypes' /\ TreesSound'
    BY TypesKept, TreesKept
  <1> QED  BY <1>1, <1>2, PTL DEF PersistSpec

\* Wherever a process stops, the tree that the next one loads or rebuilds, and grows, is
\* closed under parents and weighs every branch (load_chain_store, add_block_inner), if
\* no block of height 0 comes over another.
THEOREM TheTreeSurvives ==
  ASSUME RootsAtZero
  PROVE  PersistSpec => []TreeSurvives
  <1>1. TreesSound => TreeSurvives
    BY TreesSplit DEF TreeGood, GoodTreeOf, ClosedTree, TreeSurvives, TreeSound
  <1> QED  BY <1>1, TreesInductive, PTL

\* Every canonical block is in the log and in memory, unless it was refused first
\* (accept_block, save_block, the bodies load_chain_store reads back).
THEOREM TheChainIsOnDisk ==
  ASSUME RootsAtZero
  PROVE  PersistSpec => []CanonicalOnDisk
  <1>1. TreesSound => CanonicalOnDisk
    BY TreesSplit DEF TreeGood, GoodTreeOf, CacheLogged, Canonical, CanonicalOnDisk
  <1> QED  BY <1>1, TreesInductive, PTL

\* A node that began with an empty log has no tip until a block of height 0 is in it.
THEOREM AFreshNodeStays ==
  ASSUME RootsAtZero
  PROVE  PersistSpec => []FreshStays
  <1>1. ASSUME PersistTypes, TreesSound, \A h \in Logged : HeightOf(h) > 0  PROVE  tip = Zero
    <2> SUFFICES ASSUME tip # Zero  PROVE  FALSE
      OBVIOUS
    <2>1. TreeGood /\ CacheLogged /\ tip \in Hash /\ tip \in stored /\ stored \subseteq Hash
      BY <1>1, TypesSplit, TreesSplit DEF MemoryTypes
    <2>2. PathFrom[tip] \subseteq stored
      BY <2>1, PathWithin DEF TreeGood, GoodTreeOf, ClosedTree
    <2>3. PathFrom[tip] # {} /\ \A g \in PathFrom[tip] : Parent[g] \in PathFrom[tip] \cup {Zero}
      BY <2>1, PathFacts
    <2>4. PathFrom[tip] \in SUBSET Hash
      BY <2>1, <2>2
    <2>5. PICK g \in PathFrom[tip] : Parent[g] \notin PathFrom[tip]
      BY <2>3, <2>4, AcyclicAssumption
    <2>6. Parent[g] = Zero /\ g \in stored
      BY <2>2, <2>3, <2>5
    <2>7. g \in Logged /\ HeightOf(g) = 0
      BY <2>1, <2>5, <2>6 DEF TreeGood, GoodTreeOf, ClosedTree, CacheLogged
    <2> QED  BY <1>1, <2>7
  <1>2. PersistTypes /\ TreesSound => FreshStays
    BY <1>1 DEF FreshStays
  <1> QED  BY <1>2, TreesInductive, PTL

-----------------------------------------------------------------------------
(* Why a start halts.                                                      *)

\* What was read without an error knows every line, but for blocks above height 0 over the
\* zero hash.
ReadAll(t, s, k) ==
  t.ok => \A i \in 1..k : s[i] \in t.known \/ (Parent[s[i]] = Zero /\ HeightOf(s[i]) > 0)

\* Where reading s failed.
Stuck(s) ==
  \E n \in 1..Len(s) :
    \/ Parent[s[n]] \notin Earlier(s, n) \cup {Zero}
    \/ /\ Parent[s[n]] \in Earlier(s, n)
       /\ Parent[Parent[s[n]]] = Zero /\ HeightOf(Parent[s[n]]) > 0

LEMMA ReadToTheEnd ==
  ASSUME NEW s \in Seq(Hash), OrderedLog(s)
  PROVE  ReadAll(ReadOf(s), s, Len(s)) /\ (~ReadOf(s).ok => Stuck(s))
  <1> DEFINE N == Len(s)
  <1>1. PICK P : ReadsBy(P, s)
    BY ReadByPrefix
  <1>2. N \in Nat /\ DOMAIN s = 1..N /\ \A k \in 1..N : s[k] \in Hash
    BY LenProperties, ElementOfSeq
  <1>3. /\ P \in [0..N -> ReadTree] /\ P[0] = EmptyTree /\ ReadOf(s) = P[N]
        /\ \A k \in 0..(N - 1) : P[k + 1] = Relink(P[k], s[k + 1])
    BY <1>1 DEF ReadsBy
  <1>4. \A n \in 1..N : HeightOf(s[n]) = 0 => n = 1
    BY DEF OrderedLog
  <1> DEFINE T == {k \in 0..N : ReadAll(P[k], s, k) /\ (~P[k].ok => Stuck(s))}
  <1>5. 0 \in T
    <2>1. P[0].ok
      BY <1>3, EmptyTreeFields
    <2> QED  BY <1>2, <2>1 DEF ReadAll
  <1>6. ASSUME NEW k \in 0..(N - 1), k \in T  PROVE  k + 1 \in T
    <2> DEFINE t == P[k]
               u == P[k + 1]
               h == s[k + 1]
    <2>1. k \in Nat /\ k \in 0..N /\ k + 1 \in 0..N /\ k + 1 \in 1..N
          /\ 1..(k + 1) = (1..k) \cup {k + 1}
      BY <1>2
    <2>2. t \in ReadTree /\ h \in Hash /\ HeightOf(h) \in Nat /\ u = Relink(t, h)
      BY <1>2, <1>3, <2>1, Heights
    <2>3. ReadAll(t, s, k) /\ (~t.ok => Stuck(s))
      BY <1>6
    <2> HIDE DEF t, u, N
    <2>4. Relinked(u, t, h)
      BY <2>2, RelinkFields
    <2>5. u.ok => t.ok
      BY <2>2, <2>4 DEF Relinked, StartsAnew, Extends, Skipped
    <2>6. ASSUME u.ok, NEW i \in 1..(k + 1)
          PROVE  s[i] \in u.known \/ (Parent[s[i]] = Zero /\ HeightOf(s[i]) > 0)
      <3>1. CASE StartsAnew(t, h)
        <4>1. k + 1 = 1
          BY <1>4, <2>1, <3>1 DEF StartsAnew
        <4>2. i = k + 1
          BY <4>1, <2>1
        <4> QED  BY <4>2, <3>1, <2>4 DEF Relinked
      <3>2. CASE ~StartsAnew(t, h)
        <4>1. t.known \subseteq u.known
          BY <2>2, <2>4, <3>2 DEF Relinked, StartsAnew, Extends, Skipped
        <4>2. CASE i \in 1..k
          BY <4>1, <4>2, <2>3, <2>5, <2>6 DEF ReadAll
        <4>3. CASE i = k + 1
          BY <2>2, <2>4, <2>6, <3>2, <4>3 DEF Relinked, StartsAnew, Extends, Skipped
        <4> QED  BY <4>2, <4>3, <2>1
      <3> QED  BY <3>1, <3>2
    <2>7. ASSUME ~u.ok, t.ok  PROVE  Stuck(s)
      <3>1. Skipped(t, h) /\ Parent[h] # Zero
        BY <2>2, <2>4, <2>7 DEF Relinked, StartsAnew, Extends, Skipped
      <3>2. CASE Parent[h] \notin Earlier(s, k + 1)
        BY <2>1, <3>1, <3>2 DEF Stuck, N
      <3>3. CASE Parent[h] \in Earlier(s, k + 1)
        <4>1. (k + 1) - 1 = k
          BY <2>1
        <4>2. PICK i \in 1..k : s[i] = Parent[h]
          BY <3>3, <4>1 DEF Earlier
        <4>3. s[i] \notin t.known
          BY <3>1, <4>2 DEF Skipped
        <4>4. Parent[Parent[h]] = Zero /\ HeightOf(Parent[h]) > 0
          BY <2>3, <2>7, <4>2, <4>3 DEF ReadAll
        <4> QED  BY <2>1, <3>3, <4>4 DEF Stuck, N
      <3> QED  BY <3>2, <3>3
    <2> QED  BY <2>1, <2>3, <2>6, <2>7 DEF ReadAll, u
  <1> HIDE DEF T, N
  <1>7. \A k \in 0..N : k \in T
    BY <1>2, <1>5, <1>6, BoundedInduction
  <1>8. N \in 0..N /\ N \in T
    BY <1>2, <1>7
  <1> QED  BY <1>3, <1>8 DEF T, N

LEMMA HaltExplained ==
  ASSUME Intact = Hash, FileTypes, TreesSound, Halts
  PROVE  /\ ~Loadable
         /\ \E n \in 1..Len(log) :
              \/ log[n] \notin Own /\ Parent[log[n]] \notin Before(n) \cup {Zero}
              \/ /\ Parent[log[n]] \in Before(n)
                 /\ Parent[Parent[log[n]]] = Zero /\ HeightOf(Parent[log[n]]) > 0
  <1>1. LogOrdered /\ FileGood /\ log \in Seq(Hash)
    BY TreesSplit DEF FileTypes
  <1>2. ~Loadable
    <2> SUFFICES ASSUME Loadable  PROVE  FALSE
      OBVIOUS
    <2>1. ClosedTree(storeFile.stored, storeFile.work) /\ storeFile.stored \subseteq Hash
      BY <1>1 DEF Loadable, FileGood, GoodTreeOf, FileTypes, SavedStore
    <2>2. PICK h \in Logged \cap storeFile.stored :
            \/ h \notin Intact
            \/ HeightOf(h) > 0 /\ Parent[h] \notin Logged \cup storeFile.stored
      BY DEF Halts
    <2>3. HeightOf(h) \in Nat
      BY <2>1, Heights
    <2> QED  BY <2>1, <2>2, <2>3 DEF ClosedTree
  <1>3. Logged \subseteq Hash
    <2>1. DOMAIN log = 1..Len(log) /\ \A i \in 1..Len(log) : log[i] \in Hash
      BY <1>1, LenProperties, ElementOfSeq
    <2> QED  BY <2>1 DEF Logged, ToSet
  <1>4. ~ReadOf(log).ok
    BY <1>2, <1>3 DEF Halts, Rebuilt, ReadOf
  <1>5. OrderedLog(log)
    BY <1>1, LogOrderedIs
  <1>6. Stuck(log)
    BY <1>1, <1>4, <1>5, ReadToTheEnd
  <1>7. PICK n \in 1..Len(log) :
          \/ Parent[log[n]] \notin Earlier(log, n) \cup {Zero}
          \/ /\ Parent[log[n]] \in Earlier(log, n)
             /\ Parent[Parent[log[n]]] = Zero /\ HeightOf(Parent[log[n]]) > 0
    BY <1>6 DEF Stuck
  <1>8. Earlier(log, n) = Before(n)
    BY <1>1, EarlierLines DEF Before
  <1>9. log[n] \in Own => Parent[log[n]] \in Before(n) \cup {Zero}
    BY <1>1 DEF LogOrdered
  <1> QED  BY <1>2, <1>7, <1>8, <1>9

\* Nothing in the files changes once a start has halted.
LEMMA HaltsKept ==
  ASSUME Intact = Hash, PersistTypes, TreesSound, HaltsOnlyRebuilding,
         [PersistNext]_persistVars
  PROVE  HaltsOnlyRebuilding'
  <1> SUFFICES ASSUME mode' = "halted"  PROVE  HaltsOnlyRebuilding'
    BY DEF HaltsOnlyRebuilding
  <1>1. \/ HaltNode
        \/ mode = "halted" /\ UNCHANGED <<log, storeFile>>
    BY DEF PersistNext, StartNode, Stop, SaveUtxo, SaveStore, StartMiner, MinerSave,
           AcceptBlock, MineNode, MinerMine, persistVars, files
  <1>2. UNCHANGED <<log, storeFile>>
    BY <1>1 DEF HaltNode, files
  <1>3. CASE HaltNode
    <2>1. Halts /\ FileTypes
      BY <1>3, TypesSplit DEF HaltNode
    <2>2. /\ ~Loadable
          /\ \E n \in 1..Len(log) :
               \/ log[n] \notin Own /\ Parent[log[n]] \notin Before(n) \cup {Zero}
               \/ /\ Parent[log[n]] \in Before(n)
                  /\ Parent[Parent[log[n]]] = Zero /\ HeightOf(Parent[log[n]]) > 0
      BY <2>1, HaltExplained
    <2> QED  BY <1>2, <2>2 DEF HaltsOnlyRebuilding, Loadable, Before
  <1>4. CASE mode = "halted"
    BY <1>2, <1>4 DEF HaltsOnlyRebuilding, Loadable
  <1> QED  BY <1>1, <1>3, <1>4

\* If every block passes validate_block_integrity, a start takes the disk for corrupted only
\* when it must rebuild the tree, and then at a line that a peer's block or a skipped one
\* explains (load_chain_store).
THEOREM AHaltIsExplained ==
  ASSUME RootsAtZero, Intact = Hash
  PROVE  PersistSpec => []HaltsOnlyRebuilding
  <1>1. PersistInit => HaltsOnlyRebuilding
    BY DEF PersistInit, HaltsOnlyRebuilding
  <1>2. HaltsOnlyRebuilding /\ PersistTypes /\ TreesSound /\ [PersistNext]_persistVars
          => HaltsOnlyRebuilding'
    BY HaltsKept
  <1> QED  BY <1>1, <1>2, TreesInductive, PTL DEF PersistSpec

-----------------------------------------------------------------------------
(* What a rebuild would find.                                              *)

\* The first n lines of s.
UpTo(s, n) == {s[i] : i \in 1..n}

LEMMA FirstLines ==
  ASSUME NEW s \in Seq(Hash), NEW n \in 1..Len(s)
  PROVE  ToSet(SubSeq(s, 1, n)) = UpTo(s, n)
  <1> DEFINE r == SubSeq(s, 1, n)
  <1>1. Len(s) \in Nat /\ \A i \in 1..Len(s) : s[i] \in Hash
    BY LenProperties, ElementOfSeq
  <1>2. \A i \in 1..n : s[i] \in Hash
    BY <1>1
  <1>3. /\ r \in Seq(Hash) /\ Len(r) = (IF 1 <= n THEN n - 1 + 1 ELSE 0)
        /\ \A i \in 1..(n - 1 + 1) : r[i] = s[1 + i - 1]
    BY <1>1, <1>2, SubSeqProperties
  <1> HIDE DEF r
  <1>4. Len(r) = n /\ \A i \in 1..n : r[i] = s[i]
    BY <1>1, <1>3
  <1>5. DOMAIN r = 1..n
    BY <1>3, <1>4, LenProperties
  <1> QED  BY <1>4, <1>5 DEF ToSet, UpTo, r

\* A tree read from a log has one root.
LEMMA OneRoot ==
  ASSUME NEW s \in Seq(Hash)
  PROVE  \A h \in ReadOf(s).known : ReadOf(s).root \in PathFrom[h]
  <1> DEFINE N == Len(s)
             FromRoot(t) == \A h \in t.known : t.root \in PathFrom[h]
  <1>1. PICK P : ReadsBy(P, s)
    BY ReadByPrefix
  <1>2. N \in Nat /\ \A k \in 1..N : s[k] \in Hash
    BY LenProperties, ElementOfSeq
  <1>3. /\ P \in [0..N -> ReadTree] /\ P[0] = EmptyTree /\ ReadOf(s) = P[N]
        /\ \A k \in 0..(N - 1) : P[k + 1] = Relink(P[k], s[k + 1])
    BY <1>1 DEF ReadsBy
  <1> HIDE DEF N
  <1> DEFINE T == {k \in 0..N : FromRoot(P[k])}
  <1>4. 0 \in T
    BY <1>2, <1>3, EmptyTreeFields
  <1>5. ASSUME NEW k \in 0..(N - 1), k \in T  PROVE  k + 1 \in T
    <2> DEFINE t == P[k]
               u == P[k + 1]
               h == s[k + 1]
    <2>1. k \in 0..N /\ k + 1 \in 0..N /\ k + 1 \in 1..N
      BY <1>2
    <2>2. t \in ReadTree /\ h \in Hash /\ HeightOf(h) \in Nat /\ u = Relink(t, h) /\ FromRoot(t)
      BY <1>2, <1>3, <1>5, <2>1, Heights
    <2> HIDE DEF t, u, h
    <2>3. Relinked(u, t, h)
      BY <2>2, RelinkFields
    <2>4. PathFrom[h] = {h} \cup PathFrom[Parent[h]]
      BY <2>2, PathEquation
    <2>5. FromRoot(u)
      <3>1. CASE h \in t.known \/ Skipped(t, h)
        <4>1. u.known = t.known /\ u.root = t.root
          BY <3>1, <2>3 DEF Relinked
        <4> QED  BY <4>1, <2>2
      <3>2. CASE StartsAnew(t, h)
        <4>1. u.known = {h} /\ u.root = h
          BY <3>2, <2>3 DEF Relinked
        <4> QED  BY <4>1, <2>4
      <3>3. CASE Extends(t, h)
        <4>1. u.known = t.known \cup {h} /\ u.root = t.root
          BY <3>3, <2>3 DEF Relinked
        <4>2. t.root \in PathFrom[Parent[h]]
          BY <3>3, <2>2 DEF Extends
        <4> QED  BY <4>1, <4>2, <2>2, <2>4
      <3> QED  BY <3>1, <3>2, <3>3, <2>2 DEF Skipped, StartsAnew, Extends
    <2> QED  BY <2>1, <2>5 DEF u
  <1> HIDE DEF T
  <1>6. \A k \in 0..N : k \in T
    BY <1>2, <1>4, <1>5, BoundedInduction
  <1>7. N \in 0..N /\ N \in T
    BY <1>2, <1>6
  <1> QED  BY <1>3, <1>7 DEF T

\* Two sound trees give a block they share the same work.
LEMMA SameWork ==
  ASSUME NEW S \in SUBSET Hash, NEW w, ClosedTree(S, w),
         NEW R \in SUBSET Hash, NEW v, ClosedTree(R, v)
  PROVE  \A h \in S \cap R : w[h] = v[h]
  <1> DEFINE T == {h \in Hash \cup {Zero} : h \in S \cap R => w[h] = v[h]}
  <1>1. Zero \in T
    BY TreeAssumption
  <1>2. ASSUME NEW h \in Hash, Parent[h] \in T  PROVE  h \in T
    <2> SUFFICES ASSUME h \in S, h \in R  PROVE  w[h] = v[h]
      OBVIOUS
    <2>1. /\ Parent[h] # Zero => Parent[h] \in S \cap R
          /\ w[h] = Weight[h] + (IF Parent[h] = Zero THEN 0 ELSE w[Parent[h]])
          /\ v[h] = Weight[h] + (IF Parent[h] = Zero THEN 0 ELSE v[Parent[h]])
      BY DEF ClosedTree
    <2> QED  BY <2>1, <1>2
  <1> HIDE DEF T
  <1>3. \A h \in Hash \cup {Zero} : h \in T
    BY <1>1, <1>2, ClimbInduction
  <1> QED  BY <1>3 DEF T

LEMMA WorkPositive ==
  ASSUME HeadersWeigh, NEW S \in SUBSET Hash, NEW w \in [Hash -> Nat], ClosedTree(S, w)
  PROVE  \A h \in S : w[h] > 0
  <1> SUFFICES ASSUME NEW h \in S  PROVE  w[h] > 0
    OBVIOUS
  <1>1. /\ h \in Hash /\ Weight[h] \in Nat /\ Weight[h] > 0 /\ w[h] \in Nat
        /\ Parent[h] \in S \cup {Zero}
        /\ w[h] = Weight[h] + (IF Parent[h] = Zero THEN 0 ELSE w[Parent[h]])
    BY TreeAssumption DEF HeadersWeigh, ClosedTree
  <1>2. CASE Parent[h] = Zero
    BY <1>1, <1>2
  <1>3. CASE Parent[h] # Zero
    <2>1. w[Parent[h]] \in Nat
      BY <1>1, <1>3
    <2> QED  BY <1>1, <1>3, <2>1
  <1> QED  BY <1>2, <1>3

\* Some line of K has the most work of them.
LEMMA MostWork ==
  ASSUME NEW s \in Seq(Hash), NEW w \in [Hash -> Nat], NEW K,
         \E i \in 1..Len(s) : s[i] \in K
  PROVE  \E m \in 1..Len(s) :
           s[m] \in K /\ \A i \in 1..Len(s) : s[i] \in K => w[s[i]] <= w[s[m]]
  <1> DEFINE N == Len(s)
             Most(k) == (\E i \in 1..k : s[i] \in K) =>
                          \E m \in 1..k : s[m] \in K /\ \A i \in 1..k : s[i] \in K => w[s[i]] <= w[s[m]]
             T == {k \in 0..N : Most(k)}
  <1>1. N \in Nat /\ \A k \in 1..N : s[k] \in Hash /\ w[s[k]] \in Nat
    BY LenProperties, ElementOfSeq
  <1> HIDE DEF N
  <1>2. 0 \in T
    BY <1>1
  <1>3. ASSUME NEW k \in 0..(N - 1), k \in T  PROVE  k + 1 \in T
    <2> DEFINE e == s[k + 1]
    <2>1. /\ k \in Nat /\ k + 1 \in 0..N /\ k + 1 \in 1..N /\ 1..(k + 1) = (1..k) \cup {k + 1}
          /\ \A i \in 1..k : i \in 1..N
      BY <1>1
    <2>2. Most(k) /\ w[e] \in Nat /\ \A i \in 1..k : w[s[i]] \in Nat
      BY <1>1, <1>3, <2>1
    <2>3. Most(k + 1)
      <3>1. CASE e \notin K
        BY <2>1, <2>2, <3>1
      <3>2. CASE e \in K /\ ~(\E i \in 1..k : s[i] \in K)
        BY <2>1, <2>2, <3>2
      <3>3. CASE e \in K /\ \E i \in 1..k : s[i] \in K
        <4>1. PICK m \in 1..k : s[m] \in K /\ \A i \in 1..k : s[i] \in K => w[s[i]] <= w[s[m]]
          BY <2>2, <3>3
        <4>2. CASE w[e] <= w[s[m]]
          BY <2>1, <4>1, <4>2
        <4>3. CASE ~(w[e] <= w[s[m]])
          <5>1. ASSUME NEW i \in 1..k, s[i] \in K  PROVE  w[s[i]] <= w[e]
            <6>1. w[s[i]] <= w[s[m]] /\ w[s[i]] \in Nat /\ w[s[m]] \in Nat /\ w[e] \in Nat
              BY <2>2, <4>1, <5>1
            <6> QED  BY <4>3, <6>1
          <5>2. \A i \in 1..(k + 1) : s[i] \in K => w[s[i]] <= w[e]
            BY <2>1, <2>2, <5>1
          <5> QED  BY <2>1, <3>3, <5>2
        <4> QED  BY <4>2, <4>3
      <3> QED  BY <3>1, <3>2, <3>3
    <2> QED  BY <2>1, <2>3
  <1> HIDE DEF T
  <1>4. \A k \in 0..N : k \in T
    BY <1>1, <1>2, <1>3, BoundedInduction
  <1>5. N \in 0..N /\ N \in T
    BY <1>1, <1>4
  <1> QED  BY <1>5 DEF T, N

\* What a rebuild would know is in the tree, no heavier than the tip, and as heavy only
\* from the tip's line on.
LogBelow(s, t, S, w, h, x) ==
  \A n \in 1..Len(s) : s[n] \in t.known =>
    s[n] \in S /\ w[s[n]] <= x /\ (w[s[n]] = x => h \in UpTo(s, n))

RebuildBelow == LogBelow(log, ReadOf(log), stored, work, tip, tipWork)

LEMMA BelowSplit ==
  ASSUME log \in Seq(Hash)
  PROVE  RebuildBelowTip <=>
           (storeFile = NoFile =>
              stored = cached /\ (Running /\ ReadOf(log).ok => RebuildBelow))
  BY FirstLines DEF RebuildBelowTip, RebuildBelow, LogBelow, Rebuilt, ReadOf

LEMMA BelowSplitNext ==
  ASSUME log' \in Seq(Hash)
  PROVE  RebuildBelowTip' <=>
           (storeFile' = NoFile =>
              stored' = cached' /\ (Running' /\ ReadOf(log').ok => RebuildBelow'))
  BY FirstLines DEF RebuildBelowTip, RebuildBelow, LogBelow, Rebuilt, ReadOf

\* What the invariant says together of the tree that a rebuild would read.
ReadBeside ==
  LET t == ReadOf(log)
  IN  /\ t \in ReadTree /\ t.known \subseteq stored /\ t.known \subseteq Logged
      /\ t.root \in t.known \cup {Zero}
      /\ ClosedTree(t.known, t.work)
      /\ \A h \in t.known : t.root \in PathFrom[h] /\ t.work[h] = work[h] /\ t.work[h] > 0
                            /\ work[h] <= tipWork
      /\ \A h \in Logged : h \in t.known \/ Parent[h] = Zero
      /\ tip = Zero => t.known = {}
      /\ tip # Zero => tip \in t.known

LEMMA LoggedLines ==
  ASSUME log \in Seq(Hash)
  PROVE  Logged = {log[n] : n \in 1..Len(log)} /\ Logged \subseteq Hash
  <1>1. DOMAIN log = 1..Len(log) /\ \A n \in 1..Len(log) : log[n] \in Hash
    BY LenProperties, ElementOfSeq
  <1> QED  BY <1>1 DEF Logged, ToSet

LEMMA TreesBeside ==
  ASSUME RootsAtZero, HeadersWeigh, PersistTypes, TreesSound, ReadOf(log).ok, RebuildBelow
  PROVE  ReadBeside
  <1> DEFINE t == ReadOf(log)
  <1>1. /\ MemoryTypes /\ LogOrdered /\ TreeGood /\ log \in Seq(Hash)
        /\ stored \in SUBSET Hash /\ ClosedTree(stored, work) /\ work \in [Hash -> Nat]
    BY TypesSplit, TreesSplit DEF MemoryTypes, FileTypes, TreeGood, GoodTreeOf
  <1>2. /\ t \in ReadTree /\ ReadSound(t) /\ t.known \subseteq Logged
        /\ \A h \in t.known : t.root \in PathFrom[h]
    BY <1>1, ReadIsSound, ReadFromLog, OneRoot DEF Logged
  <1>3. ReadAll(t, log, Len(log)) /\ t.ok
    BY <1>1, LogOrderedIs, ReadToTheEnd
  <1>4. Logged = {log[n] : n \in 1..Len(log)}
    BY <1>1, LoggedLines
  <1>5. \A n \in 1..Len(log) : log[n] \in t.known =>
          log[n] \in stored /\ work[log[n]] <= tipWork
    BY DEF RebuildBelow, LogBelow
  <1> HIDE DEF t
  <1>6. /\ t.known \in SUBSET Hash /\ t.work \in [Hash -> Nat] /\ t.root \in t.known \cup {Zero}
        /\ ClosedTree(t.known, t.work)
    BY <1>2 DEF ReadTree, ReadSound, ClosedTree
  <1>7. \A h \in t.known : h \in stored /\ work[h] <= tipWork
    BY <1>2, <1>4, <1>5
  <1>8. \A h \in t.known : t.work[h] = work[h] /\ t.work[h] > 0
    <2> DEFINE K == t.known
               w == t.work
    <2>1. /\ K \in SUBSET Hash /\ w \in [Hash -> Nat] /\ ClosedTree(K, w)
          /\ \A h \in K : h \in stored
      BY <1>6, <1>7
    <2> HIDE DEF K, w
    <2>2. \A h \in K \cap stored : w[h] = work[h]
      BY <1>1, <2>1, SameWork
    <2>3. \A h \in K : w[h] > 0
      BY <2>1, WorkPositive
    <2>4. \A h \in K : w[h] = work[h] /\ w[h] > 0
      BY <2>1, <2>2, <2>3
    <2> QED  BY <2>4 DEF K, w
  <1>9. \A h \in Logged : h \in t.known \/ (Parent[h] = Zero /\ HeightOf(h) > 0)
    BY <1>3, <1>4 DEF ReadAll
  <1>10. ASSUME tip = Zero  PROVE  t.known = {}
    <2> SUFFICES ASSUME NEW h \in t.known  PROVE  FALSE
      OBVIOUS
    <2>1. tipWork = 0 /\ work[h] > 0 /\ work[h] <= tipWork /\ h \in Hash
      BY <1>1, <1>6, <1>7, <1>8, <1>10 DEF TreeGood, GoodTreeOf
    <2> QED  BY <2>1, <1>1
  <1>11. ASSUME tip # Zero  PROVE  tip \in t.known
    <2>1. tip \in Logged /\ tip \in stored /\ HeightOf(tip) \in Nat
      BY <1>1, <1>11, Heights DEF TreeGood, GoodTreeOf
    <2>2. Parent[tip] = Zero => HeightOf(tip) = 0
      BY <1>1, <2>1 DEF ClosedTree
    <2> QED  BY <1>9, <2>1, <2>2
  <1> QED  BY <1>2, <1>6, <1>7, <1>8, <1>9, <1>10, <1>11 DEF ReadBeside, t

\* The first of the heaviest lines is the tip's.
LEMMA HeaviestIsTip ==
  ASSUME RootsAtZero, HeadersWeigh, PersistTypes, TreesSound, ReadOf(log).ok, RebuildBelow
  PROVE  HeaviestLogged(Rebuilt) = tip
  <1> DEFINE t == Rebuilt
  <1>1. t = ReadOf(log) /\ ReadBeside /\ log \in Seq(Hash)
    BY TreesBeside, TypesSplit DEF Rebuilt, ReadOf, FileTypes
  <1>2. MemoryTypes /\ TreeGood /\ Logged = {log[n] : n \in 1..Len(log)}
    BY <1>1, TypesSplit, TreesSplit, LoggedLines
  <1>3. \A n \in 1..Len(log) : log[n] \in t.known =>
          (work[log[n]] = tipWork => tip \in UpTo(log, n))
    BY <1>1 DEF RebuildBelow, LogBelow
  <1> HIDE DEF t
  <1>4. /\ t.known \subseteq stored /\ t.root \in t.known \cup {Zero}
        /\ \A h \in t.known : t.work[h] = work[h] /\ t.work[h] > 0 /\ work[h] <= tipWork
        /\ tip = Zero => t.known = {}
        /\ tip # Zero => tip \in t.known
    BY <1>1 DEF ReadBeside
  <1>5. CASE tip = Zero
    <2>1. t.known = {} /\ t.root = Zero
      BY <1>4, <1>5
    <2> QED  BY <1>1, <1>5, <2>1, HeaviestFound DEF FirstHeaviest, IsHeaviest, t
  <1>6. CASE tip # Zero
    <2>1. tip \in t.known /\ tip \in Logged /\ tipWork = work[tip]
          /\ stored \subseteq Hash /\ work \in [Hash -> Nat]
      BY <1>2, <1>4, <1>6 DEF TreeGood, GoodTreeOf, MemoryTypes
    <2>2. IsHeaviest(t, tip)
      BY <1>4, <2>1 DEF IsHeaviest
    <2>3. PICK n : FirstHeaviest(t, n) /\ HeaviestLogged(t) = log[n]
      BY <1>1, <1>2, <2>1, <2>2, HeaviestFound
    <2>4. n \in 1..Len(log) /\ log[n] \in t.known /\ t.work[tip] <= t.work[log[n]]
      BY <2>1, <2>3 DEF FirstHeaviest, IsHeaviest
    <2>5. work[log[n]] = tipWork
      <3>1. work[log[n]] \in Nat /\ work[tip] \in Nat
        BY <2>1, <2>4, <1>4
      <3>2. work[tip] <= work[log[n]] /\ work[log[n]] <= work[tip]
        BY <2>1, <2>4, <1>4
      <3> QED  BY <3>1, <3>2, <2>1
    <2>6. tip \in UpTo(log, n)
      BY <1>3, <2>4, <2>5
    <2>7. PICK m \in 1..n : log[m] = tip
      BY <2>6 DEF UpTo
    <2>8. Len(log) \in Nat
      BY <1>1, LenProperties
    <2>9. m \in 1..Len(log) /\ m <= n
      BY <2>4, <2>7, <2>8
    <2>10. n <= m
      BY <2>2, <2>3, <2>7, <2>9 DEF FirstHeaviest
    <2>11. m = n
      BY <2>4, <2>7, <2>8, <2>10
    <2> QED  BY <2>3, <2>7, <2>11 DEF t
  <1> QED  BY <1>5, <1>6

\* A rebuild takes the first of the heaviest for the tip.
LEMMA RebuildIsBelow ==
  ASSUME RootsAtZero, HeadersWeigh, log \in Seq(Hash), RebuildStore, UNCHANGED log
  PROVE  RebuildBelow' /\ stored' = cached'
  <1> DEFINE t == ReadOf(log)
  <1>1. /\ stored' = t.known /\ cached' = t.known /\ work' = t.work /\ tip' = HeaviestLogged(t)
        /\ tipWork' = (IF tip' = Zero THEN 0 ELSE t.work[tip'])
    BY DEF RebuildStore, Rebuilt, ReadOf
  <1>2. /\ t \in ReadTree /\ ReadSound(t) /\ t.known \subseteq Logged
        /\ Logged = {log[n] : n \in 1..Len(log)}
    BY ReadIsSound, ReadFromLog, LoggedLines DEF Logged
  <1> HIDE DEF t
  <1>3. t.known \in SUBSET Hash /\ t.work \in [Hash -> Nat] /\ ClosedTree(t.known, t.work)
        /\ Zero \notin Hash
    BY <1>2, TreeAssumption DEF ReadTree, ReadSound, ClosedTree
  <1>4. \A h \in t.known : t.work[h] > 0
    BY <1>3, WorkPositive
  <1> SUFFICES ASSUME NEW n \in 1..Len(log), log[n] \in t.known
               PROVE  /\ t.work[log[n]] <= tipWork'
                      /\ t.work[log[n]] = tipWork' => tip' \in UpTo(log, n)
    BY <1>1 DEF RebuildBelow, LogBelow, t
  <1>5. PICK j \in 1..Len(log) :
          log[j] \in t.known /\ \A i \in 1..Len(log) : log[i] \in t.known => t.work[log[i]] <= t.work[log[j]]
    BY <1>3, MostWork
  <1>6. IsHeaviest(t, log[j])
    BY <1>2, <1>4, <1>5 DEF IsHeaviest
  <1>7. PICK m : FirstHeaviest(t, m) /\ HeaviestLogged(t) = log[m]
    BY <1>6, HeaviestFound
  <1>8. /\ m \in 1..Len(log) /\ log[m] \in t.known /\ tip' = log[m] /\ tipWork' = t.work[log[m]]
        /\ t.work[log[n]] <= t.work[log[m]]
    BY <1>1, <1>3, <1>7 DEF FirstHeaviest, IsHeaviest
  <1>9. ASSUME t.work[log[n]] = tipWork'  PROVE  tip' \in UpTo(log, n)
    <2>1. IsHeaviest(t, log[n])
      BY <1>7, <1>8, <1>9 DEF FirstHeaviest, IsHeaviest
    <2>2. m <= n
      BY <1>7, <2>1 DEF FirstHeaviest
    <2>3. m \in 1..n
      BY <1>8, <2>2
    <2> QED  BY <1>8, <2>3 DEF UpTo
  <1> QED  BY <1>8, <1>9

\* With every block's parent in the cache, a path stays in it.
LEMMA ClosedPaths ==
  ASSUME NEW S \in SUBSET Hash, NEW w, ClosedTree(S, w)
  PROVE  \A h \in S : PathFrom[h] \subseteq S
  <1> DEFINE T == {h \in Hash \cup {Zero} : h \in S \cup {Zero} => PathFrom[h] \subseteq S}
  <1>1. Zero \in T
    BY PathEquation
  <1>2. ASSUME NEW h \in Hash, Parent[h] \in T  PROVE  h \in T
    <2>1. PathFrom[h] = {h} \cup PathFrom[Parent[h]] /\ h # Zero
      BY PathEquation, TreeAssumption
    <2>2. h \in S => Parent[h] \in S \cup {Zero}
      BY DEF ClosedTree
    <2> QED  BY <1>2, <2>1, <2>2
  <1> HIDE DEF T
  <1>3. \A h \in Hash \cup {Zero} : h \in T
    BY <1>1, <1>2, ClimbInduction
  <1> QED  BY <1>3 DEF T

\* A block with a line that leaves the tip where it is: an orphan, or on a branch that
\* is no heavier or does not meet the canonical chain.
StaysBelow(b) ==
  /\ UNCHANGED <<tip, tipWork>>
  /\ Parent[b] \in cached =>
       CanAdd(b) /\ AddBlock(b) /\ (~Heavier(b) \/ (Parent[b] # tip /\ ForkPoint(b) = Zero))

Weighs(b) ==
  \/ UNCHANGED <<log, tip, tipWork>>
  \/ WriteLine(b) /\ (MovesTip(b) \/ StaysBelow(b))

LEMMA ReceiveWeighs ==
  ASSUME MemoryTypes, NEW b \in Block, AcceptBlock(b)
  PROVE  Weighs(b)
  <1>1. Handled(b) /\ b # Zero
    BY ReceiveHandled, TreeAssumption DEF Hash
  <1>2. CASE QueueOrphan(b) /\ WriteLine(b)
    BY <1>2 DEF Weighs, StaysBelow, QueueOrphan, ParentKnown, chain
  <1>3. CASE Sidechain(b) /\ WriteLine(b)
    BY <1>3 DEF Weighs, StaysBelow, Sidechain, Connects, chain
  <1>4. CASE RejectGenesis(b) /\ UNCHANGED log
    BY <1>4 DEF Weighs, RejectGenesis, chain
  <1>5. CASE (ExtendCanonical(b) \/ ReorgToNew(b)) /\ WriteIfApplied(b)
    <2>1. b \notin stored /\ tip \in stored \cup {Zero}
      BY <1>5 DEF ExtendCanonical, ReorgToNew, Connects, CanAdd, MemoryTypes
    <2>2. CASE tip' = b
      BY <1>1, <1>5, <2>1, <2>2 DEF WriteIfApplied, Weighs, Handled, HandledFrom
    <2>3. CASE tip' # b
      BY <1>1, <1>5, <2>3 DEF WriteIfApplied, Weighs, Handled, HandledFrom, MovesTip, SetChainTip
    <2> QED  BY <2>2, <2>3
  <1> QED  BY <1>2, <1>3, <1>4, <1>5 DEF AcceptBlock

LEMMA MineNodeWeighs ==
  ASSUME MemoryTypes, NEW b \in Block, MineNode(b)
  PROVE  Weighs(b)
  <1> DEFINE r == ApplyBlock(ledger, b)
  <1>1. Handled(b) /\ b # Zero /\ Zero \notin Hash
    BY MineNodeHandled, TreeAssumption DEF Hash
  <1>2. /\ Parent[b] = tip /\ b \notin stored
        /\ IF r.ok /\ CanAdd(b) THEN AddBlock(b) /\ SetChainTip(b)
                                ELSE UNCHANGED <<tip, tipWork>>
        /\ IF r.ok THEN WriteLine(b) ELSE UNCHANGED log
    BY DEF MineNode, MineBlock, Mine
  <1> HIDE DEF r
  <1>3. tip \in stored \cup {Zero} /\ cached \subseteq stored /\ stored \subseteq Hash
    BY DEF MemoryTypes
  <1>4. CASE r.ok /\ CanAdd(b)
    BY <1>1, <1>2, <1>3, <1>4 DEF Handled, HandledFrom, SetChainTip, Weighs
  <1>5. CASE r.ok /\ ~CanAdd(b)
    BY <1>1, <1>2, <1>3, <1>5 DEF CanAdd, Weighs, StaysBelow
  <1>6. CASE ~r.ok
    BY <1>2, <1>6 DEF Weighs
  <1> QED  BY <1>4, <1>5, <1>6

\* A block over one that a rebuild would know meets the canonical chain.
LEMMA KnownMeetsTip ==
  ASSUME MemoryTypes, TreeGood, ReadBeside, stored = cached, NEW b \in Block,
         Parent[b] \in ReadOf(log).known
  PROVE  ForkPoint(b) # Zero
  <1> DEFINE t == ReadOf(log)
             p == Parent[b]
             known == cached \cup {b}
  <1>1. /\ t.known \subseteq stored /\ t.root \in PathFrom[p] /\ p \in t.known
        /\ tip \in t.known /\ t.root \in PathFrom[tip]
    BY DEF ReadBeside
  <1>2. /\ stored \in SUBSET Hash /\ ClosedTree(stored, work) /\ Zero \notin Hash /\ b \in Hash
        /\ tip \in stored /\ p \in stored
    BY <1>1, TreeAssumption DEF MemoryTypes, TreeGood, GoodTreeOf, Hash
  <1> HIDE DEF t
  <1>3. /\ known \in SUBSET Hash /\ p \in Hash /\ tip \in Hash
        /\ PathFrom[p] \subseteq known /\ PathFrom[tip] \subseteq known
    BY <1>2, ClosedPaths
  <1> HIDE DEF known, p
  <1>4. LastOf(FindLca(known, p, tip), PathFrom[p] \cap PathFrom[tip])
    BY <1>3, LcaIsLastShared
  <1>5. FindLca(known, p, tip) \in PathFrom[p]
    BY <1>1, <1>4 DEF LastOf
  <1>6. PathFrom[p] \subseteq Hash
    BY <1>3, PathEquation
  <1> QED  BY <1>2, <1>5, <1>6 DEF ForkPoint, known, p

\* What the tree does to what a rebuild would know.
LEMMA KnownKept ==
  ASSUME MemoryTypes, ReadBeside, NEW b \in Block, Handled(b)
  PROVE  /\ \A h \in ReadOf(log).known : h \in stored' /\ work'[h] = work[h]
         /\ stored' = cached' \/ stored # cached
  <1>1. ReadOf(log).known \subseteq stored /\ stored \subseteq Hash /\ work \in [Hash -> Nat]
    BY DEF ReadBeside, MemoryTypes
  <1>2. CASE UNCHANGED tree
    BY <1>1, <1>2 DEF tree
  <1>3. CASE CanAdd(b) /\ AddBlock(b)
    <2>1. b \notin stored /\ stored' = stored \cup {b} /\ cached' = cached \cup {b}
          /\ work' = [work EXCEPT ![b] = WorkOver(b)]
      BY <1>3 DEF CanAdd, AddBlock
    <2> QED  BY <1>1, <2>1
  <1> QED  BY <1>2, <1>3 DEF Handled, HandledFrom

\* What a new line b must do to what a rebuild, which read t, has of the lines.
NewLine(b, t, u) ==
  /\ \A h \in u.known : h \in t.known \/ h = b
  /\ b \in Logged /\ b \notin t.known => b \notin u.known
  /\ b \in u.known => /\ b \in stored' /\ work'[b] <= tipWork'
                      /\ work'[b] = tipWork' => tip' \in Logged \cup {b}
  /\ \A h \in t.known : /\ h \in stored' /\ work'[h] <= tipWork'
                        /\ work'[h] = tipWork' => tip' = tip /\ work[h] = tipWork

\* The line extends the canonical chain or moves it.
LEMMA MovedLine ==
  ASSUME HeadersWeigh, MemoryTypes, TreeGood, ReadBeside, stored = cached, NEW b \in Block,
         Handled(b), Lines(b), WriteLine(b), MovesTip(b)
  PROVE  NewLine(b, ReadOf(log), Relink(ReadOf(log), b))
  <1> DEFINE t == ReadOf(log)
             u == Relink(t, b)
  <1>1. /\ b \in Hash /\ Weight[b] \in Nat /\ Weight[b] > 0 /\ Zero \notin Hash
        /\ stored \subseteq Hash /\ work \in [Hash -> Nat] /\ tipWork \in Nat
        /\ tip \in stored \cup {Zero}
    BY TreeAssumption DEF HeadersWeigh, MemoryTypes, Hash
  <1>2. /\ b \notin stored /\ stored' = stored \cup {b} /\ tip # Zero /\ Parent[b] \in stored
        /\ work' = [work EXCEPT ![b] = WorkOver(b)] /\ tip' = b /\ tipWork' = work'[b]
    BY <1>1 DEF MovesTip, CanAdd, AddBlock, SetChainTip
  <1>3. WorkOver(b) \in Nat /\ WorkOver(b) > tipWork
    <2>1. WorkOver(b) = work[Parent[b]] + Weight[b] /\ work[Parent[b]] \in Nat
      BY <1>1, <1>2 DEF WorkOver
    <2>2. CASE Parent[b] = tip
      <3>1. tipWork = work[Parent[b]]
        BY <1>2, <2>2 DEF TreeGood, GoodTreeOf
      <3> QED  BY <2>1, <3>1, <1>1
    <2>3. CASE Heavier(b)
      BY <1>1, <2>1, <2>3 DEF Heavier
    <2> QED  BY <2>2, <2>3 DEF MovesTip
  <1>4. work'[b] = WorkOver(b)
    BY <1>1, <1>2
  <1>5. /\ t \in ReadTree /\ t.known \subseteq stored
        /\ \A h \in t.known : work[h] <= tipWork
        /\ \A h \in Logged : h \in t.known \/ Parent[h] = Zero
        /\ \A h \in t.known : h \in stored' /\ work'[h] = work[h]
    BY KnownKept DEF ReadBeside
  <1>6. Relinked(u, t, b)
    BY <1>1, <1>5, RelinkFields
  <1>7. HeightOf(b) > 0
    <2>1. UNCHANGED tip => FALSE
      BY <1>1, <1>2
    <2> QED  BY <2>1 DEF Lines
  <1> HIDE DEF t, u
  <1>8. b \notin Logged
    BY <1>1, <1>2, <1>5
  <1>9. \A h \in u.known : h \in t.known \/ h = b
    BY <1>6, <1>7, Heights, <1>1 DEF Relinked, StartsAnew, Extends, Skipped
  <1>10. \A h \in t.known : work'[h] <= tipWork' /\ work'[h] # tipWork'
    <2> SUFFICES ASSUME NEW h \in t.known  PROVE  work'[h] <= tipWork' /\ work'[h] # tipWork'
      OBVIOUS
    <2>1. work[h] \in Nat /\ work[h] <= tipWork /\ work'[h] = work[h]
      BY <1>1, <1>5
    <2> QED  BY <2>1, <1>1, <1>2, <1>3, <1>4
  <1>11. b \in stored' /\ work'[b] <= tipWork' /\ tip' = b
    BY <1>2, <1>3, <1>4
  <1> QED  BY <1>5, <1>8, <1>9, <1>10, <1>11 DEF NewLine, t, u

\* The line leaves the tip where it is.
LEMMA SideLine ==
  ASSUME MemoryTypes, TreeGood, ReadBeside, stored = cached, NEW b \in Block,
         Handled(b), WriteLine(b), HeightOf(b) > 0, StaysBelow(b)
  PROVE  NewLine(b, ReadOf(log), Relink(ReadOf(log), b))
  <1> DEFINE t == ReadOf(log)
             u == Relink(t, b)
  <1>1. /\ b \in Hash /\ Weight[b] \in Nat /\ Zero \notin Hash
        /\ stored \subseteq Hash /\ work \in [Hash -> Nat] /\ tipWork \in Nat
        /\ UNCHANGED <<tip, tipWork>>
    BY TreeAssumption DEF MemoryTypes, StaysBelow, Hash
  <1>2. /\ t \in ReadTree /\ t.known \subseteq stored
        /\ \A h \in t.known : work[h] <= tipWork
        /\ \A h \in Logged : h \in t.known \/ Parent[h] = Zero
        /\ \A h \in t.known : h \in stored' /\ work'[h] = work[h]
        /\ t.known # {} => tip \in Logged
    BY KnownKept DEF ReadBeside
  <1>3. Relinked(u, t, b)
    BY <1>1, <1>2, RelinkFields
  <1>4. Parent[b] \in t.known => ForkPoint(b) # Zero
    BY KnownMeetsTip
  <1> HIDE DEF t, u
  <1>5. \A h \in t.known : /\ h \in stored' /\ work'[h] <= tipWork'
                           /\ work'[h] = tipWork' => tip' = tip /\ work[h] = tipWork
    BY <1>1, <1>2
  <1>6. CASE b \in t.known
    <2>1. u = t
      BY <1>3, <1>6 DEF Relinked
    <2>2. b \in stored' /\ work'[b] <= tipWork' /\ tip' \in Logged
      BY <1>1, <1>2, <1>5, <1>6
    <2> QED  BY <1>5, <1>6, <2>1, <2>2 DEF NewLine, t, u
  <1>7. CASE Extends(t, b)
    <2>1. u.known = t.known \cup {b} /\ b \notin t.known /\ Parent[b] \in t.known
      BY <1>3, <1>7 DEF Relinked, Extends
    <2>2. b \notin Logged /\ Parent[b] \in stored /\ tip \in Logged
      BY <1>1, <1>2, <2>1
    <2>3. CanAdd(b) /\ AddBlock(b) /\ ~Heavier(b)
      BY <1>4, <2>1, <2>2 DEF StaysBelow
    <2>4. /\ WorkOver(b) \in Nat /\ b \in stored' /\ work'[b] = WorkOver(b)
          /\ WorkOver(b) <= tipWork
      <3>1. WorkOver(b) = work[Parent[b]] + Weight[b] /\ work[Parent[b]] \in Nat
        BY <1>1, <2>2 DEF WorkOver
      <3>2. WorkOver(b) \in Nat /\ WorkOver(b) <= tipWork
        BY <1>1, <2>3, <3>1 DEF Heavier
      <3>3. b \in stored' /\ work'[b] = WorkOver(b)
        BY <1>1, <2>3 DEF AddBlock
      <3> QED  BY <3>2, <3>3
    <2>5. b \in stored' /\ work'[b] <= tipWork' /\ tip' \in Logged
      BY <1>1, <2>2, <2>4
    <2> QED  BY <1>5, <2>1, <2>2, <2>5 DEF NewLine, t, u
  <1>8. CASE Skipped(t, b)
    <2>1. u.known = t.known /\ b \notin t.known
      BY <1>3, <1>8 DEF Relinked, Skipped
    <2> QED  BY <1>5, <2>1 DEF NewLine, t, u
  <1> QED  BY <1>1, <1>6, <1>7, <1>8 DEF Extends, Skipped

LEMMA LineBelow ==
  ASSUME log \in Seq(Hash), NEW b \in Hash, log' = Append(log, b), RebuildBelow,
         NewLine(b, ReadOf(log), ReadOf(log'))
  PROVE  RebuildBelow'
  <1> DEFINE N == Len(log)
             t == ReadOf(log)
             u == ReadOf(log')
  <1>1. N \in Nat /\ Len(log') = N + 1 /\ log'[N + 1] = b /\ \A i \in 1..N : log'[i] = log[i]
    BY LineAppended, LenProperties
  <1>2. Logged = {log[i] : i \in 1..N}
    BY LoggedLines
  <1>3. NewLine(b, t, u)
    OBVIOUS
  <1>4. \A n \in 1..N : log[n] \in t.known => (work[log[n]] = tipWork => tip \in UpTo(log, n))
    BY DEF RebuildBelow, LogBelow
  <1> SUFFICES ASSUME NEW n \in 1..(N + 1), log'[n] \in u.known
               PROVE  /\ log'[n] \in stored' /\ work'[log'[n]] <= tipWork'
                      /\ work'[log'[n]] = tipWork' => tip' \in UpTo(log', n)
    BY <1>1 DEF RebuildBelow, LogBelow
  <1> HIDE DEF t, u, N
  <1>5. CASE n = N + 1
    <2>1. {log'[i] : i \in 1..(N + 1)} = Logged \cup {b}
      <3>1. 1..(N + 1) = (1..N) \cup {N + 1}
        BY <1>1
      <3> QED  BY <1>1, <1>2, <3>1
    <2>2. log'[n] = b /\ UpTo(log', n) = Logged \cup {b}
      BY <1>1, <1>5, <2>1 DEF UpTo
    <2>3. CASE b \in t.known
      <3>1. b \in u.known
        BY <2>2
      <3> QED  BY <1>3, <2>2, <3>1 DEF NewLine
    <2>4. CASE b \notin t.known
      BY <1>3, <2>2 DEF NewLine
    <2> QED  BY <2>3, <2>4
  <1>6. CASE n # N + 1
    <2>1. n \in 1..N /\ log'[n] = log[n] /\ log[n] \in Logged
      BY <1>1, <1>2, <1>6
    <2>2. log[n] \in t.known
      BY <1>3, <2>1 DEF NewLine
    <2>3. /\ log[n] \in stored' /\ work'[log[n]] <= tipWork'
          /\ work'[log[n]] = tipWork' => tip' = tip /\ tip \in UpTo(log, n)
      BY <1>3, <1>4, <2>1, <2>2 DEF NewLine
    <2>4. UpTo(log, n) = UpTo(log', n)
      <3>1. \A i \in 1..n : i \in 1..N
        BY <1>1, <2>1
      <3> QED  BY <1>1, <3>1 DEF UpTo
    <2> QED  BY <2>1, <2>3, <2>4
  <1> QED  BY <1>5, <1>6

\* A handler keeps what a rebuild would know below the tip.
LEMMA BelowHandled ==
  ASSUME RootsAtZero, HeadersWeigh, PersistTypes, TreesSound, stored = cached,
         ReadOf(log).ok => RebuildBelow, ReadOf(log').ok,
         NEW b \in Block, Handled(b), Lines(b), Weighs(b)
  PROVE  RebuildBelow'
  <1>1. MemoryTypes /\ FileTypes /\ TreeGood /\ log \in Seq(Hash) /\ b \in Hash
    BY TypesSplit, TreesSplit DEF FileTypes, Hash
  <1>2. CASE UNCHANGED <<log, tip, tipWork>>
    <2>1. ReadOf(log') = ReadOf(log) /\ log' = log
      BY <1>2
    <2>2. RebuildBelow /\ ReadBeside
      BY <2>1, TreesBeside
    <2>3. \A h \in ReadOf(log).known : h \in stored' /\ work'[h] = work[h]
      BY <1>1, <2>2, KnownKept
    <2> QED  BY <1>2, <2>1, <2>2, <2>3 DEF RebuildBelow, LogBelow
  <1>3. CASE WriteLine(b) /\ (MovesTip(b) \/ StaysBelow(b))
    <2>1. log' = Append(log, b) /\ ReadOf(log) \in ReadTree
          /\ ReadOf(log') = Relink(ReadOf(log), b)
      BY <1>1, <1>3, ReadAppend DEF WriteLine
    <2>2. HeightOf(b) > 0
      <3>1. log' # log
        BY <1>1, <2>1, LineAppended, LenProperties
      <3> QED  BY <3>1 DEF Lines
    <2>3. ReadOf(log).ok
      <3>1. Relinked(ReadOf(log'), ReadOf(log), b)
        BY <1>1, <2>1, RelinkFields
      <3> QED  BY <2>2, <3>1, Heights, <1>1 DEF Relinked, StartsAnew, Extends, Skipped
    <2>4. RebuildBelow /\ ReadBeside
      BY <2>3, TreesBeside
    <2>5. NewLine(b, ReadOf(log), ReadOf(log'))
      BY <1>1, <1>3, <2>1, <2>2, <2>4, MovedLine, SideLine
    <2> QED  BY <1>1, <2>1, <2>4, <2>5, LineBelow
  <1> QED  BY <1>2, <1>3 DEF Weighs

LEMMA BelowKept ==
  ASSUME RootsAtZero, HeadersWeigh, PersistTypes, TreesSound, RebuildBelowTip,
         [PersistNext]_persistVars
  PROVE  RebuildBelowTip'
  <1>1. MemoryTypes /\ FileTypes /\ log \in Seq(Hash)
    BY TypesSplit DEF FileTypes
  <1>2. PersistTypes' /\ log' \in Seq(Hash)
    BY TypesKept DEF PersistTypes
  <1> DEFINE Below == storeFile = NoFile =>
                        stored = cached /\ (Running /\ ReadOf(log).ok => RebuildBelow)
  <1>3. Below
    BY <1>1, BelowSplit
  <1>4. Below' => RebuildBelowTip'
    BY <1>2, BelowSplitNext
  <1>5. CASE StartNode
    <2>1. UNCHANGED <<log, storeFile>> /\ (storeFile = NoFile => RebuildStore)
      BY <1>5 DEF StartNode, Loadable, files
    <2> QED  BY <1>1, <1>4, <2>1, RebuildIsBelow
  <1>6. CASE Stop
    <2>1. stored' = {} /\ cached' = {} /\ ~Running'
      BY <1>6 DEF Stop, Forget, Running
    <2> QED  BY <1>4, <2>1
  <1>7. CASE HaltNode \/ StartMiner \/ MinerSave \/ \E b \in Block : MinerMine(b)
    <2>1. UNCHANGED <<stored, cached, storeFile>> /\ ~Running'
      BY <1>7 DEF HaltNode, StartMiner, MinerSave, MinerMine, Running, vars, tree, files
    <2> QED  BY <1>3, <1>4, <2>1
  <1>8. CASE SaveUtxo \/ UNCHANGED persistVars
    <2>1. UNCHANGED <<log, storeFile, stored, cached, work, tip, tipWork>> /\ Running' = Running
      <3>1. CASE SaveUtxo
        BY <3>1 DEF SaveUtxo, Running, vars, tree
      <3>2. CASE UNCHANGED persistVars
        BY <3>2 DEF persistVars, Running, vars, tree, files
      <3> QED  BY <1>8, <3>1, <3>2
    <2>2. ReadOf(log') = ReadOf(log) /\ (RebuildBelow => RebuildBelow')
      BY <2>1 DEF RebuildBelow
    <2> QED  BY <1>3, <1>4, <2>1, <2>2
  <1>9. CASE SaveStore
    <2>1. storeFile' = ChainStore /\ ChainStore \in SavedStore
      BY <1>9 DEF SaveStore, PersistTypes
    <2>2. storeFile' # NoFile
      BY <2>1, PersistAssumption DEF SavedStore
    <2> QED  BY <1>4, <2>2
  <1>10. ASSUME NEW b \in Block, AcceptBlock(b) \/ MineNode(b)  PROVE  RebuildBelowTip'
    <2>1. Handled(b) /\ Lines(b) /\ Weighs(b) /\ UNCHANGED <<storeFile, mode>>
      BY <1>1, <1>10, ReceiveLines, MineNodeLines, ReceiveWeighs, MineNodeWeighs,
         ReceiveHandled, MineNodeHandled
    <2>2. stored = cached => stored' = cached'
      <3>1. CASE UNCHANGED tree
        BY <3>1 DEF tree
      <3>2. CASE AddBlock(b)
        BY <3>2 DEF AddBlock
      <3> QED  BY <2>1, <3>1, <3>2 DEF Handled, HandledFrom
    <2>3. Running' /\ ReadOf(log').ok /\ storeFile = NoFile => RebuildBelow'
      <3> SUFFICES ASSUME Running', ReadOf(log').ok, storeFile = NoFile  PROVE  RebuildBelow'
        OBVIOUS
      <3>1. Running /\ stored = cached
        BY <1>3, <2>1 DEF Running
      <3>2. ReadOf(log).ok => RebuildBelow
        BY <1>3, <3>1
      <3> QED  BY <2>1, <3>1, <3>2, BelowHandled
    <2> QED  BY <1>3, <1>4, <2>1, <2>2, <2>3
  <1> QED  BY <1>5, <1>6, <1>7, <1>8, <1>9, <1>10 DEF PersistNext

\* RebuildFindsTip.  Until chain_store.json is written, load_chain_store, which reads
\* blocks.jsonl line by line and takes the first of the heaviest blocks, finds the tip
\* that the node has (store.rs, load_chain_store): provided that only a block over the
\* zero hash has height 0 and that every header has some work.
THEOREM ARebuildFindsTheTip ==
  ASSUME RootsAtZero, HeadersWeigh  PROVE  PersistSpec => []RebuildFindsTip
  <1> DEFINE Inv == PersistTypes /\ TreesSound /\ RebuildBelowTip
  <1>1. PersistInit => Inv
    <2> SUFFICES ASSUME PersistInit  PROVE  Inv
      OBVIOUS
    <2>1. PersistTypes /\ TreesSound
      BY InitTypes, InitTrees
    <2>2. stored = cached /\ ~Running
      BY DEF PersistInit, Running
    <2> QED  BY <2>1, <2>2 DEF RebuildBelowTip
  <1>2. Inv /\ [PersistNext]_persistVars => Inv'
    BY TypesKept, TreesKept, BelowKept
  <1>3. Inv => RebuildFindsTip
    <2> SUFFICES ASSUME Inv, Running, storeFile = NoFile, Rebuilt.ok
                 PROVE  HeaviestLogged(Rebuilt) = tip
      BY DEF RebuildFindsTip
    <2>1. log \in Seq(Hash) /\ ReadOf(log).ok
      BY DEF PersistTypes, Rebuilt, ReadOf
    <2>2. RebuildBelow
      BY <2>1, BelowSplit
    <2> QED  BY <2>1, <2>2, HeaviestIsTip
  <1> QED  BY <1>1, <1>2, <1>3, PTL DEF PersistSpec

-----------------------------------------------------------------------------
(***************************************************************************)
(* The node with its pool                                                  *)
(***************************************************************************)

-----------------------------------------------------------------------------
(* Submissions.                                                            *)

LEMMA SubmitTypes ==
  ASSUME NEW S, pending \in Seq(S), NEW L, NEW t \in S, Pool!Submit(L, t)
  PROVE  pending' \in Seq(S) /\ pending' # <<>>
  <1> DEFINE s == Pool!Kept
  <1>1. s \in Seq(S)
    <2> DEFINE n == Pool!Cheapest
               r == Pool!SwapRemove(pending, n)
               N == Len(pending)
    <2>1. N \in Nat /\ \A m \in 1..N : pending[m] \in S
      OBVIOUS
    <2>2. r = [m \in 1..(N - 1) |-> IF m = n THEN pending[N] ELSE pending[m]]
      BY DEF Pool!SwapRemove
    <2> HIDE DEF n
    <2>3. \A m \in 1..(N - 1) : (IF m = n THEN pending[N] ELSE pending[m]) \in S
      BY <2>1
    <2> HIDE DEF r
    <2>4. r \in Seq(S)
      <3>1. CASE N = 0
        <4>1. 1..(N - 1) = 1..0
          BY <3>1
        <4>2. r \in [1..0 -> S]
          BY <2>2, <2>3, <4>1
        <4> QED  BY <4>2, SeqDef
      <3>2. CASE N # 0
        <4>1. N - 1 \in Nat /\ r \in [1..(N - 1) -> S]
          BY <3>2, <2>1, <2>2, <2>3
        <4> QED  BY <4>1, SeqDef
      <3> QED  BY <3>1, <3>2
    <2> QED  BY <2>4 DEF Pool!Kept, r, n
  <1> HIDE DEF s
  <1>2. PICK n \in 1..(Len(s) + 1) : pending' = Pool!InsertAt(s, n, t)
    BY DEF Pool!Submit, Pool!Positions, s
  <1>3. Len(s) \in Nat /\ n \in Nat /\ n >= 1 /\ n <= Len(s) + 1
    BY <1>1
  <1> DEFINE a == SubSeq(s, 1, n - 1)
             z == SubSeq(s, n, Len(s))
  <1>4. a \in Seq(S) /\ z \in Seq(S)
    BY <1>1, <1>3
  <1>5. pending' = (a \o <<t>>) \o z
    BY <1>2 DEF Pool!InsertAt
  <1> HIDE DEF a, z
  <1>6. pending' \in Seq(S) /\ Len(pending') = Len(a) + 1 + Len(z)
    BY <1>4, <1>5
  <1>7. Len(pending') # 0
    BY <1>4, <1>6
  <1> QED  BY <1>6, <1>7

-----------------------------------------------------------------------------
(* What the miner takes from the pool.                                     *)

\* The ledger and the body of the block after some of the drained transactions.
Inclusion == [ledger : UtxoSet, body : Seq(Tx)]

IncludeNext(acc, t, h) ==
  IF SpendChecks(acc.ledger, t, h)
  THEN [ledger |-> RemoveInputs(acc.ledger, t), body |-> Append(acc.body, t)]
  ELSE acc

LEMMA IncludeNextFields ==
  ASSUME NEW acc \in Inclusion, NEW t \in Tx, NEW h
  PROVE  /\ IncludeNext(acc, t, h) \in Inclusion
         /\ SpendChecks(acc.ledger, t, h) =>
              LET L == IncludeNext(acc, t, h).ledger
              IN  /\ \A k \in Key : L.utxos[k] = IF k \in SpentKeys(t) THEN NoEntry
                                                  ELSE acc.ledger.utxos[k]
                  /\ L.images = acc.ledger.images \cup SpentImages(t)
                  /\ L.supply = acc.ledger.supply
                  /\ IncludeNext(acc, t, h).body = Append(acc.body, t)
         /\ ~SpendChecks(acc.ledger, t, h) => IncludeNext(acc, t, h) = acc
  <1> DEFINE L == acc.ledger
             V == RemoveInputs(L, t)
             s == Append(acc.body, t)
  <1>1. L \in UtxoSet /\ s \in Seq(Tx)
    BY AppendProperties DEF Inclusion
  <1>2. /\ \A k \in Key : V.utxos[k] = IF k \in SpentKeys(t) THEN NoEntry ELSE L.utxos[k]
        /\ V.images = L.images \cup SpentImages(t)
        /\ V.supply = L.supply
    BY DEF RemoveInputs
  <1>3. V \in UtxoSet
    <2>1. \A k \in Key : (IF k \in SpentKeys(t) THEN NoEntry ELSE L.utxos[k]) \in Nat \cup {NoEntry}
      BY <1>1 DEF UtxoSet, UtxoMap
    <2>2. SpentImages(t) \subseteq Image
      BY InputTypes
    <2> QED  BY <1>1, <2>1, <2>2 DEF RemoveInputs, UtxoSet, UtxoMap
  <1> HIDE DEF L, V, s
  <1>4. CASE SpendChecks(L, t, h)
    <2>1. IncludeNext(acc, t, h) = [ledger |-> V, body |-> s]
      BY <1>4 DEF IncludeNext, L, V, s
    <2>2. IncludeNext(acc, t, h) \in Inclusion
      BY <1>1, <1>3, <2>1 DEF Inclusion
    <2> QED  BY <1>2, <1>4, <2>1, <2>2 DEF L, s
  <1>5. CASE ~SpendChecks(L, t, h)
    BY <1>5 DEF IncludeNext, L
  <1> QED  BY <1>4, <1>5

IncludesBy(P, h) ==
  /\ P \in [0..Len(pending) -> Inclusion]
  /\ P[0] = [ledger |-> ledger, body |-> <<>>]
  /\ \A k \in 0..(Len(pending) - 1) : P[k + 1] = IncludeNext(P[k], pending[k + 1], h)
  /\ Include(h) = P[Len(pending)]

LEMMA IncludeByPrefix ==
  ASSUME ledger \in UtxoSet, pending \in Seq(Tx), NEW h
  PROVE  \E P : IncludesBy(P, h)
  <1> DEFINE s == pending
             N == Len(s)
             start == [ledger |-> ledger, body |-> <<>>]
             Body(g) == [x \in SUBSET (DOMAIN s) |->
                           IF x = {} THEN start ELSE IncludeNext(g[x \ {Max(x)}], s[Max(x)], h)]
             F == CHOOSE g : g = Body(g)
             step == [p \in Inclusion \X Tx |-> IncludeNext(p[1], p[2], h)]
             P == [k \in 0..N |-> F[1..k]]
  <1>1. Include(h) = F[DOMAIN s]
    BY DEF Include, FoldLeft, MapThenFoldSet, IncludeNext
  <1>2. \A v \in Inclusion, e \in Tx :
          IncludeNext(v, e, h) \in Inclusion /\ step[<<v, e>>] = IncludeNext(v, e, h)
    BY IncludeNextFields
  <1>3. s \in Seq(Tx) /\ N \in Nat /\ DOMAIN s = 1..N /\ \A k \in 1..N : s[k] \in Tx
    OBVIOUS
  <1>4. start \in Inclusion
    BY EmptySeq DEF Inclusion
  <1> HIDE DEF step, start, s
  <1>5. FoldStep(Tx, Inclusion, start, step)
    BY <1>2, <1>4 DEF FoldStep
  <1>6. PICK g : FoldSolution(s, Inclusion, start, step, g)
    BY <1>3, <1>5, FoldRecursion
  <1>7. g = Body(g)
    <2>1. ASSUME NEW x \in SUBSET (DOMAIN s), x # {}
          PROVE  step[<<g[x \ {Max(x)}], s[Max(x)]>>] = IncludeNext(g[x \ {Max(x)}], s[Max(x)], h)
      <3>1. g[x \ {Max(x)}] \in Inclusion
        BY <1>6 DEF FoldSolution
      <3>2. Max(x) \in DOMAIN s
        BY <2>1, <1>3, MaxOfInterval
      <3> QED  BY <3>1, <3>2, <1>2, <1>3
    <2> QED  BY <2>1, <1>6 DEF FoldSolution
  <1>8. F = Body(F)
    BY <1>7
  <1> HIDE DEF F, N
  <1>9. F[1..0] = start
    BY <1>8
  <1>10. ASSUME NEW k \in 0..(N - 1)  PROVE  F[1..(k + 1)] = IncludeNext(F[1..k], s[k + 1], h)
    <2>1. F[1..(k + 1)] = Body(F)[1..(k + 1)]
      BY <1>8
    <2> QED  BY <2>1, <1>3, FirstPlaces DEF N
  <1>11. \A k \in 0..N : F[1..k] \in Inclusion
    <2> DEFINE T == {k \in 0..N : F[1..k] \in Inclusion}
    <2>1. 0 \in T
      <3>1. F[1..0] \in Inclusion /\ 0 \in 0..N
        BY <1>3, <1>4, <1>9
      <3> QED  BY <3>1
    <2>2. ASSUME NEW k \in 0..(N - 1), k \in T  PROVE  k + 1 \in T
      <3>1. k \in 0..N /\ k + 1 \in 0..N /\ s[k + 1] \in Tx /\ F[1..k] \in Inclusion
        BY <2>2, <1>3
      <3> QED  BY <3>1, <1>2, <1>10
    <2> HIDE DEF T
    <2>3. \A k \in 0..N : k \in T
      BY <2>1, <2>2, <1>3, BoundedInduction
    <2> QED  BY <2>3 DEF T
  <1>12. P \in [0..N -> Inclusion] /\ P[0] = start /\ P[N] = F[DOMAIN s]
         /\ \A k \in 0..(N - 1) : P[k + 1] = IncludeNext(P[k], s[k + 1], h)
    BY <1>3, <1>9, <1>10, <1>11
  <1> HIDE DEF P
  <1> QED  BY <1>1, <1>12 DEF N, s, start, IncludesBy

-----------------------------------------------------------------------------
(* The ledger.                                                             *)

\* What the miner spends leaves a ledger that lacks no more than what images
\* that are marked in it besides spend.
IncludedSoundly(L, M, X) ==
  \E Y \in SUBSET Image : X \subseteq Y /\ Short(L, M, Y, SpentBy(Y))

LEMMA IncludedShort ==
  ASSUME ledger \in UtxoSet, pending \in Seq(Tx), NEW h,
         NEW M \in UtxoSet, NEW X \in SUBSET Image, Short(ledger, M, X, SpentBy(X))
  PROVE  Include(h).ledger \in UtxoSet /\ IncludedSoundly(Include(h).ledger, M, X)
  <1> DEFINE N == Len(pending)
  <1>1. PICK P : IncludesBy(P, h)
    BY IncludeByPrefix
  <1>2. N \in Nat /\ \A k \in 1..N : pending[k] \in Tx
    BY LenProperties, ElementOfSeq
  <1>3. /\ P \in [0..N -> Inclusion] /\ P[0] = [ledger |-> ledger, body |-> <<>>]
        /\ \A k \in 0..(N - 1) : P[k + 1] = IncludeNext(P[k], pending[k + 1], h)
        /\ Include(h) = P[N]
    BY <1>1 DEF IncludesBy
  <1> HIDE DEF N
  <1> DEFINE T == {k \in 0..N : IncludedSoundly(P[k].ledger, M, X)}
  <1>4. 0 \in T
    BY <1>2, <1>3 DEF IncludedSoundly
  <1>5. ASSUME NEW k \in 0..(N - 1), k \in T  PROVE  k + 1 \in T
    <2> DEFINE r == P[k]
               u == P[k + 1]
               t == pending[k + 1]
    <2>1. k \in 0..N /\ k + 1 \in 0..N /\ r \in Inclusion /\ t \in Tx /\ u = IncludeNext(r, t, h)
      BY <1>2, <1>3
    <2>2. IncludedSoundly(r.ledger, M, X)
      BY <1>5
    <2> HIDE DEF r, t
    <2>3. CASE ~SpendChecks(r.ledger, t, h)
      BY <2>1, <2>2, <2>3, IncludeNextFields
    <2>4. CASE SpendChecks(r.ledger, t, h)
      <3> DEFINE L == r.ledger
                 V == u.ledger
      <3>1. /\ \A e \in Key : V.utxos[e] = IF e \in SpentKeys(t) THEN NoEntry ELSE L.utxos[e]
            /\ V.images = L.images \cup SpentImages(t)
            /\ V.supply = L.supply
        BY <2>1, <2>4, IncludeNextFields
      <3>2. PICK Y \in SUBSET Image : X \subseteq Y /\ Short(L, M, Y, SpentBy(Y))
        BY <2>2 DEF IncludedSoundly
      <3>3. SpentImages(t) \cap L.images = {} /\ SpentImages(t) \subseteq Image
        BY <2>1, <2>4, InputTypes DEF SpendChecks, SpentImages
      <3> DEFINE Z == Y \cup SpentImages(t)
      <3> HIDE DEF L, V
      <3>4. Z \in SUBSET Image /\ X \subseteq Z
        BY <3>2, <3>3
      <3>5. V.images = M.images \cup Z /\ Z \cap M.images = {} /\ V.supply = M.supply
        BY <3>1, <3>2, <3>3 DEF Short
      <3>6. SpentBy(Y) \subseteq SpentBy(Z)
        BY DEF SpentBy
      <3>7. \A e \in Key : e \in SpentKeys(t) => e \in SpentBy(Z)
        BY <2>1 DEF SpentBy
      <3> HIDE DEF Z
      <3>8. ASSUME NEW e \in Key
            PROVE  V.utxos[e] = M.utxos[e] \/ (V.utxos[e] = NoEntry /\ e \in SpentBy(Z))
        BY <3>1, <3>2, <3>6, <3>7 DEF Short
      <3>9. Short(V, M, Z, SpentBy(Z))
        BY <3>5, <3>8 DEF Short
      <3> QED  BY <2>1, <3>4, <3>9 DEF IncludedSoundly, V
    <2> QED  BY <2>3, <2>4
  <1> HIDE DEF T
  <1>6. \A k \in 0..N : k \in T
    BY <1>2, <1>4, <1>5, BoundedInduction
  <1>7. N \in 0..N /\ IncludedSoundly(P[N].ledger, M, X) /\ P[N] \in Inclusion
    BY <1>2, <1>3, <1>6 DEF T
  <1> QED  BY <1>3, <1>7 DEF Inclusion

\* What mining goes on with is sound.
LEMMA MinerLedgerSound ==
  ASSUME MemoryTypes, pending \in Seq(Tx), NodeLedgerSound, NEW h
  PROVE  /\ Include(h).ledger \in UtxoSet
         /\ \E Y \in SUBSET Image : LedgerGood(Include(h).ledger, Y, SpentBy(Y))
  <1>1. PICK X \in SUBSET Image : LedgerGood(ledger, X, SpentBy(X))
    BY DEF NodeLedgerSound
  <1> DEFINE M == ReplayOf[tip].ledger
             L == Include(h).ledger
  <1>2. M \in UtxoSet /\ ledger \in UtxoSet
    BY <1>1, ReplayEquation DEF LedgerGood, MemoryTypes, Outcome
  <1>3. Short(ledger, M, X, SpentBy(X))
    BY <1>1 DEF LedgerGood
  <1> HIDE DEF M
  <1>4. L \in UtxoSet /\ IncludedSoundly(L, M, X)
    BY <1>2, <1>3, IncludedShort
  <1>5. PICK Y \in SUBSET Image : X \subseteq Y /\ Short(L, M, Y, SpentBy(Y))
    BY <1>4 DEF IncludedSoundly
  <1> HIDE DEF L
  <1>6. SpentBy(X) \subseteq SpentBy(Y) /\ SpentBy(Y) \subseteq Key
    BY <1>5 DEF SpentBy
  <1>7. Undoable(diffs, tip, SpentBy(Y))
    BY <1>1, <1>6 DEF LedgerGood, Undoable
  <1>8. LedgerGood(L, Y, SpentBy(Y))
    BY <1>1, <1>5, <1>7 DEF LedgerGood, M
  <1> QED  BY <1>4, <1>8 DEF L

LEMMA NodeStarts ==
  ASSUME DashInit
  PROVE  NInv
  <1>1. /\ stored = {Genesis} /\ cached = {Genesis}
        /\ work = [h \in Hash |-> IF h = Genesis THEN Weight[h] ELSE 0]
        /\ tip = Genesis /\ tipWork = Weight[Genesis]
        /\ orphans = {} /\ orphanOrder = <<>>
        /\ diffs = [h \in Hash |-> NoDiff] /\ ledger = GenesisLedger
        /\ pending = <<>>
    BY DEF DashInit, NodeInit, Init, Pool!PoolInit
  <1>2. Genesis \in Hash /\ Genesis # Zero /\ Weight \in [Hash -> Nat]
    BY TreeAssumption DEF Hash
  <1>3. ReplayOf[Genesis].ok /\ ReplayOf[Genesis].ledger = GenesisLedger
        /\ GenesisLedger \in UtxoSet
    BY ReplayEquation, <1>2 DEF Outcome
  <1>4. MemoryTypes
    <2>1. work \in [Hash -> Nat] /\ diffs \in DiffMap
      BY <1>1, <1>2 DEF DiffMap
    <2>2. orphanOrder \in Seq(Hash)
      BY <1>1, EmptySeq
    <2> QED  BY <1>1, <1>2, <1>3, <2>1, <2>2 DEF MemoryTypes
  <1>5. Short(ledger, ReplayOf[tip].ledger, {}, SpentBy({}))
    BY <1>1, <1>3 DEF Short
  <1>6. Undoable(diffs, tip, SpentBy({}))
    <2>1. PathFrom[Genesis] \ {Genesis} = {}
      BY <1>2, PathEquation, TreeAssumption
    <2> QED  BY <1>1, <2>1 DEF Undoable
  <1>7. LedgerGood(ledger, {}, SpentBy({}))
    BY <1>1, <1>2, <1>3, <1>5, <1>6 DEF LedgerGood, DiffsReplayed
  <1>8. pending \in Seq(Tx)
    BY <1>1, EmptySeq
  <1> QED  BY <1>4, <1>7, <1>8 DEF NInv, NodeLedgerSound

LEMMA NodeSteps ==
  ASSUME NInv, [DashNext]_dashVars
  PROVE  NInv'
  <1>1. MemoryTypes /\ pending \in Seq(Tx) /\ NodeLedgerSound
    BY DEF NInv
  <1>2. ASSUME NEW L, NEW t \in Submitted, Pool!Submit(L, t), UNCHANGED vars
        PROVE  NInv'
    <2>1. pending' \in Seq(Tx)
      BY <1>1, <1>2, SubmitTypes, NodeAssumption
    <2>2. UNCHANGED <<stored, cached, work, tip, tipWork, orphans, orphanOrder, diffs, ledger>>
      BY <1>2 DEF vars, tree, queue, chain
    <2> QED  BY <1>1, <2>1, <2>2 DEF NInv, MemoryTypes, NodeLedgerSound, LedgerGood
  <1>3. ASSUME NEW b \in Block, NEW L, HandledFrom(L, b),
               \E X \in SUBSET Image : LedgerGood(L, X, SpentBy(X))
        PROVE  MemoryTypes' /\ NodeLedgerSound'
    <2>1. MemoryTypes'
      BY <1>1, <1>3, HandledTypes
    <2>2. PICK X \in SUBSET Image : LedgerGood(L, X, SpentBy(X))
      BY <1>3
    <2>3. SpentBy(X) \in SUBSET Key
      BY DEF SpentBy
    <2>4. LedgerGood(ledger, X, SpentBy(X))'
      BY <1>3, <2>2, <2>3 DEF HandledFrom, Falls
    <2> QED  BY <2>1, <2>4 DEF NodeLedgerSound
  <1>4. ASSUME NEW b \in Block, Receive(b)  PROVE  NInv'
    <2>1. ReceiveBlock(b) /\ pending' = pending
      BY <1>4 DEF Receive, poolVars
    <2>2. Handled(b)
      BY <1>1, <2>1, QuietHandled, ExtendHandled, ReorgHandled DEF ReceiveBlock
    <2> QED  BY <1>1, <1>3, <2>1, <2>2 DEF Handled, NodeLedgerSound, NInv
  <1>5. ASSUME NEW t \in Submitted, SubmitTx(t) \/ DashSubmit(t)  PROVE  NInv'
    <2>1. (Pool!Submit(ledger, t) \/ Pool!Submit(saved, t)) /\ UNCHANGED vars
      BY <1>5 DEF SubmitTx, DashSubmit
    <2> QED  BY <1>2, <2>1
  <1>6. ASSUME NEW b \in Own, MinePending(b)  PROVE  NInv'
    <2> DEFINE L == Include(HeightOf(b)).ledger
    <2>1. b \in Block /\ Mine(L, b) /\ pending' = <<>>
      BY <1>6, TreeAssumption DEF MinePending, Pool!Drain, Mine
    <2>2. L \in UtxoSet /\ \E Y \in SUBSET Image : LedgerGood(L, Y, SpentBy(Y))
      BY <1>1, MinerLedgerSound
    <2> HIDE DEF L
    <2>3. HandledFrom(L, b)
      BY <1>1, <2>1, <2>2, MineHandledFrom
    <2>4. pending' \in Seq(Tx)
      BY <2>1, EmptySeq
    <2> QED  BY <1>3, <2>1, <2>2, <2>3, <2>4 DEF NInv
  <1>7. CASE UNCHANGED nodeVars
    <2>1. UNCHANGED <<stored, cached, work, tip, tipWork, orphans, orphanOrder, diffs, ledger,
                      pending>>
      BY <1>7 DEF nodeVars, poolVars, vars, tree, queue, chain
    <2> QED  BY <1>1, <2>1 DEF NInv, MemoryTypes, NodeLedgerSound, LedgerGood
  <1> QED  BY <1>4, <1>5, <1>6, <1>7 DEF DashNext, NodeNext, Save, dashVars

THEOREM NodeInvariantHolds == DashSpec => []NInv
  <1>1. DashInit => NInv
    BY NodeStarts
  <1>2. NInv /\ [DashNext]_dashVars => NInv'
    BY NodeSteps
  <1> QED  BY <1>1, <1>2, PTL DEF DashSpec

\* Whatever is submitted, mined, failed to be mined and reorganised away, the node never
\* believes in an output, an amount of supply or the absence of a spend that its chain
\* does not give (mine_block_with_difficulty spends what it includes before the block is
\* applied, and nobody takes that back).
THEOREM TheLedgerIsWithinTheReplay == DashSpec => []LedgerWithinReplay
  <1>1. NInv => LedgerWithinReplay
    <2> SUFFICES ASSUME NInv  PROVE  LedgerWithinReplay
      OBVIOUS
    <2>1. PICK X \in SUBSET Image : LedgerGood(ledger, X, SpentBy(X))
      BY DEF NInv, NodeLedgerSound
    <2> QED  BY <2>1 DEF LedgerGood, Short, LedgerWithinReplay
  <1> QED  BY <1>1, NodeInvariantHolds, PTL

\* What its ledger lacks, a transaction spends whose images are all marked in it.
THEOREM WhatIsLostIsSpent == DashSpec => []LossIsSpent
  <1>1. NInv => LossIsSpent
    <2> SUFFICES ASSUME NInv, NEW k \in Key, Exists(ReplayOf[tip].ledger, k), ~Exists(ledger, k)
                 PROVE  \E t \in Tx : k \in SpentKeys(t) /\ SpentImages(t) \subseteq ledger.images
      BY DEF LossIsSpent
    <2>1. PICK X \in SUBSET Image : LedgerGood(ledger, X, SpentBy(X))
      BY DEF NInv, NodeLedgerSound
    <2>2. k \in SpentBy(X) /\ X \subseteq ledger.images
      BY <2>1 DEF LedgerGood, Short, Exists
    <2> QED  BY <2>2 DEF SpentBy
  <1> QED  BY <1>1, NodeInvariantHolds, PTL

-----------------------------------------------------------------------------
(* What mining drains.                                                     *)

Spending == {t \in Tx : Inputs[t] # <<>>}

\* Why a transaction that spends something is refused, each reason but the
\* first two being one that no ledger changes.
Worthless(L, t, h) ==
  \/ \E k \in SpentKeys(t) \cup Ring[t] : ~Exists(L, k)
  \/ SpentImages(t) \cap L.images # {}
  \/ ~Balanced(t)
  \/ t \notin Authorised
  \/ \E k \in SpentKeys(t) : ~(h >= SpendableAfter[k])

LEMMA RefusedIsWorthless ==
  ASSUME NEW L, NEW t \in Spending, NEW h, ~SpendChecks(L, t, h)
  PROVE  Worthless(L, t, h)
  BY DEF SpendChecks, Worthless, SpentKeys, SpentImages

LEMMA StaysWorthless ==
  ASSUME NEW L, NEW V, NEW t \in Spending, NEW h, Worthless(L, t, h),
         L.images \subseteq V.images, \A k \in Key : Exists(V, k) => Exists(L, k)
  PROVE  Worthless(V, t, h)
  <1>1. SpentKeys(t) \cup Ring[t] \subseteq Key
    BY InputTypes, TransactionAssumption DEF Spending
  <1> QED  BY <1>1 DEF Worthless

\* A drained transaction is in the block, with its images marked, or worthless.
Settled(acc, t, h) ==
  \/ t \in ToSet(acc.body) /\ SpentImages(t) \subseteq acc.ledger.images
  \/ Worthless(acc.ledger, t, h)

LEMMA NextSettles ==
  ASSUME NEW acc \in Inclusion, NEW t \in Tx, NEW h
  PROVE  /\ t \in Spending => Settled(IncludeNext(acc, t, h), t, h)
         /\ \A u \in Spending : Settled(acc, u, h) => Settled(IncludeNext(acc, t, h), u, h)
  <1> DEFINE r == IncludeNext(acc, t, h)
             L == acc.ledger
             V == r.ledger
  <1>1. t \in Tx /\ acc.body \in Seq(Tx) /\ r \in Inclusion
    BY IncludeNextFields DEF Inclusion
  <1>2. CASE ~SpendChecks(L, t, h)
    <2>1. r = acc
      BY <1>1, <1>2, IncludeNextFields
    <2> QED  BY <1>2, <2>1, RefusedIsWorthless DEF Settled
  <1>3. CASE SpendChecks(L, t, h)
    <2>1. /\ \A k \in Key : V.utxos[k] = IF k \in SpentKeys(t) THEN NoEntry ELSE L.utxos[k]
          /\ V.images = L.images \cup SpentImages(t)
          /\ r.body = Append(acc.body, t)
      BY <1>1, <1>3, IncludeNextFields
    <2> HIDE DEF r, L
    <2>2. t \in ToSet(r.body) /\ ToSet(acc.body) \subseteq ToSet(r.body)
      <3> DEFINE s == acc.body
                 N == Len(s)
      <3>1. N \in Nat /\ DOMAIN s = 1..N
        BY <1>1, LenProperties
      <3>2. Append(s, t) \in Seq(Tx) /\ Len(Append(s, t)) = N + 1 /\ Append(s, t)[N + 1] = t
            /\ \A i \in 1..N : Append(s, t)[i] = s[i]
        BY <1>1, AppendProperties
      <3>3. DOMAIN Append(s, t) = 1..(N + 1)
        BY <3>2, LenProperties
      <3> QED  BY <2>1, <3>1, <3>2, <3>3 DEF ToSet
    <2>3. Settled(r, t, h)
      BY <2>1, <2>2 DEF Settled
    <2>4. ASSUME NEW u \in Spending, Settled(acc, u, h)  PROVE  Settled(r, u, h)
      <3>1. CASE Worthless(L, u, h)
        <4>1. \A k \in Key : Exists(V, k) => Exists(L, k)
          BY <2>1 DEF Exists
        <4>2. Worthless(V, u, h)
          BY <2>1, <3>1, <4>1, StaysWorthless
        <4> QED  BY <4>2 DEF Settled
      <3>2. CASE ~Worthless(L, u, h)
        BY <2>1, <2>2, <2>4, <3>2 DEF Settled, L
      <3> QED  BY <3>1, <3>2
    <2> QED  BY <2>3, <2>4 DEF r
  <1> QED  BY <1>2, <1>3

LEMMA DrainSettles ==
  ASSUME ledger \in UtxoSet, pending \in Seq(Tx), NEW h
  PROVE  \A t \in ToSet(pending) : t \in Tx /\ (t \in Spending => Settled(Include(h), t, h))
  <1> DEFINE N == Len(pending)
  <1>1. N \in Nat /\ DOMAIN pending = 1..N /\ \A k \in 1..N : pending[k] \in Tx
    BY LenProperties, ElementOfSeq
  <1>3. PICK P : IncludesBy(P, h)
    BY IncludeByPrefix
  <1>4. /\ P \in [0..N -> Inclusion]
        /\ \A k \in 0..(N - 1) : P[k + 1] = IncludeNext(P[k], pending[k + 1], h)
        /\ Include(h) = P[N]
    BY <1>3 DEF IncludesBy
  <1> HIDE DEF N
  <1> DEFINE T == {k \in 0..N : \A n \in 1..k :
                             pending[n] \in Spending => Settled(P[k], pending[n], h)}
  <1>5. 0 \in T
    BY <1>1
  <1>6. ASSUME NEW k \in 0..(N - 1), k \in T  PROVE  k + 1 \in T
    <2>1. k \in 0..N /\ k + 1 \in 0..N /\ k + 1 \in 1..N /\ P[k] \in Inclusion
          /\ pending[k + 1] \in Tx /\ P[k + 1] = IncludeNext(P[k], pending[k + 1], h)
      BY <1>1, <1>4
    <2>2. ASSUME NEW n \in 1..(k + 1), pending[n] \in Spending
          PROVE  Settled(P[k + 1], pending[n], h)
      <3>1. CASE n = k + 1
        BY <2>1, <2>2, <3>1, NextSettles
      <3>2. CASE n # k + 1
        <4>1. n \in 1..k /\ n \in 1..N
          BY <1>1, <3>2
        <4>2. Settled(P[k], pending[n], h)
          BY <1>6, <2>2, <4>1
        <4> QED  BY <2>1, <2>2, <4>2, NextSettles
      <3> QED  BY <3>1, <3>2
    <2> QED  BY <2>1, <2>2
  <1> HIDE DEF T
  <1>7. \A k \in 0..N : k \in T
    BY <1>1, <1>5, <1>6, BoundedInduction
  <1>8. \A n \in 1..N : pending[n] \in Spending => Settled(P[N], pending[n], h)
    BY <1>1, <1>7 DEF T
  <1> QED  BY <1>1, <1>4, <1>8 DEF ToSet

\* A block unmarks nothing, and makes no output but those of its transactions.
Grows(L, V, b) ==
  /\ L.images \subseteq V.images
  /\ \A k \in Key : Exists(V, k) => \/ Exists(L, k)
                                  \/ \E n \in 1..Len(TxsOf[b]) : k \in KeysOf(TxsOf[b][n])

LEMMA ApplyGrows ==
  ASSUME NEW L \in UtxoSet, NEW b \in Block, ApplyBlock(L, b).ok
  PROVE  Grows(L, ApplyBlock(L, b).ledger, b)
  <1> DEFINE N == Len(TxsOf[b])
  <1>1. N \in Nat
    BY BlockAssumption
  <1>2. PICK P \in [0..N -> Outcome] :
           /\ P[0] = [ok |-> TRUE, ledger |-> L, diff |-> EmptyDiff]
           /\ \A k \in 0..(N - 1) : P[k + 1] = ApplyNext(P[k], b, k + 1)
           /\ LET r == P[N]
              IN  ApplyBlock(L, b) =
                    IF r.ok THEN r
                    ELSE [r EXCEPT !.ledger = UnwindWithDiff(r.ledger, r.diff)]
    BY ApplyByPrefix
  <1> DEFINE T == {k \in 0..N : Grows(L, P[k].ledger, b)}
  <1>3. 0 \in T
    BY <1>1, <1>2 DEF Grows
  <1>4. ASSUME NEW k \in 0..(N - 1), k \in T  PROVE  k + 1 \in T
    <2> DEFINE r == P[k]
               u == P[k + 1]
               n == k + 1
               t == TxsOf[b][n]
    <2>1. k \in 0..N /\ n \in 0..N /\ n \in 1..N /\ n \in Nat /\ r \in Outcome
          /\ u = ApplyNext(r, b, n)
      BY <1>1, <1>2
    <2>2. Grows(L, r.ledger, b) /\ r.ledger \in UtxoSet
      BY <1>4, <2>1 DEF Outcome
    <2> HIDE DEF r, u
    <2>3. CASE ~(r.ok /\ Accepts(r.ledger, b, n))
      <3>1. u.ledger = r.ledger
        BY <2>1, <2>3 DEF ApplyNext, Outcome
      <3> QED  BY <2>1, <2>2, <3>1 DEF u
    <2>4. CASE r.ok /\ Accepts(r.ledger, b, n)
      <3> DEFINE V == LedgerAfterTx(r.ledger, b, n)
      <3>1. u.ledger = V
        BY <2>1, <2>4 DEF ApplyNext
      <3>2. /\ r.ledger.images \subseteq V.images
            /\ \A e \in Key : V.utxos[e] \in {r.ledger.utxos[e], NoEntry} \/ e \in KeysOf(t)
        <4>1. CASE n = 1
          BY <2>2, <4>1, LedgerAfterCoinbase
        <4>2. CASE n # 1
          <5>1. n > 1
            BY <2>1, <4>2
          <5> HIDE DEF n
          <5> QED  BY <2>1, <2>2, <5>1, LedgerAfterSpend
        <4> QED  BY <4>1, <4>2
      <3> HIDE DEF V
      <3>3. Grows(L, V, b)
        BY <2>1, <2>2, <3>2 DEF Grows, Exists
      <3> QED  BY <2>1, <3>1, <3>3 DEF u
    <2> QED  BY <2>3, <2>4
  <1> HIDE DEF T
  <1>5. \A k \in 0..N : k \in T
    BY <1>1, <1>3, <1>4, BoundedInduction
  <1>6. N \in 0..N /\ Grows(L, P[N].ledger, b) /\ P[N] \in Outcome
    BY <1>1, <1>5 DEF T
  <1>7. ApplyBlock(L, b) = P[N]
    BY <1>2, <1>6 DEF Outcome
  <1> QED  BY <1>6, <1>7

LEMMA WorthlessIsRefused ==
  ASSUME NEW V, NEW t \in Spending, NEW h \in Nat, Worthless(V, t, h)
  PROVE  \/ ~(ValidateTransaction(V, t) /\ \A k \in Ring[t] : Exists(V, k))
         \/ t \notin Authorised
         \/ \E k \in SpentKeys(t) : h < SpendableAfter[k]
  <1>1. SpentKeys(t) \subseteq Key /\ SpendableAfter \in [Key -> Nat]
    BY InputTypes, TransactionAssumption DEF Spending
  <1>2. CASE \E k \in SpentKeys(t) : ~(h >= SpendableAfter[k])
    <2>1. PICK k \in SpentKeys(t) : ~(h >= SpendableAfter[k])
      BY <1>2
    <2>2. SpendableAfter[k] \in Nat
      BY <1>1
    <2> QED  BY <2>1, <2>2
  <1>3. CASE \E k \in SpentKeys(t) \cup Ring[t] : ~Exists(V, k)
    BY <1>3 DEF ValidateTransaction, SpentKeys
  <1>4. CASE SpentImages(t) \cap V.images # {}
    BY <1>4 DEF ValidateTransaction, SpentImages
  <1>5. CASE ~Balanced(t)
    BY <1>5 DEF ValidateTransaction, Spending
  <1> QED  BY <1>2, <1>3, <1>4, <1>5 DEF Worthless

\* Mining takes everything out of the pool, what the dashboard let in against an older
\* ledger included.  What does not get into a block that becomes the tip, the ledger that
\* mining leaves refuses, but for what DrainedStep excepts: nothing that is good at that
\* moment is lost with it (drain in mine_block_with_difficulty).  What later blocks and
\* reorganisations make good again is not the theorem's matter.
THEOREM NothingGoodIsDrained == DashSpec => DrainedIsDead
  <1>1. ASSUME NInv, [DashNext]_dashVars, pending # <<>>, pending' = <<>>,
               NEW t \in ToSet(pending), t \in Spending
        PROVE  \/ tip' # tip /\ t \in ToSet(TxsOf[tip'])
               \/ ~(ValidateTransaction(ledger', t) /\ \A k \in Ring[t] : Exists(ledger', k))
               \/ t \notin Authorised
               \/ \E k \in SpentKeys(t) : HeightOf(tip) + 1 < SpendableAfter[k]
               \/ /\ tip' # tip
                  /\ \E u \in ToSet(TxsOf[tip']) : KeysOf(u) \cap (SpentKeys(t) \cup Ring[t]) # {}
    <2>1. PICK b \in Own : MinePending(b)
      <3>1. \A b \in Block : ~Receive(b)
        BY <1>1 DEF Receive, poolVars
      <3>2. ASSUME NEW u \in Submitted, SubmitTx(u) \/ DashSubmit(u)  PROVE  FALSE
        <4>1. Pool!Submit(ledger, u) \/ Pool!Submit(saved, u)
          BY <3>2 DEF SubmitTx, DashSubmit
        <4> QED  BY <1>1, <4>1, SubmitTypes, NodeAssumption DEF NInv
      <3>3. ~UNCHANGED nodeVars
        BY <1>1 DEF nodeVars, poolVars
      <3> QED  BY <1>1, <3>1, <3>2, <3>3 DEF DashNext, NodeNext, Save, dashVars
    <2> DEFINE h == HeightOf(b)
               acc == Include(h)
               L == acc.ledger
               r == ApplyBlock(L, b)
    <2>2. MemoryTypes /\ pending \in Seq(Tx) /\ NodeLedgerSound
      BY <1>1 DEF NInv
    <2>3. /\ b \in Block /\ Tail(TxsOf[b]) = acc.body /\ Mine(L, b)
      BY <2>1, TreeAssumption DEF MinePending
    <2>4. L \in UtxoSet /\ \E Y \in SUBSET Image : LedgerGood(L, Y, SpentBy(Y))
      BY <2>2, MinerLedgerSound
    <2>5. t \in Spending /\ Settled(acc, t, h)
      BY <1>1, <2>2, DrainSettles DEF MemoryTypes
    <2> HIDE DEF acc, h
    <2>6. PICK Y : LedgerGood(L, Y, SpentBy(Y))
      BY <2>4
    <2>7. tip # Zero /\ tip \in stored /\ tip \in Hash /\ Parent[b] = tip /\ b \in Hash
      BY <2>2, <2>3, <2>6 DEF LedgerGood, MemoryTypes, Mine, Hash
    <2>8. /\ h = HeightOf(tip) + 1 /\ h \in Nat
          /\ ledger' = r.ledger /\ CanAdd(b)
      <3>1. HeightOf(b) \in Nat
        BY <2>3, BlockAssumption, TreeAssumption DEF HeightOf
      <3> QED  BY <2>3, <2>7, <3>1 DEF Mine, CanAdd, h
    <2>9. CASE r.ok
      <3>1. tip' = b
        BY <2>3, <2>8, <2>9 DEF Mine, SetChainTip
      <3>2. b # tip
        BY <2>7, PathFacts
      <3>3. Grows(L, ledger', b)
        BY <2>3, <2>4, <2>8, <2>9, ApplyGrows
      <3>4. CASE t \in ToSet(acc.body)
        <4>1. TxsOf[b] \in Seq(Tx) /\ TxsOf[b] # <<>>
          BY <2>1, <2>3, BlockAssumption, TreeAssumption
        <4>2. ToSet(Tail(TxsOf[b])) \subseteq ToSet(TxsOf[b])
          <5> DEFINE s == TxsOf[b]
          <5>1. s \in Seq(Tx) /\ s # <<>> /\ Len(s) \in Nat /\ DOMAIN s = 1..Len(s)
            BY <4>1, LenProperties
          <5>2. /\ Tail(s) \in Seq(Tx) /\ Len(Tail(s)) = Len(s) - 1
                /\ \A i \in 1..Len(Tail(s)) : Tail(s)[i] = s[i + 1]
            BY <5>1, HeadTailProperties
          <5>3. DOMAIN Tail(s) = 1..(Len(s) - 1)
            BY <5>2, LenProperties
          <5> HIDE DEF s
          <5>4. ASSUME NEW i \in 1..(Len(s) - 1)  PROVE  \E j \in 1..Len(s) : Tail(s)[i] = s[j]
            <6>1. i + 1 \in 1..Len(s) /\ Tail(s)[i] = s[i + 1]
              BY <5>1, <5>2
            <6> QED  BY <6>1
          <5> QED  BY <5>1, <5>3, <5>4 DEF ToSet, s
        <4> QED  BY <2>3, <3>1, <3>2, <3>4, <4>2
      <3>5. CASE Worthless(L, t, h)
        <4>1. CASE Worthless(ledger', t, h)
          BY <2>5, <2>8, <4>1, WorthlessIsRefused
        <4>2. CASE ~Worthless(ledger', t, h)
          <5>1. PICK k \in SpentKeys(t) \cup Ring[t] : ~Exists(L, k) /\ Exists(ledger', k)
            BY <3>3, <3>5, <4>2 DEF Worthless, Grows
          <5>2. k \in Key
            BY <2>5, InputTypes, TransactionAssumption DEF Spending
          <5>3. PICK n \in 1..Len(TxsOf[b]) : k \in KeysOf(TxsOf[b][n])
            BY <3>3, <5>1, <5>2 DEF Grows
          <5>4. TxsOf[b][n] \in ToSet(TxsOf[b])
            BY <2>3, BlockAssumption, LenProperties DEF ToSet
          <5> QED  BY <3>1, <3>2, <5>1, <5>3, <5>4
        <4> QED  BY <4>1, <4>2
      <3> QED  BY <2>5, <3>4, <3>5 DEF Settled
    <2>10. CASE ~r.ok
      <3>1. ledger' = L
        BY <2>2, <2>3, <2>4, <2>6, <2>7, <2>8, <2>10, AppliedShortOfTip DEF ExtendsShort
      <3>2. CASE SpentImages(t) \subseteq L.images
        <4>1. \E i \in ToSet(Inputs[t]) : i.image \in SpentImages(t)
          BY <2>5, InputTypes DEF Spending, SpentImages
        <4> QED  BY <3>1, <3>2, <4>1 DEF ValidateTransaction
      <3>3. CASE Worthless(L, t, h)
        BY <2>5, <2>8, <3>1, <3>3, WorthlessIsRefused
      <3> QED  BY <2>5, <3>2, <3>3 DEF Settled
    <2> QED  BY <2>9, <2>10
  <1>2. NInv /\ [DashNext]_dashVars => [DrainedStep]_dashVars
    <2> SUFFICES ASSUME NInv, [DashNext]_dashVars, pending # <<>>, pending' = <<>>
                 PROVE  DrainedStep
      BY DEF DrainedStep
    <2>1. ASSUME NEW t \in ToSet(pending), t \notin Spending  PROVE  Inputs[t] = <<>>
      <3>1. ToSet(pending) \subseteq Tx
        BY LenProperties, ElementOfSeq DEF NInv, ToSet
      <3> QED  BY <2>1, <3>1 DEF Spending
    <2> QED  BY <1>1, <2>1 DEF DrainedStep
  <1> QED  BY <1>2, NodeInvariantHolds, PTL DEF DashSpec, DrainedIsDead
==============================================================================
