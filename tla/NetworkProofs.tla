---------------------------- MODULE NetworkProofs ----------------------------
(***************************************************************************)
(* Proofs about the network: what each node sends and to whom, that what   *)
(* its event loop does is what Node does, and from both the safety of its  *)
(* bookkeeping about peers and synchronisation.                            *)
(***************************************************************************)
EXTENDS NetworkInvariant, UtxoLedgerProofs

-----------------------------------------------------------------------------
(* What is served from a log.                                              *)

\* Both nodes select the same blocks from a log.
LEMMA ServedAlike ==
  ASSUME NEW log, NEW low, NEW high
  PROVE  A!Served(log, low, high) = B!Served(log, low, high)
  BY DEF A!Served, B!Served, A!HeightOf, B!HeightOf, A!FoldLeft, B!FoldLeft,
         A!MapThenFoldSet, B!MapThenFoldSet, A!Max, B!Max

\* What is selected from a log of blocks of V are blocks of V.
LEMMA ServedType ==
  ASSUME NEW V, NEW log \in Seq(V), NEW low, NEW high
  PROVE  A!Served(log, low, high) \in Seq(V)
  <1> DEFINE N == Len(log)
             keep(v, h) == IF A!HeightOf(h) >= low /\ A!HeightOf(h) <= high
                           THEN Append(v, h) ELSE v
             Body(g) == [x \in SUBSET (DOMAIN log) |->
                           IF x = {} THEN <<>> ELSE keep(g[x \ {Max(x)}], log[Max(x)])]
             F == CHOOSE g : g = Body(g)
             step == [p \in Seq(V) \X V |-> keep(p[1], p[2])]
  <1>1. A!Served(log, low, high) = F[DOMAIN log]
    BY DEF A!Served, A!FoldLeft, A!MapThenFoldSet, A!Max, Max
  <1>2. \A v \in Seq(V), h \in V : keep(v, h) \in Seq(V) /\ step[<<v, h>>] = keep(v, h)
    OBVIOUS
  <1>3. N \in Nat /\ DOMAIN log = 1..N /\ \A k \in 1..N : log[k] \in V
    OBVIOUS
  <1> HIDE DEF step, keep
  <1>4. FoldStep(V, Seq(V), <<>>, step)
    BY <1>2 DEF FoldStep
  <1>5. PICK g : FoldSolution(log, Seq(V), <<>>, step, g)
    BY <1>4, FoldRecursion
  <1>6. g = Body(g)
    <2>1. ASSUME NEW x \in SUBSET (DOMAIN log), x # {}
          PROVE  step[<<g[x \ {Max(x)}], log[Max(x)]>>] = keep(g[x \ {Max(x)}], log[Max(x)])
      <3>1. g[x \ {Max(x)}] \in Seq(V)
        BY <1>5 DEF FoldSolution
      <3>2. Max(x) \in DOMAIN log
        BY <2>1, <1>3, MaxOfInterval
      <3> QED  BY <3>1, <3>2, <1>2
    <2> QED  BY <2>1, <1>5 DEF FoldSolution
  <1>7. F = Body(F)
    BY <1>6
  <1> HIDE DEF F, N
  <1>8. F[1..0] = <<>>
    BY <1>7
  <1>9. ASSUME NEW k \in 0..(N - 1)  PROVE  F[1..(k + 1)] = keep(F[1..k], log[k + 1])
    <2>1. F[1..(k + 1)] = Body(F)[1..(k + 1)]
      BY <1>7
    <2> QED  BY <2>1, FirstPlaces DEF N
  <1> DEFINE T == {k \in 0..N : F[1..k] \in Seq(V)}
  <1>10. 0 \in T
    <2>1. F[1..0] \in Seq(V)
      BY <1>8
    <2> QED  BY <2>1, <1>3
  <1>11. ASSUME NEW k \in 0..(N - 1), k \in T  PROVE  k + 1 \in T
    <2>1. k \in 0..N /\ k + 1 \in 0..N /\ log[k + 1] \in V /\ F[1..k] \in Seq(V)
      BY <1>11, <1>3
    <2> QED  BY <2>1, <1>2, <1>9
  <1> HIDE DEF T
  <1>12. \A k \in 0..N : k \in T
    BY <1>10, <1>11, <1>3, BoundedInduction
  <1>13. F[1..N] \in Seq(V)
    BY <1>12, <1>3 DEF T
  <1> QED  BY <1>1, <1>3, <1>13

-----------------------------------------------------------------------------
(* What a handler does to what is under way and to its node.               *)

\* What node n sends: to a node it is connected to, or a question to Outside.
Sent(n, m) ==
  /\ m.from = n
  /\ \/ {n, m.to} \in links
     \/ n = "A" /\ m.to = Outside /\ m.type = "BlockRequest"
  /\ \/ m.type = "Gossip" /\ Gossiped(m.content)'
     \/ m.type = "BlockRequest"
     \/ m.type = "BlockResponse" /\ m.blocks \in Seq(Made)'

\* The messages gone are handled, and what n sends is under way.
Sends(n, gone) ==
  \E new : net' = (net \ gone) \cup new /\ \A m \in new : Sent(n, m)

\* Nothing, one message, or any set of them.
LEMMA SendsAll ==
  ASSUME NEW n, NEW gone, NEW new, net' = (net \ gone) \cup new, \A m \in new : Sent(n, m)
  PROVE  Sends(n, gone)
  BY Zenon DEF Sends

LEMMA SendsNothing ==
  ASSUME NEW n, NEW gone, net' = net \ gone
  PROVE  Sends(n, gone)
  <1> DEFINE new == {}
  <1>1. net' = (net \ gone) \cup new /\ \A m \in new : Sent(n, m)
    OBVIOUS
  <1> HIDE DEF new
  <1> QED  BY <1>1, SendsAll

LEMMA SendsOne ==
  ASSUME NEW n, NEW gone, NEW r, net' = (net \ gone) \cup {r}, Sent(n, r)
  PROVE  Sends(n, gone)
  <1> DEFINE new == {r}
  <1>1. net' = (net \ gone) \cup new /\ \A m \in new : Sent(n, m)
    OBVIOUS
  <1> HIDE DEF new
  <1> QED  BY <1>1, SendsAll

\* The step of one node leaves the other and the connection alone.
AloneA == UNCHANGED <<storedB, tipB, linesB, inboxB, links>>
AloneB == UNCHANGED <<storedA, tipA, linesA, inboxA, links>>

\* What A and B have after a step of theirs.
MovedA(gone) ==
  /\ Sends("A", gone)
  /\ storedA \subseteq storedA' /\ tipA' \in storedA' /\ linesA' \in Seq(Made)'
  /\ [A!NodeNext]_(A!nodeVars)
MovedB(gone) ==
  /\ Sends("B", gone)
  /\ storedB \subseteq storedB' /\ tipB' \in storedB' /\ linesB' \in Seq(Made)'
  /\ [B!NodeNext \/ B!Restart]_(B!nodeVars)

\* A block that exists continues to exist, and what is made of such blocks too.
LEMMA MadeGrows ==
  ASSUME storedA \subseteq storedA', storedB \subseteq storedB'
  PROVE  /\ Made \subseteq Made'
         /\ \A s \in Seq(Made) : s \in Seq(Made)'
         /\ \A c : Gossiped(c) => Gossiped(c)'
  <1>1. Made \subseteq Made'
    BY DEF Made
  <1>2. \A s \in Seq(Made) : s \in Seq(Made')
    BY <1>1
  <1> QED  BY <1>1, <1>2 DEF Gossiped

\* Who a message to A is from, and that one can answer unless it says that the
\* connection has ended.
LEMMA FromA ==
  ASSUME MessagesSound, ConnectionSound, NEW m \in A!Arrived
  PROVE  /\ MessageTyped(m)
         /\ \/ m.from = "B" /\ (m.type # "ConnectionClosed" => {"A", m.from} \in links)
            \/ "A" = "A" /\ m.from = Outside /\ m.type \in {"Gossip", "BlockResponse"}
         /\ m.from # "A"
  <1>1. m \in net /\ m.to = "A" /\ MessageTyped(m) /\ Routed(m)
    BY DEF MessagesSound, A!Arrived
  <1>2. "A" # Outside /\ "B" # Outside
    BY NetworkAssumption DEF A!RelayAssumption, B!RelayAssumption
  <1>3. \/ m.from = "B"
        \/ "A" = "A" /\ m.from = Outside /\ m.type \in {"Gossip", "BlockResponse"}
    BY <1>1, <1>2 DEF Routed
  <1>4. m.from = "B" /\ m.type # "ConnectionClosed" => {"A", m.from} \in links
    <2>1. m.from = "B" => m \in Between
      BY <1>1 DEF Between
    <2>2. {"A", "B"} = {"B", "A"}
      OBVIOUS
    <2> QED  BY <2>1, <2>2 DEF ConnectionSound, Together
  <1> QED  BY <1>1, <1>2, <1>3, <1>4

\* What A spreads goes to nodes it is connected to.
LEMMA SpreadA ==
  ASSUME NEW c, Gossiped(c)', NEW but, NEW m \in A!Spread(c, but)
  PROVE  Sent("A", m)
  <1>1. PICK p \in A!Linked : m = A!Gossip("A", p, c)
    BY DEF A!Spread
  <1>2. {"A", p} \in links
    BY DEF A!Linked
  <1>3. m.from = "A" /\ m.to = p /\ m.type = "Gossip" /\ m.content = c
    BY <1>1 DEF A!Gossip
  <1> QED  BY <1>2, <1>3 DEF Sent

\* What it does to its tree and its tip is what Node does with a block.
LEMMA ATakesAsNode ==
  ASSUME tipA \in storedA, NEW b \in Made, NEW gone, NEW known, NEW out,
         A!TakeBlock(b, gone, known, out)
  PROVE  /\ storedA \subseteq storedA' /\ tipA' \in storedA'
         /\ UNCHANGED A!vars \/ (b \in Block /\ A!ReceiveBlock(b))
  <1>1. CASE UNCHANGED A!vars
    BY <1>1 DEF A!vars
  <1>2. CASE b \in Proven /\ (A!QueueOrphan(b) \/ A!RejectGenesis(b) \/ A!ExtendCanonical(b)
                              \/ A!ReorgToNew(b) \/ A!Sidechain(b))
    <2>1. b \in Block /\ A!ReceiveBlock(b)
      BY <1>2, OutsideAssumption DEF A!ReceiveBlock, A!Arrives, Made
    <2>2. storedA' = storedA \/ storedA' = storedA \cup {b}
      BY <1>2 DEF A!QueueOrphan, A!RejectGenesis, A!ExtendCanonical, A!ReorgToNew, A!Sidechain,
                  A!Connects, A!AddBlock, A!tree
    <2>3. tipA' = tipA \/ (tipA' = b /\ storedA' = storedA \cup {b})
      BY <1>2 DEF A!QueueOrphan, A!RejectGenesis, A!ExtendCanonical, A!ReorgToNew, A!Sidechain,
                  A!Connects, A!AddBlock, A!chain, A!SetChainTip, A!ExecuteReorg
    <2> QED  BY <2>1, <2>2, <2>3
  <1> QED  BY <1>1, <1>2 DEF A!TakeBlock, A!Refused

\* A block that exists is taken: what A had forwarded and the announcement are
\* sent, and the tree, the tip, the lines and the node move as they may.
LEMMA ATakes ==
  ASSUME TipsStored, BlocksExist, AloneA,
         NEW b \in Made, NEW gone, NEW known, NEW out,
         \A m \in out : \E c, but : Gossiped(c) /\ m \in A!Spread(c, but),
         A!TakeBlock(b, gone, known, out), UNCHANGED A!poolVars
  PROVE  MovedA(gone)
  <1>1. /\ storedA \subseteq storedA' /\ tipA' \in storedA'
        /\ UNCHANGED A!vars \/ (b \in Block /\ A!ReceiveBlock(b))
    BY ATakesAsNode DEF TipsStored
  <1>2. Made \subseteq Made' /\ (\A s \in Seq(Made) : s \in Seq(Made)')
        /\ \A d : Gossiped(d) => Gossiped(d)'
    BY <1>1, MadeGrows DEF AloneA
  <1>3. Gossiped(A!CompactBlock(b))
    BY DEF Gossiped, A!CompactBlock
  <1>4. \A m \in out \cup A!Published(b, known) : Sent("A", m)
    <2>1. \A m \in out : Sent("A", m)
      BY <1>2, SpreadA
    <2>2. \A m \in A!Published(b, known) : Sent("A", m)
      BY <1>2, <1>3, SpreadA DEF A!Published
    <2> QED  BY <2>1, <2>2
  <1>5. /\ \/ net' = (net \ gone) \cup (out \cup A!Published(b, known))
           \/ net' = (net \ gone) \cup out
        /\ linesA' = linesA \/ linesA' = Append(linesA, b)
    BY DEF A!TakeBlock, A!Accept, A!Drop
  <1>6. Sends("A", gone)
    BY <1>4, <1>5 DEF Sends
  <1>7. linesA' \in Seq(Made)'
    <2>1. linesA \in Seq(Made) /\ Append(linesA, b) \in Seq(Made)
      BY DEF BlocksExist
    <2> QED  BY <2>1, <1>2, <1>5
  <1>8. [A!NodeNext]_(A!nodeVars)
    BY <1>1 DEF A!NodeNext, A!Receive, A!nodeVars
  <1> QED  BY <1>1, <1>6, <1>7, <1>8 DEF MovedA

\* Who a message to B is from, and that one can answer unless it says that the
\* connection has ended.
LEMMA FromB ==
  ASSUME MessagesSound, ConnectionSound, NEW m \in B!Arrived
  PROVE  /\ MessageTyped(m)
         /\ \/ m.from = "A" /\ (m.type # "ConnectionClosed" => {"B", m.from} \in links)
            \/ "B" = "A" /\ m.from = Outside /\ m.type \in {"Gossip", "BlockResponse"}
         /\ m.from # "B"
  <1>1. m \in net /\ m.to = "B" /\ MessageTyped(m) /\ Routed(m)
    BY DEF MessagesSound, B!Arrived
  <1>2. "A" # Outside /\ "B" # Outside
    BY NetworkAssumption DEF A!RelayAssumption, B!RelayAssumption
  <1>3. \/ m.from = "A"
        \/ "B" = "A" /\ m.from = Outside /\ m.type \in {"Gossip", "BlockResponse"}
    BY <1>1, <1>2 DEF Routed
  <1>4. m.from = "A" /\ m.type # "ConnectionClosed" => {"B", m.from} \in links
    <2>1. m.from = "A" => m \in Between
      BY <1>1 DEF Between
    <2>2. {"A", "B"} = {"B", "A"}
      OBVIOUS
    <2> QED  BY <2>1, <2>2 DEF ConnectionSound, Together
  <1> QED  BY <1>1, <1>2, <1>3, <1>4

\* What B spreads goes to nodes it is connected to.
LEMMA SpreadB ==
  ASSUME NEW c, Gossiped(c)', NEW but, NEW m \in B!Spread(c, but)
  PROVE  Sent("B", m)
  <1>1. PICK p \in B!Linked : m = B!Gossip("B", p, c)
    BY DEF B!Spread
  <1>2. {"B", p} \in links
    BY DEF B!Linked
  <1>3. m.from = "B" /\ m.to = p /\ m.type = "Gossip" /\ m.content = c
    BY <1>1 DEF B!Gossip
  <1> QED  BY <1>2, <1>3 DEF Sent

\* What it does to its tree and its tip is what Node does with a block.
LEMMA BTakesAsNode ==
  ASSUME tipB \in storedB, NEW b \in Made, NEW gone, NEW known, NEW out,
         B!TakeBlock(b, gone, known, out)
  PROVE  /\ storedB \subseteq storedB' /\ tipB' \in storedB'
         /\ UNCHANGED B!vars \/ (b \in Block /\ B!ReceiveBlock(b))
  <1>1. CASE UNCHANGED B!vars
    BY <1>1 DEF B!vars
  <1>2. CASE b \in Proven /\ (B!QueueOrphan(b) \/ B!RejectGenesis(b) \/ B!ExtendCanonical(b)
                              \/ B!ReorgToNew(b) \/ B!Sidechain(b))
    <2>1. b \in Block /\ B!ReceiveBlock(b)
      BY <1>2, OutsideAssumption DEF B!ReceiveBlock, B!Arrives, Made
    <2>2. storedB' = storedB \/ storedB' = storedB \cup {b}
      BY <1>2 DEF B!QueueOrphan, B!RejectGenesis, B!ExtendCanonical, B!ReorgToNew, B!Sidechain,
                  B!Connects, B!AddBlock, B!tree
    <2>3. tipB' = tipB \/ (tipB' = b /\ storedB' = storedB \cup {b})
      BY <1>2 DEF B!QueueOrphan, B!RejectGenesis, B!ExtendCanonical, B!ReorgToNew, B!Sidechain,
                  B!Connects, B!AddBlock, B!chain, B!SetChainTip, B!ExecuteReorg
    <2> QED  BY <2>1, <2>2, <2>3
  <1> QED  BY <1>1, <1>2 DEF B!TakeBlock, B!Refused

\* A block that exists is taken: what B had forwarded and the announcement are
\* sent, and the tree, the tip, the lines and the node move as they may.
LEMMA BTakes ==
  ASSUME TipsStored, BlocksExist, AloneB,
         NEW b \in Made, NEW gone, NEW known, NEW out,
         \A m \in out : \E c, but : Gossiped(c) /\ m \in B!Spread(c, but),
         B!TakeBlock(b, gone, known, out), UNCHANGED B!poolVars
  PROVE  MovedB(gone)
  <1>1. /\ storedB \subseteq storedB' /\ tipB' \in storedB'
        /\ UNCHANGED B!vars \/ (b \in Block /\ B!ReceiveBlock(b))
    BY BTakesAsNode DEF TipsStored
  <1>2. Made \subseteq Made' /\ (\A s \in Seq(Made) : s \in Seq(Made)')
        /\ \A d : Gossiped(d) => Gossiped(d)'
    BY <1>1, MadeGrows DEF AloneB
  <1>3. Gossiped(B!CompactBlock(b))
    BY DEF Gossiped, B!CompactBlock
  <1>4. \A m \in out \cup B!Published(b, known) : Sent("B", m)
    <2>1. \A m \in out : Sent("B", m)
      BY <1>2, SpreadB
    <2>2. \A m \in B!Published(b, known) : Sent("B", m)
      BY <1>2, <1>3, SpreadB DEF B!Published
    <2> QED  BY <2>1, <2>2
  <1>5. /\ \/ net' = (net \ gone) \cup (out \cup B!Published(b, known))
           \/ net' = (net \ gone) \cup out
        /\ linesB' = linesB \/ linesB' = Append(linesB, b)
    BY DEF B!TakeBlock, B!Accept, B!Drop
  <1>6. Sends("B", gone)
    BY <1>4, <1>5 DEF Sends
  <1>7. linesB' \in Seq(Made)'
    <2>1. linesB \in Seq(Made) /\ Append(linesB, b) \in Seq(Made)
      BY DEF BlocksExist
    <2> QED  BY <2>1, <1>2, <1>5
  <1>8. [B!NodeNext]_(B!nodeVars)
    BY <1>1 DEF B!NodeNext, B!Receive, B!nodeVars
  <1> QED  BY <1>1, <1>6, <1>7, <1>8 DEF MovedB

\* Whatever arrives at A, its handler does no more than that.
LEMMA HandlesAtA ==
  ASSUME TipsStored, BlocksExist, MessagesSound, ConnectionSound, AloneA,
         NEW m \in A!Arrived, A!Handle(m)
  PROVE  MovedA({m}) /\ inboxA' \in Seq(Made)'
  <1>1. /\ MessageTyped(m)
        /\ \/ m.from = "B" /\ (m.type # "ConnectionClosed" => {"A", m.from} \in links)
           \/ "A" = "A" /\ m.from = Outside /\ m.type \in {"Gossip", "BlockResponse"}
    BY FromA
  <1>2. ASSUME storedA \subseteq storedA'
        PROVE  (\A s \in Seq(Made) : s \in Seq(Made)') /\ \A c : Gossiped(c) => Gossiped(c)'
    BY <1>2, MadeGrows DEF AloneA
  <1>3. linesA \in Seq(Made) /\ inboxA \in Seq(Made) /\ tipA \in storedA
    BY DEF BlocksExist, TipsStored
  <1>4. ASSUME UNCHANGED A!vars
        PROVE  /\ storedA \subseteq storedA' /\ tipA' \in storedA'
               /\ linesA' = linesA => linesA' \in Seq(Made)'
               /\ inboxA' = inboxA => inboxA' \in Seq(Made)'
               /\ UNCHANGED A!poolVars => [A!NodeNext]_(A!nodeVars)
    <2>1. storedA' = storedA /\ tipA' = tipA
      BY <1>4 DEF A!vars
    <2>2. \A s \in Seq(Made) : s \in Seq(Made)'
      BY <2>1, <1>2
    <2> QED  BY <2>1, <2>2, <1>3, <1>4 DEF A!nodeVars
  <1>5. ASSUME NEW b \in Made, NEW known, A!TakeBlock(b, {m}, known, A!Forwards(m)),
               UNCHANGED A!poolVars, inboxA' = inboxA, m.type = "Gossip"
        PROVE  MovedA({m}) /\ inboxA' \in Seq(Made)'
    <2>1. Gossiped(m.content)
      BY <1>1, <1>5 DEF MessageTyped
    <2>2. MovedA({m})
      BY <1>5, <2>1, ATakes DEF A!Forwards
    <2>3. storedA \subseteq storedA'
      BY <2>2 DEF MovedA
    <2> QED  BY <2>2, <2>3, <1>2, <1>3, <1>5
  <1>6. CASE A!HearAgain(m)
    <2>1. UNCHANGED A!vars /\ UNCHANGED A!poolVars /\ linesA' = linesA /\ inboxA' = inboxA
      BY <1>6 DEF A!HearAgain, A!nodeVars, A!relayVars
    <2>2. Sends("A", {m})
      <3>1. net' = net \ {m}
        BY <1>6 DEF A!HearAgain
      <3> QED  BY <3>1, SendsNothing
    <2> QED  BY <2>1, <2>2, <1>4 DEF MovedA
  <1>7. CASE A!HearBlock(m)
    <2>1. m.type = "Gossip" /\ m.content.block \in Made
      BY <1>1, <1>7 DEF A!HearBlock, A!Fresh, A!Hears, MessageTyped, Gossiped
    <2> QED  BY <2>1, <1>5, <1>7 DEF A!HearBlock
  <1>8. CASE A!HearCompact(m)
    <2>1. m.type = "Gossip" /\ m.content.block \in Made /\ Gossiped(m.content)
      BY <1>1, <1>8 DEF A!HearCompact, A!Fresh, A!Hears, MessageTyped, Gossiped
    <2>2. UNCHANGED A!poolVars /\ inboxA' = inboxA
      BY <1>8 DEF A!HearCompact
    <2>3. ASSUME NEW more, net' = ((net \ {m}) \cup A!Forwards(m)) \cup more,
                 \A r \in more : Sent("A", r), UNCHANGED A!vars, linesA' = linesA
          PROVE  MovedA({m}) /\ inboxA' \in Seq(Made)'
      <3>1. Gossiped(m.content)'
        BY <2>1, <2>3, <1>2 DEF A!vars
      <3>2. \A r \in A!Forwards(m) \cup more : Sent("A", r)
        BY <2>3, <3>1, SpreadA DEF A!Forwards
      <3>3. net' = (net \ {m}) \cup (A!Forwards(m) \cup more)
        BY <2>3
      <3>4. Sends("A", {m})
        BY <3>2, <3>3, SendsAll
      <3> QED  BY <2>2, <2>3, <3>4, <1>4 DEF MovedA
    <2>4. CASE net' = (net \ {m}) \cup A!Forwards(m) /\ UNCHANGED <<A!vars, linesA>>
      <3> DEFINE more == {}
      <3>1. /\ net' = ((net \ {m}) \cup A!Forwards(m)) \cup more
            /\ \A r \in more : Sent("A", r)
            /\ UNCHANGED A!vars /\ linesA' = linesA
        BY <2>4
      <3> HIDE DEF more
      <3> QED  BY <2>3, <3>1
    <2>5. CASE A!TakeBlock(m.content.block, {m}, A!Known(m), A!Forwards(m))
      BY <2>1, <2>2, <2>5, <1>5
    <2>6. CASE /\ net' = (net \ {m}) \cup A!Forwards(m)
                           \cup {A!BlockRequest("A", m.from, A!HeightOf(m.content.block),
                                                A!HeightOf(m.content.block))}
               /\ UNCHANGED <<A!vars, linesA>>
      <3> DEFINE r == A!BlockRequest("A", m.from, A!HeightOf(m.content.block),
                                     A!HeightOf(m.content.block))
      <3>1. Sent("A", r)
        BY <1>1, <2>1 DEF Sent, A!BlockRequest
      <3> DEFINE more == {r}
      <3>2. /\ net' = ((net \ {m}) \cup A!Forwards(m)) \cup more
            /\ UNCHANGED A!vars /\ linesA' = linesA
        BY <2>6
      <3> HIDE DEF r
      <3>3. \A q \in more : Sent("A", q)
        BY <3>1
      <3> HIDE DEF more
      <3> QED  BY <2>3, <3>2, <3>3
    <2> QED  BY <2>4, <2>5, <2>6, <1>8 DEF A!HearCompact
  <1>9. CASE A!HearTransaction(m)
    <2>1. /\ m.content.tx \in Submitted /\ Gossiped(m.content)
      BY <1>1, <1>9 DEF A!HearTransaction, A!Fresh, A!Hears, MessageTyped, Gossiped
    <2>2. /\ A!Pool!Submit(ledgerA, m.content.tx) \/ UNCHANGED A!poolVars
          /\ UNCHANGED A!vars /\ linesA' = linesA /\ inboxA' = inboxA
          /\ net' = (net \ {m}) \cup A!Forwards(m)
      BY <1>9 DEF A!HearTransaction
    <2>3. [A!NodeNext]_(A!nodeVars)
      BY <2>1, <2>2 DEF A!NodeNext, A!SubmitTx, A!nodeVars
    <2>4. Gossiped(m.content)'
      BY <2>1, <2>2, <1>2 DEF A!vars
    <2>5. Sends("A", {m})
      BY <2>2, <2>4, SpreadA, SendsAll DEF A!Forwards
    <2> QED  BY <2>2, <2>3, <2>5, <1>4 DEF MovedA
  <1>10. CASE A!ConnectionEstablished(m)
    <2>1. UNCHANGED A!vars /\ UNCHANGED A!poolVars /\ linesA' = linesA /\ inboxA' = inboxA
      BY <1>10 DEF A!ConnectionEstablished, A!nodeVars, A!relayVars
    <2>2. \A r \in A!Ask(m.from) : Sent("A", r)
      <3>1. {"A", m.from} \in links
        BY <1>1, <1>10 DEF A!ConnectionEstablished, A!Idle
      <3>2. A!Ask(m.from) = {A!BlockRequest("A", m.from, A!HeightOf(tipA) + 1,
                                            A!HeightOf(tipA) + 1 + Window)}
        BY DEF A!Ask
      <3>3. \A low, high : Sent("A", A!BlockRequest("A", m.from, low, high))
        BY <3>1 DEF A!BlockRequest, Sent
      <3> QED  BY <3>2, <3>3
    <2>3. net' = (net \ {m}) \cup A!Ask(m.from) \/ net' = net \ {m}
      BY <1>10 DEF A!ConnectionEstablished
    <2>4. Sends("A", {m})
      BY <2>2, <2>3, SendsAll, SendsNothing
    <2> QED  BY <2>1, <2>4, <1>4 DEF MovedA
  <1>11. CASE A!ConnectionClosed(m)
    <2>1. UNCHANGED A!vars /\ UNCHANGED A!poolVars /\ linesA' = linesA /\ inboxA' = inboxA
      BY <1>11 DEF A!ConnectionClosed, A!nodeVars
    <2>2. net' = net \ {m}
      BY <1>11 DEF A!ConnectionClosed
    <2>3. Sends("A", {m})
      BY <2>2, SendsNothing
    <2> QED  BY <2>1, <2>3, <1>4 DEF MovedA
  <1>12. CASE A!AnswerRequest(m)
    <2>1. UNCHANGED A!vars /\ UNCHANGED A!poolVars /\ linesA' = linesA /\ inboxA' = inboxA
      BY <1>12 DEF A!AnswerRequest, A!nodeVars, A!relayVars
    <2> DEFINE served == A!Served(linesA, m.low, m.high)
               r == A!BlockResponse("A", m.from, served)
    <2>2. served \in Seq(Made)'
      <3>1. served \in Seq(Made)
        BY <1>3, ServedType, ServedAlike
      <3>2. storedA \subseteq storedA'
        BY <2>1, <1>4
      <3> QED  BY <3>1, <3>2, <1>2
    <2>3. {"A", m.from} \in links
      BY <1>1, <1>12 DEF A!AnswerRequest, A!Idle
    <2>4. Sent("A", r)
      <3> HIDE DEF served
      <3> QED  BY <2>2, <2>3 DEF Sent, A!BlockResponse
    <2>5. net' = (net \ {m}) \cup {r}
      BY <1>12 DEF A!AnswerRequest
    <2>6. Sends("A", {m})
      BY <2>4, <2>5, SendsOne
    <2> QED  BY <2>1, <2>6, <1>4 DEF MovedA
  <1>13. CASE A!HandleResponse(m)
    <2>1. UNCHANGED A!vars /\ UNCHANGED A!poolVars /\ linesA' = linesA
      BY <1>13 DEF A!HandleResponse, A!nodeVars
    <2>2. inboxA' \in Seq(Made)'
      <3>1. inboxA' = m.blocks /\ m.blocks \in Seq(Made)
        BY <1>1, <1>13 DEF A!HandleResponse, A!Idle, MessageTyped
      <3>2. storedA \subseteq storedA'
        BY <2>1, <1>4
      <3> QED  BY <3>1, <3>2, <1>2
    <2>3. net' = net \ {m}
      BY <1>13 DEF A!HandleResponse
    <2>4. Sends("A", {m})
      BY <2>3, SendsNothing
    <2> QED  BY <2>1, <2>2, <2>4, <1>4 DEF MovedA
  <1> QED  BY <1>6, <1>7, <1>8, <1>9, <1>10, <1>11, <1>12, <1>13 DEF A!Handle

\* The next block of the answer.
LEMMA TakesNextAtA ==
  ASSUME TipsStored, BlocksExist, AloneA, A!TakeNext
  PROVE  MovedA({}) /\ inboxA' \in Seq(Made)'
  <1>1. inboxA \in Seq(Made) /\ inboxA # <<>>
    BY DEF BlocksExist, A!TakeNext
  <1>2. Head(inboxA) \in Made /\ Tail(inboxA) \in Seq(Made)
    BY <1>1
  <1>3. MovedA({})
    BY <1>2, ATakes DEF A!TakeNext
  <1>4. inboxA' = Tail(inboxA)
    BY DEF A!TakeNext
  <1> QED  BY <1>2, <1>3, <1>4, MadeGrows DEF MovedA, AloneA

\* A tick of the miner.
LEMMA MinesAtA ==
  ASSUME TipsStored, BlocksExist, AloneA, NEW b \in OwnA, A!MineTick(b)
  PROVE  MovedA({}) /\ inboxA' \in Seq(Made)'
  <1> DEFINE L == A!Include(A!HeightOf(b)).ledger
             r == A!ApplyBlock(L, b)
  <1>1. /\ tipA \in storedA /\ linesA \in Seq(Made) /\ inboxA \in Seq(Made)
        /\ inboxA' = inboxA /\ A!MinePending(b) /\ A!Mine(L, b)
    BY DEF TipsStored, BlocksExist, A!MineTick, A!MinePending
  <1>2. /\ storedA \subseteq storedA' /\ tipA' \in storedA'
        /\ r.ok => b \in storedA'
    <2>1. A!CanAdd(b)
      BY <1>1 DEF A!CanAdd, A!Mine
    <2>2. IF r.ok /\ A!CanAdd(b)
          THEN storedA' = storedA \cup {b} /\ tipA' = b
          ELSE storedA' = storedA /\ tipA' = tipA
      <3> HIDE DEF L
      <3>1. A!Mine(L, b)
        BY <1>1
      <3> QED  BY <3>1 DEF A!Mine, A!AddBlock, A!SetChainTip, A!tree
    <2> HIDE DEF r
    <2> QED  BY <1>1, <2>1, <2>2
  <1>3. Made \subseteq Made' /\ (\A s \in Seq(Made) : s \in Seq(Made)')
    BY <1>2, MadeGrows DEF AloneA
  <1>4. r.ok => b \in Made'
    BY <1>2, OutsideAssumption DEF Made, Hash
  <1>5. IF r.ok THEN linesA' = Append(linesA, b) /\ net' = net \cup A!Published(b, heardA)
                ELSE linesA' = linesA /\ net' = net
    BY DEF A!MineTick
  <1> HIDE DEF r
  <1>6. linesA' \in Seq(Made)'
    <2>1. linesA \in Seq(Made)'
      BY <1>1, <1>3
    <2> QED  BY <2>1, <1>4, <1>5
  <1>7. Sends("A", {})
    <2>1. CASE r.ok
      <3>1. Gossiped(A!CompactBlock(b))'
        BY <2>1, <1>4 DEF Gossiped, A!CompactBlock
      <3>2. \A m \in A!Published(b, heardA) : Sent("A", m)
        BY <3>1, SpreadA DEF A!Published
      <3>3. net' = (net \ {}) \cup A!Published(b, heardA)
        BY <2>1, <1>5
      <3> QED  BY <3>2, <3>3, SendsAll
    <2>2. CASE ~r.ok
      <3>1. net' = net \ {}
        BY <2>2, <1>5
      <3> QED  BY <3>1, SendsNothing
    <2> QED  BY <2>1, <2>2
  <1>8. [A!NodeNext]_(A!nodeVars)
    BY <1>1 DEF A!NodeNext
  <1> QED  BY <1>1, <1>2, <1>3, <1>6, <1>7, <1>8 DEF MovedA

\* Whatever arrives at B, its handler does no more than that.
LEMMA HandlesAtB ==
  ASSUME TipsStored, BlocksExist, MessagesSound, ConnectionSound, AloneB,
         NEW m \in B!Arrived, B!Handle(m)
  PROVE  MovedB({m}) /\ inboxB' \in Seq(Made)'
  <1>1. /\ MessageTyped(m)
        /\ \/ m.from = "A" /\ (m.type # "ConnectionClosed" => {"B", m.from} \in links)
           \/ "B" = "A" /\ m.from = Outside /\ m.type \in {"Gossip", "BlockResponse"}
    BY FromB
  <1>2. ASSUME storedB \subseteq storedB'
        PROVE  (\A s \in Seq(Made) : s \in Seq(Made)') /\ \A c : Gossiped(c) => Gossiped(c)'
    BY <1>2, MadeGrows DEF AloneB
  <1>3. linesB \in Seq(Made) /\ inboxB \in Seq(Made) /\ tipB \in storedB
    BY DEF BlocksExist, TipsStored
  <1>4. ASSUME UNCHANGED B!vars
        PROVE  /\ storedB \subseteq storedB' /\ tipB' \in storedB'
               /\ linesB' = linesB => linesB' \in Seq(Made)'
               /\ inboxB' = inboxB => inboxB' \in Seq(Made)'
               /\ UNCHANGED B!poolVars => [B!NodeNext]_(B!nodeVars)
    <2>1. storedB' = storedB /\ tipB' = tipB
      BY <1>4 DEF B!vars
    <2>2. \A s \in Seq(Made) : s \in Seq(Made)'
      BY <2>1, <1>2
    <2> QED  BY <2>1, <2>2, <1>3, <1>4 DEF B!nodeVars
  <1>5. ASSUME NEW b \in Made, NEW known, B!TakeBlock(b, {m}, known, B!Forwards(m)),
               UNCHANGED B!poolVars, inboxB' = inboxB, m.type = "Gossip"
        PROVE  MovedB({m}) /\ inboxB' \in Seq(Made)'
    <2>1. Gossiped(m.content)
      BY <1>1, <1>5 DEF MessageTyped
    <2>2. MovedB({m})
      BY <1>5, <2>1, BTakes DEF B!Forwards
    <2>3. storedB \subseteq storedB'
      BY <2>2 DEF MovedB
    <2> QED  BY <2>2, <2>3, <1>2, <1>3, <1>5
  <1>6. CASE B!HearAgain(m)
    <2>1. UNCHANGED B!vars /\ UNCHANGED B!poolVars /\ linesB' = linesB /\ inboxB' = inboxB
      BY <1>6 DEF B!HearAgain, B!nodeVars, B!relayVars
    <2>2. Sends("B", {m})
      <3>1. net' = net \ {m}
        BY <1>6 DEF B!HearAgain
      <3> QED  BY <3>1, SendsNothing
    <2> QED  BY <2>1, <2>2, <1>4 DEF MovedB
  <1>7. CASE B!HearBlock(m)
    <2>1. m.type = "Gossip" /\ m.content.block \in Made
      BY <1>1, <1>7 DEF B!HearBlock, B!Fresh, B!Hears, MessageTyped, Gossiped
    <2> QED  BY <2>1, <1>5, <1>7 DEF B!HearBlock
  <1>8. CASE B!HearCompact(m)
    <2>1. m.type = "Gossip" /\ m.content.block \in Made /\ Gossiped(m.content)
      BY <1>1, <1>8 DEF B!HearCompact, B!Fresh, B!Hears, MessageTyped, Gossiped
    <2>2. UNCHANGED B!poolVars /\ inboxB' = inboxB
      BY <1>8 DEF B!HearCompact
    <2>3. ASSUME NEW more, net' = ((net \ {m}) \cup B!Forwards(m)) \cup more,
                 \A r \in more : Sent("B", r), UNCHANGED B!vars, linesB' = linesB
          PROVE  MovedB({m}) /\ inboxB' \in Seq(Made)'
      <3>1. Gossiped(m.content)'
        BY <2>1, <2>3, <1>2 DEF B!vars
      <3>2. \A r \in B!Forwards(m) \cup more : Sent("B", r)
        BY <2>3, <3>1, SpreadB DEF B!Forwards
      <3>3. net' = (net \ {m}) \cup (B!Forwards(m) \cup more)
        BY <2>3
      <3>4. Sends("B", {m})
        BY <3>2, <3>3, SendsAll
      <3> QED  BY <2>2, <2>3, <3>4, <1>4 DEF MovedB
    <2>4. CASE net' = (net \ {m}) \cup B!Forwards(m) /\ UNCHANGED <<B!vars, linesB>>
      <3> DEFINE more == {}
      <3>1. /\ net' = ((net \ {m}) \cup B!Forwards(m)) \cup more
            /\ \A r \in more : Sent("B", r)
            /\ UNCHANGED B!vars /\ linesB' = linesB
        BY <2>4
      <3> HIDE DEF more
      <3> QED  BY <2>3, <3>1
    <2>5. CASE B!TakeBlock(m.content.block, {m}, B!Known(m), B!Forwards(m))
      BY <2>1, <2>2, <2>5, <1>5
    <2>6. CASE /\ net' = (net \ {m}) \cup B!Forwards(m)
                           \cup {B!BlockRequest("B", m.from, B!HeightOf(m.content.block),
                                                B!HeightOf(m.content.block))}
               /\ UNCHANGED <<B!vars, linesB>>
      <3> DEFINE r == B!BlockRequest("B", m.from, B!HeightOf(m.content.block),
                                     B!HeightOf(m.content.block))
      <3>1. Sent("B", r)
        BY <1>1, <2>1 DEF Sent, B!BlockRequest
      <3> DEFINE more == {r}
      <3>2. /\ net' = ((net \ {m}) \cup B!Forwards(m)) \cup more
            /\ UNCHANGED B!vars /\ linesB' = linesB
        BY <2>6
      <3> HIDE DEF r
      <3>3. \A q \in more : Sent("B", q)
        BY <3>1
      <3> HIDE DEF more
      <3> QED  BY <2>3, <3>2, <3>3
    <2> QED  BY <2>4, <2>5, <2>6, <1>8 DEF B!HearCompact
  <1>9. CASE B!HearTransaction(m)
    <2>1. /\ m.content.tx \in Submitted /\ Gossiped(m.content)
      BY <1>1, <1>9 DEF B!HearTransaction, B!Fresh, B!Hears, MessageTyped, Gossiped
    <2>2. /\ B!Pool!Submit(ledgerB, m.content.tx) \/ UNCHANGED B!poolVars
          /\ UNCHANGED B!vars /\ linesB' = linesB /\ inboxB' = inboxB
          /\ net' = (net \ {m}) \cup B!Forwards(m)
      BY <1>9 DEF B!HearTransaction
    <2>3. [B!NodeNext]_(B!nodeVars)
      BY <2>1, <2>2 DEF B!NodeNext, B!SubmitTx, B!nodeVars
    <2>4. Gossiped(m.content)'
      BY <2>1, <2>2, <1>2 DEF B!vars
    <2>5. Sends("B", {m})
      BY <2>2, <2>4, SpreadB, SendsAll DEF B!Forwards
    <2> QED  BY <2>2, <2>3, <2>5, <1>4 DEF MovedB
  <1>10. CASE B!ConnectionEstablished(m)
    <2>1. UNCHANGED B!vars /\ UNCHANGED B!poolVars /\ linesB' = linesB /\ inboxB' = inboxB
      BY <1>10 DEF B!ConnectionEstablished, B!nodeVars, B!relayVars
    <2>2. \A r \in B!Ask(m.from) : Sent("B", r)
      <3>1. {"B", m.from} \in links
        BY <1>1, <1>10 DEF B!ConnectionEstablished, B!Idle
      <3>2. B!Ask(m.from) = {B!BlockRequest("B", m.from, B!HeightOf(tipB) + 1,
                                            B!HeightOf(tipB) + 1 + Window)}
        BY DEF B!Ask
      <3>3. \A low, high : Sent("B", B!BlockRequest("B", m.from, low, high))
        BY <3>1 DEF B!BlockRequest, Sent
      <3> QED  BY <3>2, <3>3
    <2>3. net' = (net \ {m}) \cup B!Ask(m.from) \/ net' = net \ {m}
      BY <1>10 DEF B!ConnectionEstablished
    <2>4. Sends("B", {m})
      BY <2>2, <2>3, SendsAll, SendsNothing
    <2> QED  BY <2>1, <2>4, <1>4 DEF MovedB
  <1>11. CASE B!ConnectionClosed(m)
    <2>1. UNCHANGED B!vars /\ UNCHANGED B!poolVars /\ linesB' = linesB /\ inboxB' = inboxB
      BY <1>11 DEF B!ConnectionClosed, B!nodeVars
    <2>2. net' = net \ {m}
      BY <1>11 DEF B!ConnectionClosed
    <2>3. Sends("B", {m})
      BY <2>2, SendsNothing
    <2> QED  BY <2>1, <2>3, <1>4 DEF MovedB
  <1>12. CASE B!AnswerRequest(m)
    <2>1. UNCHANGED B!vars /\ UNCHANGED B!poolVars /\ linesB' = linesB /\ inboxB' = inboxB
      BY <1>12 DEF B!AnswerRequest, B!nodeVars, B!relayVars
    <2> DEFINE served == B!Served(linesB, m.low, m.high)
               r == B!BlockResponse("B", m.from, served)
    <2>2. served \in Seq(Made)'
      <3>1. served \in Seq(Made)
        BY <1>3, ServedType, ServedAlike
      <3>2. storedB \subseteq storedB'
        BY <2>1, <1>4
      <3> QED  BY <3>1, <3>2, <1>2
    <2>3. {"B", m.from} \in links
      BY <1>1, <1>12 DEF B!AnswerRequest, B!Idle
    <2>4. Sent("B", r)
      <3> HIDE DEF served
      <3> QED  BY <2>2, <2>3 DEF Sent, B!BlockResponse
    <2>5. net' = (net \ {m}) \cup {r}
      BY <1>12 DEF B!AnswerRequest
    <2>6. Sends("B", {m})
      BY <2>4, <2>5, SendsOne
    <2> QED  BY <2>1, <2>6, <1>4 DEF MovedB
  <1>13. CASE B!HandleResponse(m)
    <2>1. UNCHANGED B!vars /\ UNCHANGED B!poolVars /\ linesB' = linesB
      BY <1>13 DEF B!HandleResponse, B!nodeVars
    <2>2. inboxB' \in Seq(Made)'
      <3>1. inboxB' = m.blocks /\ m.blocks \in Seq(Made)
        BY <1>1, <1>13 DEF B!HandleResponse, B!Idle, MessageTyped
      <3>2. storedB \subseteq storedB'
        BY <2>1, <1>4
      <3> QED  BY <3>1, <3>2, <1>2
    <2>3. net' = net \ {m}
      BY <1>13 DEF B!HandleResponse
    <2>4. Sends("B", {m})
      BY <2>3, SendsNothing
    <2> QED  BY <2>1, <2>2, <2>4, <1>4 DEF MovedB
  <1> QED  BY <1>6, <1>7, <1>8, <1>9, <1>10, <1>11, <1>12, <1>13 DEF B!Handle

\* The next block of the answer.
LEMMA TakesNextAtB ==
  ASSUME TipsStored, BlocksExist, AloneB, B!TakeNext
  PROVE  MovedB({}) /\ inboxB' \in Seq(Made)'
  <1>1. inboxB \in Seq(Made) /\ inboxB # <<>>
    BY DEF BlocksExist, B!TakeNext
  <1>2. Head(inboxB) \in Made /\ Tail(inboxB) \in Seq(Made)
    BY <1>1
  <1>3. MovedB({})
    BY <1>2, BTakes DEF B!TakeNext
  <1>4. inboxB' = Tail(inboxB)
    BY DEF B!TakeNext
  <1> QED  BY <1>2, <1>3, <1>4, MadeGrows DEF MovedB, AloneB

\* A tick of the miner.
LEMMA MinesAtB ==
  ASSUME TipsStored, BlocksExist, AloneB, NEW b \in OwnB, B!MineTick(b)
  PROVE  MovedB({}) /\ inboxB' \in Seq(Made)'
  <1> DEFINE L == B!Include(B!HeightOf(b)).ledger
             r == B!ApplyBlock(L, b)
  <1>1. /\ tipB \in storedB /\ linesB \in Seq(Made) /\ inboxB \in Seq(Made)
        /\ inboxB' = inboxB /\ B!MinePending(b) /\ B!Mine(L, b)
    BY DEF TipsStored, BlocksExist, B!MineTick, B!MinePending
  <1>2. /\ storedB \subseteq storedB' /\ tipB' \in storedB'
        /\ r.ok => b \in storedB'
    <2>1. B!CanAdd(b)
      BY <1>1 DEF B!CanAdd, B!Mine
    <2>2. IF r.ok /\ B!CanAdd(b)
          THEN storedB' = storedB \cup {b} /\ tipB' = b
          ELSE storedB' = storedB /\ tipB' = tipB
      <3> HIDE DEF L
      <3>1. B!Mine(L, b)
        BY <1>1
      <3> QED  BY <3>1 DEF B!Mine, B!AddBlock, B!SetChainTip, B!tree
    <2> HIDE DEF r
    <2> QED  BY <1>1, <2>1, <2>2
  <1>3. Made \subseteq Made' /\ (\A s \in Seq(Made) : s \in Seq(Made)')
    BY <1>2, MadeGrows DEF AloneB
  <1>4. r.ok => b \in Made'
    BY <1>2, OutsideAssumption DEF Made, Hash
  <1>5. IF r.ok THEN linesB' = Append(linesB, b) /\ net' = net \cup B!Published(b, heardB)
                ELSE linesB' = linesB /\ net' = net
    BY DEF B!MineTick
  <1> HIDE DEF r
  <1>6. linesB' \in Seq(Made)'
    <2>1. linesB \in Seq(Made)'
      BY <1>1, <1>3
    <2> QED  BY <2>1, <1>4, <1>5
  <1>7. Sends("B", {})
    <2>1. CASE r.ok
      <3>1. Gossiped(B!CompactBlock(b))'
        BY <2>1, <1>4 DEF Gossiped, B!CompactBlock
      <3>2. \A m \in B!Published(b, heardB) : Sent("B", m)
        BY <3>1, SpreadB DEF B!Published
      <3>3. net' = (net \ {}) \cup B!Published(b, heardB)
        BY <2>1, <1>5
      <3> QED  BY <3>2, <3>3, SendsAll
    <2>2. CASE ~r.ok
      <3>1. net' = net \ {}
        BY <2>2, <1>5
      <3> QED  BY <3>1, SendsNothing
    <2> QED  BY <2>1, <2>2
  <1>8. [B!NodeNext]_(B!nodeVars)
    BY <1>1 DEF B!NodeNext
  <1> QED  BY <1>1, <1>2, <1>3, <1>6, <1>7, <1>8 DEF MovedB

-----------------------------------------------------------------------------
(* The parts of the invariant that every step of a node keeps.             *)

LEMMA NamesDiffer == "A" # Outside /\ "B" # Outside
  BY NetworkAssumption DEF A!RelayAssumption, B!RelayAssumption

\* What is sent is sound, goes where it may, and nothing passes between nodes
\* that are apart.
LEMMA SendingIsSound ==
  ASSUME MessagesSound, ConnectionSound, links' = links,
         storedA \subseteq storedA', storedB \subseteq storedB',
         NEW n \in {"A", "B"}, NEW gone, Sends(n, gone)
  PROVE  MessagesSound' /\ ConnectionSound'
  <1>1. PICK new : net' = (net \ gone) \cup new /\ \A m \in new : Sent(n, m)
    BY DEF Sends
  <1>2. (\A s \in Seq(Made) : s \in Seq(Made)') /\ \A c : Gossiped(c) => Gossiped(c)'
    BY MadeGrows
  <1>3. ASSUME NEW m \in new
        PROVE  /\ MessageTyped(m)' /\ Routed(m)'
               /\ m.type # "ConnectionClosed" /\ (m.to # Outside => Together)
    <2>1. Sent(n, m)
      BY <1>1
    <2>2. MessageTyped(m)' /\ m.type # "ConnectionClosed"
      BY <2>1 DEF Sent, MessageTyped
    <2>3. \A x, y : {x, y} = {"A", "B"} => (x = "A" => y = "B") /\ (x = "B" => y = "A")
      OBVIOUS
    <2>4. \/ n = "A" /\ m.to = "B" /\ Together
          \/ n = "B" /\ m.to = "A" /\ Together
          \/ n = "A" /\ m.to = Outside /\ m.type = "BlockRequest"
      BY <2>1, <2>3 DEF Sent, ConnectionSound, Together
    <2>5. m.from = n
      BY <2>1 DEF Sent
    <2> QED  BY <2>2, <2>4, <2>5 DEF Routed
  <1>4. ASSUME NEW m \in net  PROVE  MessageTyped(m)' /\ Routed(m)'
    BY <1>2 DEF MessagesSound, MessageTyped, Routed
  <1>5. MessagesSound'
    BY <1>1, <1>3, <1>4 DEF MessagesSound
  <1>6. ASSUME NEW m \in Between'  PROVE  m.type = "ConnectionClosed" <=> ~Together'
    <2>1. Together' = Together /\ m \in net' /\ {m.from, m.to} = {"A", "B"}
      BY DEF Together, Between
    <2>2. CASE m \in net
      BY <2>1, <2>2 DEF ConnectionSound, Between
    <2>3. CASE m \in new
      <3>1. m.to # Outside
        BY <2>1, NamesDiffer
      <3> QED  BY <2>1, <2>3, <3>1, <1>3
    <2> QED  BY <2>1, <2>2, <2>3, <1>1
  <1> QED  BY <1>5, <1>6 DEF ConnectionSound

\* What is still to be gossiped stays sound.
LEMMA SaidKept ==
  ASSUME BlocksExist, UNCHANGED said, storedA \subseteq storedA', storedB \subseteq storedB'
  PROVE  (/\ \A n \in 1..Len(said) : Gossiped(said[n])
          /\ said \in Seq(A!Content))'
  <1>1. \A c : Gossiped(c) => Gossiped(c)'
    BY MadeGrows
  <1>2. \A n \in 1..Len(said) : Gossiped(said[n])'
    BY <1>1 DEF BlocksExist
  <1>3. said \in Seq(A!Content) /\ A!Content' = A!Content
    BY DEF BlocksExist, A!Content
  <1> QED  BY <1>2, <1>3

-----------------------------------------------------------------------------
(* A's steps.                                                              *)

\* A answers a request.
LEMMA AAnswers ==
  ASSUME NEW m \in A!Arrived, A!Handle(m), m.type = "BlockRequest"
  PROVE  \E r \in net' : r.type = "BlockResponse" /\ r.to = m.from
  <1>1. A!AnswerRequest(m)
    BY DEF A!Handle, A!HearAgain, A!HearBlock, A!HearCompact, A!HearTransaction, A!Fresh,
           A!Hears, A!ConnectionEstablished, A!ConnectionClosed, A!HandleResponse, A!Idle
  <1> DEFINE r == A!BlockResponse("A", m.from, A!Served(linesA, m.low, m.high))
  <1>2. r \in net'
    BY <1>1 DEF A!AnswerRequest
  <1>3. r.type = "BlockResponse" /\ r.to = m.from
    BY DEF A!BlockResponse
  <1> QED  BY <1>2, <1>3

AStep == AHandles \/ ATakesNext \/ AMines

\* All that a step of A does.
LEMMA AStepMoves ==
  ASSUME NetInv, AStep
  PROVE  \E gone :
           /\ MovedA(gone) /\ inboxA' \in Seq(Made)'
           /\ \A m \in gone :
                /\ m.to = "A"
                /\ m.type = "BlockRequest" => \E r \in net' : r.type = "BlockResponse" /\ r.to = m.from
  <1>1. /\ UNCHANGED nodeB
        /\ TipsStored /\ BlocksExist /\ MessagesSound /\ ConnectionSound
    BY DEF NetInv, AStep, AHandles, ATakesNext, AMines, ForA
  <1>2. links' = links
    BY DEF AStep, AHandles, ATakesNext, AMines, A!Handle, A!HearAgain, A!HearBlock,
           A!HearCompact, A!HearTransaction, A!ConnectionEstablished, A!ConnectionClosed,
           A!AnswerRequest, A!HandleResponse, A!TakeNext, A!MineTick
  <1>3. AloneA
    BY <1>1, <1>2 DEF AloneA, nodeB
  <1>4. CASE AHandles
    <2>1. PICK m \in A!Arrived : A!Handle(m)
      BY <1>4 DEF AHandles
    <2>2. MovedA({m}) /\ inboxA' \in Seq(Made)'
      BY <1>1, <1>3, <2>1, HandlesAtA
    <2>3. m.to = "A"
      BY DEF A!Arrived
    <2>4. m.type = "BlockRequest" => \E r \in net' : r.type = "BlockResponse" /\ r.to = m.from
      BY <2>1, AAnswers
    <2> DEFINE gone == {m}
    <2>5. MovedA(gone) /\ \A q \in gone : q = m
      BY <2>2
    <2> HIDE DEF gone
    <2> QED  BY <2>2, <2>3, <2>4, <2>5
  <1>5. CASE ATakesNext \/ AMines
    <2> DEFINE gone == {}
    <2>1. MovedA(gone) /\ inboxA' \in Seq(Made)'
      <3>1. CASE ATakesNext
        BY <1>1, <1>3, <3>1, TakesNextAtA DEF ATakesNext
      <3>2. CASE AMines
        BY <1>1, <1>3, <3>2, MinesAtA DEF AMines
      <3> QED  BY <1>5, <3>1, <3>2
    <2>2. \A q \in gone : FALSE
      OBVIOUS
    <2> HIDE DEF gone
    <2> QED  BY <2>1, <2>2
  <1> QED  BY <1>4, <1>5 DEF AStep

\* A's steps keep the invariant, and are steps of Node.
LEMMA AStepKeeps ==
  ASSUME NetInv, AStep
  PROVE  NetInv' /\ [A!NodeNext]_(A!nodeVars) /\ UNCHANGED B!nodeVars
  <1> USE DEF NetInv
  <1>1. PICK gone :
           /\ MovedA(gone) /\ inboxA' \in Seq(Made)'
           /\ \A m \in gone :
                /\ m.to = "A"
                /\ m.type = "BlockRequest" => \E r \in net' : r.type = "BlockResponse" /\ r.to = m.from
    BY AStepMoves
  <1>2. UNCHANGED nodeB /\ UNCHANGED said /\ Note("A", tipA, linesA, heardA)
    BY DEF AStep, AHandles, ATakesNext, AMines, ForA
  <1>3. links' = links
    BY DEF AStep, AHandles, ATakesNext, AMines, A!Handle, A!HearAgain, A!HearBlock,
           A!HearCompact, A!HearTransaction, A!ConnectionEstablished, A!ConnectionClosed,
           A!AnswerRequest, A!HandleResponse, A!TakeNext, A!MineTick
  <1>4. /\ storedA \subseteq storedA' /\ storedB' = storedB /\ tipA' \in storedA' /\ tipB' = tipB
        /\ Sends("A", gone) /\ linesA' \in Seq(Made)' /\ linesB' = linesB /\ inboxB' = inboxB
        /\ wantedB' = wantedB /\ syncedB' = syncedB
    BY <1>1, <1>2 DEF MovedA, nodeB
  <1>5. MessagesSound' /\ ConnectionSound'
    BY <1>3, <1>4, SendingIsSound
  <1>6. asked' = asked \/ \E h : asked' = [asked EXCEPT !["A"] = h]
    BY <1>2 DEF Note
  <1>7. TypesSound' /\ asked'["B"] = asked["B"] /\ failed' = failed
    BY <1>2, <1>4, <1>6 DEF Note, TypesSound, B!Heights, B!Hash, B!HeightOf
  <1>8. BlocksExist'
    <2>1. \A s \in Seq(Made) : s \in Seq(Made)'
      BY <1>4, MadeGrows
    <2>2. (/\ \A n \in 1..Len(said) : Gossiped(said[n])
           /\ said \in Seq(A!Content))'
      BY <1>2, <1>4, SaidKept
    <2> HIDE DEF Made, Gossiped
    <2> QED  BY <1>1, <1>4, <2>1, <2>2 DEF BlocksExist
  <1>9. TipsStored'
    BY <1>4 DEF TipsStored
  <1>10. AwaitedFromA'
    BY <1>4 DEF AwaitedFromA, B!Heights, B!Hash, B!HeightOf
  <1>11. \A m \in net : m \in net' \/ m \in gone
    BY <1>4 DEF Sends
  <1>12. NoneAwaitedFromGone'
    <2>1. A!Closed("A", "B").to = "B" /\ A!Closed("A", "B")' = A!Closed("A", "B")
      BY DEF A!Closed
    <2>2. A!Closed("A", "B") \in net => A!Closed("A", "B") \in net'
      BY <1>1, <1>11, <2>1
    <2>3. Together' = Together /\ B!Heights' = B!Heights
      BY <1>3 DEF Together, B!Heights, B!Hash, B!HeightOf
    <2> QED  BY <1>4, <2>1, <2>2, <2>3 DEF NoneAwaitedFromGone
  <1>13. AnswerComes'
    <2> SUFFICES ASSUME Together', asked'["B"] # Unasked, "B" \notin failed', ~syncedB',
                        inboxB' = <<>>
                 PROVE  \E m \in net' : Synchronising(m)
      BY DEF AnswerComes, Unasked, Synchronising, SyncRequest
    <2>1. PICK m \in net : Synchronising(m)
      BY <1>3, <1>4, <1>7 DEF AnswerComes, Together
    <2>2. CASE m \in net'
      BY <2>1, <2>2
    <2>3. CASE m \in gone
      <3>1. m.type = "BlockRequest" /\ m.from = "B"
        BY <1>1, <2>1, <2>3 DEF Synchronising, SyncRequest
      <3>2. PICK r \in net' : r.type = "BlockResponse" /\ r.to = "B"
        BY <1>1, <2>3, <3>1
      <3> QED  BY <3>2 DEF Synchronising
    <2> QED  BY <1>11, <2>2, <2>3
  <1>14. [A!NodeNext]_(A!nodeVars) /\ UNCHANGED B!nodeVars
    BY <1>1, <1>2 DEF MovedA, nodeB, B!nodeVars, B!vars, B!poolVars
  <1> QED  BY <1>5, <1>7, <1>8, <1>9, <1>10, <1>12, <1>13, <1>14

-----------------------------------------------------------------------------
(* B's steps.                                                              *)

\* What handling m does to what B awaits and to its synchronisation.
Books(m) ==
  /\ syncedB' \in BOOLEAN /\ (syncedB => syncedB')
  /\ IF m.type = "BlockResponse" THEN syncedB' \/ inboxB' # <<>> ELSE inboxB' = inboxB
  /\ wantedB' = [n \in B!Heights |-> wantedB'[n]]
  /\ \A n \in B!Heights : wantedB'[n] # Nothing =>
       /\ m.type # "ConnectionClosed"
       /\ wantedB'[n] = wantedB[n] \/ wantedB'[n].from = m.from

LEMMA BHandlesBooks ==
  ASSUME TypesSound, AwaitedFromA, NEW m, m.from = "A", B!Handle(m)
  PROVE  Books(m)
  <1>1. syncedB \in BOOLEAN /\ wantedB = [n \in B!Heights |-> wantedB[n]]
    BY DEF TypesSound
  <1>2. CASE /\ wantedB' = wantedB /\ syncedB' = syncedB /\ inboxB' = inboxB
             /\ m.type \notin {"BlockResponse", "ConnectionClosed"}
    BY <1>1, <1>2 DEF Books
  <1>3. CASE B!HearAgain(m)
    BY <1>2, <1>3 DEF B!HearAgain, B!relayVars, B!Hears
  <1>4. CASE B!HearBlock(m)
    BY <1>2, <1>4 DEF B!HearBlock, B!Fresh, B!Hears
  <1>5. CASE B!HearCompact(m)
    <2>1. /\ m.type = "Gossip" /\ syncedB' = syncedB /\ inboxB' = inboxB
      BY <1>5 DEF B!HearCompact, B!Fresh, B!Hears
    <2>2. \/ wantedB' = wantedB
          \/ \E h : wantedB' = [wantedB EXCEPT ![h] = Nothing]
          \/ wantedB' = B!Await(m.content.block, m.from)
      BY <1>5 DEF B!HearCompact
    <2>3. \/ wantedB' = wantedB
          \/ \E h, v : /\ wantedB' = [wantedB EXCEPT ![h] = v]
                       /\ v = Nothing \/ v.from = m.from
      BY <2>2 DEF B!Await
    <2>4. \A n \in B!Heights :
            \/ wantedB'[n] = Nothing \/ wantedB'[n] = wantedB[n] \/ wantedB'[n].from = m.from
      BY <1>1, <2>3
    <2>5. wantedB' = [n \in B!Heights |-> wantedB'[n]]
      BY <1>1, <2>3
    <2> QED  BY <1>1, <2>1, <2>4, <2>5 DEF Books
  <1>6. CASE B!HearTransaction(m)
    BY <1>2, <1>6 DEF B!HearTransaction, B!Fresh, B!Hears
  <1>7. CASE B!ConnectionEstablished(m)
    BY <1>2, <1>7 DEF B!ConnectionEstablished, B!Idle, B!relayVars
  <1>8. CASE B!ConnectionClosed(m)
    <2>1. /\ m.type = "ConnectionClosed" /\ syncedB' = syncedB /\ inboxB' = inboxB
          /\ wantedB' = B!WantedBut("A")
      BY <1>8 DEF B!ConnectionClosed, B!Idle
    <2>2. \A n \in B!Heights : wantedB[n] # Nothing => wantedB[n].from = "A"
      BY DEF AwaitedFromA
    <2>3. wantedB' = [n \in B!Heights |-> Nothing]
      BY <2>1, <2>2 DEF B!WantedBut
    <2> QED  BY <1>1, <2>1, <2>3 DEF Books
  <1>9. CASE B!AnswerRequest(m)
    BY <1>2, <1>9 DEF B!AnswerRequest, B!Idle, B!relayVars
  <1>10. CASE B!HandleResponse(m)
    <2>1. /\ m.type = "BlockResponse" /\ inboxB' = m.blocks /\ wantedB' = wantedB
          /\ syncedB' = (syncedB \/ m.blocks = <<>>)
      BY <1>10 DEF B!HandleResponse, B!Idle
    <2> QED  BY <1>1, <2>1 DEF Books
  <1> QED  BY <1>3, <1>4, <1>5, <1>6, <1>7, <1>8, <1>9, <1>10 DEF B!Handle

BStep == BHandles \/ BTakesNext \/ BMines

\* All that a step of B does: it handles a message, or takes the next block of an
\* answer, or mines.
LEMMA BStepMoves ==
  ASSUME NetInv, BStep
  PROVE  \E gone :
           /\ MovedB(gone) /\ inboxB' \in Seq(Made)'
           /\ \/ \E m \in B!Arrived : gone = {m} /\ m.from = "A" /\ Books(m)
              \/ /\ gone = {} /\ wantedB' = wantedB
                 /\ syncedB' \in BOOLEAN /\ (syncedB => syncedB')
                 /\ inboxB' = inboxB \/ syncedB' \/ inboxB' # <<>>
  <1>1. /\ UNCHANGED nodeA
        /\ TipsStored /\ BlocksExist /\ MessagesSound /\ ConnectionSound
        /\ TypesSound /\ AwaitedFromA
    BY DEF NetInv, BStep, BHandles, BTakesNext, BMines, ForB
  <1>2. links' = links
    BY DEF BStep, BHandles, BTakesNext, BMines, B!Handle, B!HearAgain, B!HearBlock,
           B!HearCompact, B!HearTransaction, B!ConnectionEstablished, B!ConnectionClosed,
           B!AnswerRequest, B!HandleResponse, B!TakeNext, B!MineTick
  <1>3. AloneB
    BY <1>1, <1>2 DEF AloneB, nodeA
  <1>4. CASE BHandles
    <2>1. PICK m \in B!Arrived : B!Handle(m)
      BY <1>4 DEF BHandles
    <2>2. MovedB({m}) /\ inboxB' \in Seq(Made)'
      BY <1>1, <1>3, <2>1, HandlesAtB
    <2>3. m.from = "A"
      BY <1>1, FromB
    <2>4. Books(m)
      BY <1>1, <2>1, <2>3, BHandlesBooks
    <2> DEFINE gone == {m}
    <2>5. MovedB(gone) /\ gone = {m}
      BY <2>2
    <2> HIDE DEF gone
    <2> QED  BY <2>2, <2>3, <2>4, <2>5
  <1>5. CASE BTakesNext
    <2>1. MovedB({}) /\ inboxB' \in Seq(Made)'
      BY <1>1, <1>3, <1>5, TakesNextAtB DEF BTakesNext
    <2>2. /\ wantedB' = wantedB /\ syncedB' = (syncedB \/ Len(inboxB) = 1)
          /\ inboxB' = Tail(inboxB) /\ inboxB # <<>>
      BY <1>5 DEF BTakesNext, B!TakeNext
    <2>3. inboxB \in Seq(Made) /\ syncedB \in BOOLEAN
      BY <1>1 DEF BlocksExist, TypesSound
    <2>4. Len(inboxB) = 1 \/ Tail(inboxB) # <<>>
      <3>1. Len(Tail(inboxB)) = Len(inboxB) - 1 /\ Len(inboxB) \in Nat
        BY <2>2, <2>3
      <3>2. Tail(inboxB) \in Seq(Made)
        BY <2>2, <2>3
      <3>3. Tail(inboxB) = <<>> => Len(Tail(inboxB)) = 0
        BY <3>2, EmptySeq
      <3> QED  BY <3>1, <3>3
    <2>5. syncedB' \in BOOLEAN /\ (syncedB => syncedB') /\ (syncedB' \/ inboxB' # <<>>)
      BY <2>2, <2>3, <2>4
    <2> DEFINE gone == {}
    <2>6. MovedB(gone) /\ gone = {}
      BY <2>1
    <2> HIDE DEF gone
    <2> QED  BY <2>1, <2>2, <2>5, <2>6
  <1>6. CASE BMines
    <2>1. MovedB({}) /\ inboxB' \in Seq(Made)'
      BY <1>1, <1>3, <1>6, MinesAtB DEF BMines
    <2>2. wantedB' = wantedB /\ syncedB' = syncedB /\ inboxB' = inboxB
      BY <1>6 DEF BMines, B!MineTick
    <2>3. syncedB \in BOOLEAN
      BY <1>1 DEF TypesSound
    <2> DEFINE gone == {}
    <2>4. MovedB(gone) /\ gone = {}
      BY <2>1
    <2> HIDE DEF gone
    <2> QED  BY <2>1, <2>2, <2>3, <2>4
  <1> QED  BY <1>4, <1>5, <1>6 DEF BStep

\* B's steps keep the invariant, and are steps of Node.
LEMMA BStepKeeps ==
  ASSUME NetInv, BStep
  PROVE  NetInv' /\ [B!NodeNext \/ B!Restart]_(B!nodeVars) /\ UNCHANGED A!nodeVars
  <1> USE DEF NetInv
  <1>1. PICK gone :
           /\ MovedB(gone) /\ inboxB' \in Seq(Made)'
           /\ \/ \E m \in B!Arrived : gone = {m} /\ m.from = "A" /\ Books(m)
              \/ /\ gone = {} /\ wantedB' = wantedB
                 /\ syncedB' \in BOOLEAN /\ (syncedB => syncedB')
                 /\ inboxB' = inboxB \/ syncedB' \/ inboxB' # <<>>
    BY BStepMoves
  <1>2. UNCHANGED nodeA /\ UNCHANGED said /\ Note("B", tipB, linesB, heardB)
    BY DEF BStep, BHandles, BTakesNext, BMines, ForB
  <1>3. links' = links
    BY DEF BStep, BHandles, BTakesNext, BMines, B!Handle, B!HearAgain, B!HearBlock,
           B!HearCompact, B!HearTransaction, B!ConnectionEstablished, B!ConnectionClosed,
           B!AnswerRequest, B!HandleResponse, B!TakeNext, B!MineTick
  <1>4. /\ storedB \subseteq storedB' /\ storedA' = storedA /\ tipB' \in storedB' /\ tipA' = tipA
        /\ Sends("B", gone) /\ linesB' \in Seq(Made)' /\ linesA' = linesA /\ inboxA' = inboxA
    BY <1>1, <1>2 DEF MovedB, nodeA
  <1>5. MessagesSound' /\ ConnectionSound'
    BY <1>3, <1>4, SendingIsSound
  <1>6. BlocksExist'
    <2>1. \A s \in Seq(Made) : s \in Seq(Made)'
      BY <1>4, MadeGrows
    <2>2. (/\ \A n \in 1..Len(said) : Gossiped(said[n])
           /\ said \in Seq(A!Content))'
      BY <1>2, <1>4, SaidKept
    <2> HIDE DEF Made, Gossiped
    <2> QED  BY <1>1, <1>4, <2>1, <2>2 DEF BlocksExist
  <1>7. TipsStored'
    BY <1>4 DEF TipsStored
  <1>8. /\ Together' = Together /\ B!Heights' = B!Heights
        /\ A!Closed("A", "B")' = A!Closed("A", "B") /\ A!Closed("A", "B").type = "ConnectionClosed"
    BY <1>3 DEF Together, B!Heights, B!Hash, B!HeightOf, A!Closed
  <1>9. \A m \in net : m \in net' \/ m \in gone
    BY <1>4 DEF Sends
  <1> DEFINE sync == {m \in net' \ net : SyncRequest(m, "B")}
  <1>10. /\ asked' = IF sync = {} THEN asked ELSE [asked EXCEPT !["B"] = A!HeightOf(tipB)]
         /\ failed' = failed
    BY <1>2 DEF Note
  <1>11. \A m \in sync : Synchronising(m) /\ m \in net'
    <2>1. \A m \in net' : Routed(m)
      BY <1>5 DEF MessagesSound, Routed
    <2> QED  BY <2>1, NamesDiffer DEF Routed, Synchronising, SyncRequest
  <1> HIDE DEF sync
  <1>12. TypesSound'
    <2>1. syncedB' \in BOOLEAN /\ wantedB' = [n \in B!Heights |-> wantedB'[n]]
      BY <1>1 DEF Books, TypesSound
    <2>2. asked' = [n \in {"A", "B"} |-> asked'[n]]
      BY <1>10 DEF TypesSound
    <2> QED  BY <1>8, <2>1, <2>2 DEF TypesSound
  <1>13. AwaitedFromA'
    <2>1. \A n \in B!Heights : wantedB'[n] # Nothing => wantedB'[n].from = "A"
      BY <1>1 DEF AwaitedFromA, Books
    <2> QED  BY <1>8, <2>1 DEF AwaitedFromA
  <1>14. NoneAwaitedFromGone'
    <2> SUFFICES ASSUME ~Together, A!Closed("A", "B") \notin net', NEW n \in B!Heights
                 PROVE  wantedB'[n] = Nothing
      BY <1>8 DEF NoneAwaitedFromGone
    <2>1. CASE gone = {} /\ wantedB' = wantedB
      <3>1. A!Closed("A", "B") \notin net
        BY <1>9, <2>1
      <3> QED  BY <2>1, <3>1 DEF NoneAwaitedFromGone
    <2>2. CASE \E m \in B!Arrived : gone = {m} /\ m.from = "A" /\ Books(m)
      <3>1. PICK m \in B!Arrived : m.from = "A" /\ Books(m)
        BY <2>2
      <3>2. m \in Between
        BY <3>1 DEF B!Arrived, Between
      <3>3. m.type = "ConnectionClosed"
        BY <3>2 DEF ConnectionSound
      <3> QED  BY <3>1, <3>3 DEF Books
    <2> QED  BY <1>1, <2>1, <2>2
  <1>15. AnswerComes'
    <2> SUFFICES ASSUME Together, asked'["B"] # Unasked, "B" \notin failed', ~syncedB',
                        inboxB' = <<>>
                 PROVE  \E m \in net' : Synchronising(m)
      BY <1>8 DEF AnswerComes, Unasked, Synchronising, SyncRequest
    <2>1. CASE sync # {}
      BY <2>1, <1>11
    <2>2. CASE sync = {}
      <3>1. /\ ~syncedB /\ inboxB = <<>>
            /\ \A m \in gone : m.to = "B" /\ m.type # "BlockResponse"
        BY <1>1 DEF Books, B!Arrived
      <3>2. PICK m \in net : Synchronising(m)
        BY <2>2, <1>10, <3>1 DEF AnswerComes
      <3>3. m \notin gone
        BY <3>1, <3>2 DEF Synchronising
      <3> QED  BY <1>9, <3>2, <3>3
    <2> QED  BY <2>1, <2>2
  <1>16. [B!NodeNext \/ B!Restart]_(B!nodeVars) /\ UNCHANGED A!nodeVars
    BY <1>1, <1>2 DEF MovedB, nodeA, A!nodeVars, A!vars, A!poolVars
  <1> QED  BY <1>5, <1>6, <1>7, <1>12, <1>13, <1>14, <1>15, <1>16

-----------------------------------------------------------------------------
(* The connection and the third party.                                     *)

\* What a step that leaves both trees alone leaves sound.
LEMMA TreesAlone ==
  ASSUME NetInv, UNCHANGED <<nodeA, storedB, tipB, linesB>>
  PROVE  /\ Made' = Made
         /\ \A c : Gossiped(c)' <=> Gossiped(c)
         /\ \A m : MessageTyped(m)' <=> MessageTyped(m)
         /\ TipsStored'
         /\ linesA' \in Seq(Made)' /\ inboxA' \in Seq(Made)' /\ linesB' \in Seq(Made)'
  <1>1. storedA' = storedA /\ tipA' = tipA /\ linesA' = linesA /\ inboxA' = inboxA
    BY DEF nodeA
  <1>2. Made' = Made
    BY <1>1 DEF Made
  <1>3. \A c : Gossiped(c)' <=> Gossiped(c)
    BY <1>2 DEF Gossiped
  <1>4. \A m : MessageTyped(m)' <=> MessageTyped(m)
    BY <1>2, <1>3 DEF MessageTyped
  <1> HIDE DEF Made
  <1> QED  BY <1>1, <1>2, <1>3, <1>4 DEF NetInv, TipsStored, BlocksExist

LEMMA LinkUpKeeps ==
  ASSUME NetInv, LinkUp
  PROVE  NetInv'
  <1> USE DEF NetInv
  <1>1. /\ ~Together /\ (\A m \in net : m.type # "ConnectionClosed")
        /\ links' = {{"A", "B"}} /\ asked' = [n \in {"A", "B"} |-> Unasked]
        /\ net' = net \cup {A!Established("A", "B"), A!Established("B", "A")}
        /\ UNCHANGED nodeA /\ UNCHANGED nodeB /\ said' = said
    BY DEF LinkUp
  <1>2. /\ storedB' = storedB /\ tipB' = tipB /\ linesB' = linesB /\ inboxB' = inboxB
        /\ wantedB' = wantedB /\ syncedB' = syncedB
    BY <1>1 DEF nodeB
  <1>3. /\ Made' = Made
        /\ \A c : Gossiped(c)' <=> Gossiped(c)
        /\ \A m : MessageTyped(m)' <=> MessageTyped(m)
        /\ TipsStored'
        /\ linesA' \in Seq(Made)' /\ inboxA' \in Seq(Made)' /\ linesB' \in Seq(Made)'
    BY <1>1, <1>2, TreesAlone
  <1>4. Together'
    BY <1>1 DEF Together
  <1>5. ASSUME NEW m \in {A!Established("A", "B"), A!Established("B", "A")}
        PROVE  MessageTyped(m) /\ Routed(m) /\ m.type # "ConnectionClosed"
    BY DEF A!Established, MessageTyped, Routed
  <1>6. MessagesSound'
    BY <1>1, <1>3, <1>5 DEF MessagesSound, Routed
  <1>7. ConnectionSound'
    <2>1. \A m \in net' : m.type # "ConnectionClosed"
      BY <1>1, <1>5
    <2> QED  BY <1>1, <1>4, <2>1 DEF ConnectionSound, Between
  <1>8. BlocksExist'
    <2>1. (\A n \in 1..Len(said) : Gossiped(said[n]))'
      BY <1>1, <1>3 DEF BlocksExist
    <2>2. said' \in Seq(A!Content') /\ inboxB' \in Seq(Made)'
      BY <1>1, <1>2, <1>3 DEF BlocksExist, A!Content
    <2> HIDE DEF Made, Gossiped
    <2> QED  BY <1>1, <1>3, <2>1, <2>2 DEF BlocksExist
  <1>9. TypesSound' /\ AwaitedFromA'
    BY <1>1, <1>2 DEF TypesSound, AwaitedFromA, B!Heights, B!Hash, B!HeightOf
  <1>10. NoneAwaitedFromGone' /\ AnswerComes'
    BY <1>1, <1>4 DEF NoneAwaitedFromGone, AnswerComes, Unasked
  <1> QED  BY <1>3, <1>6, <1>7, <1>8, <1>9, <1>10

LEMMA LinkDownKeeps ==
  ASSUME NetInv, LinkDown
  PROVE  NetInv'
  <1> USE DEF NetInv
  <1> DEFINE news == {A!Closed("A", "B"), A!Closed("B", "A")}
  <1>1. /\ links' = {} /\ asked' = asked /\ net' = (net \ Between) \cup news
        /\ UNCHANGED nodeA /\ UNCHANGED nodeB /\ said' = said
    BY DEF LinkDown
  <1>2. /\ storedB' = storedB /\ tipB' = tipB /\ linesB' = linesB /\ inboxB' = inboxB
        /\ wantedB' = wantedB /\ syncedB' = syncedB
    BY <1>1 DEF nodeB
  <1>3. /\ Made' = Made
        /\ \A c : Gossiped(c)' <=> Gossiped(c)
        /\ \A m : MessageTyped(m)' <=> MessageTyped(m)
        /\ TipsStored'
        /\ linesA' \in Seq(Made)' /\ inboxA' \in Seq(Made)' /\ linesB' \in Seq(Made)'
    BY <1>1, <1>2, TreesAlone
  <1>4. ~Together'
    BY <1>1 DEF Together
  <1>5. ASSUME NEW m \in news
        PROVE  MessageTyped(m) /\ Routed(m) /\ m.type = "ConnectionClosed"
    BY DEF A!Closed, MessageTyped, Routed
  <1>6. MessagesSound'
    BY <1>1, <1>3, <1>5 DEF MessagesSound, Routed
  <1>7. ConnectionSound'
    <2>1. \A m \in Between' : m \in news
      BY <1>1 DEF Between
    <2> QED  BY <1>1, <1>4, <1>5, <2>1 DEF ConnectionSound
  <1>8. BlocksExist'
    <2>1. (\A n \in 1..Len(said) : Gossiped(said[n]))'
      BY <1>1, <1>3 DEF BlocksExist
    <2>2. said' \in Seq(A!Content') /\ inboxB' \in Seq(Made)'
      BY <1>1, <1>2, <1>3 DEF BlocksExist, A!Content
    <2> HIDE DEF Made, Gossiped
    <2> QED  BY <1>1, <1>3, <2>1, <2>2 DEF BlocksExist
  <1>9. TypesSound' /\ AwaitedFromA'
    BY <1>1, <1>2 DEF TypesSound, AwaitedFromA, B!Heights, B!Hash, B!HeightOf
  <1>10. NoneAwaitedFromGone' /\ AnswerComes'
    <2>1. A!Closed("A", "B")' = A!Closed("A", "B") /\ A!Closed("A", "B") \in net'
      BY <1>1 DEF A!Closed
    <2> QED  BY <1>4, <2>1 DEF NoneAwaitedFromGone, AnswerComes
  <1> QED  BY <1>3, <1>6, <1>7, <1>8, <1>9, <1>10

LEMMA BRestartsKeeps ==
  ASSUME NetInv, BRestarts
  PROVE  NetInv'
  <1> USE DEF NetInv
  <1>1. /\ links' = {} /\ asked' = asked
        /\ \A m \in net' : \/ m \in net \ Between \/ m = A!Closed("B", "A")
                           \/ m \in net /\ m.type = "ConnectionClosed"
        /\ UNCHANGED nodeA /\ said' = said /\ B!Restart
    BY DEF BRestarts, Between
  <1>2. /\ storedB' = storedB /\ tipB' = tipB /\ linesB' = linesB /\ inboxB' = <<>>
        /\ wantedB' = [n \in B!Heights |-> Nothing] /\ syncedB' \in BOOLEAN
    BY <1>1 DEF B!Restart
  <1>3. /\ Made' = Made
        /\ \A c : Gossiped(c)' <=> Gossiped(c)
        /\ \A m : MessageTyped(m)' <=> MessageTyped(m)
        /\ TipsStored'
        /\ linesA' \in Seq(Made)' /\ inboxA' \in Seq(Made)' /\ linesB' \in Seq(Made)'
    BY <1>1, <1>2, TreesAlone
  <1>4. ~Together'
    BY <1>1 DEF Together
  <1>5. LET m == A!Closed("B", "A")
        IN  MessageTyped(m) /\ Routed(m) /\ m.type = "ConnectionClosed"
    BY DEF A!Closed, MessageTyped, Routed
  <1>6. MessagesSound'
    BY <1>1, <1>3, <1>5 DEF MessagesSound, Routed
  <1>7. ConnectionSound'
    <2>1. \A m \in Between' : m.type = "ConnectionClosed"
      BY <1>1, <1>5 DEF Between
    <2> QED  BY <1>1, <1>4, <2>1 DEF ConnectionSound
  <1>8. BlocksExist'
    <2>1. (\A n \in 1..Len(said) : Gossiped(said[n]))'
      BY <1>1, <1>3 DEF BlocksExist
    <2>2. said' \in Seq(A!Content') /\ inboxB' \in Seq(Made)'
      BY <1>1, <1>2, <1>3 DEF BlocksExist, A!Content
    <2> HIDE DEF Made, Gossiped
    <2> QED  BY <1>1, <1>3, <2>1, <2>2 DEF BlocksExist
  <1>9. TypesSound' /\ AwaitedFromA' /\ NoneAwaitedFromGone'
    <2>1. B!Heights' = B!Heights
      BY DEF B!Heights, B!Hash, B!HeightOf
    <2> QED  BY <1>1, <1>2, <2>1 DEF TypesSound, AwaitedFromA, NoneAwaitedFromGone
  <1>10. AnswerComes'
    BY <1>4 DEF AnswerComes
  <1> QED  BY <1>3, <1>6, <1>7, <1>8, <1>9, <1>10

\* A request that fails is a message less, and one of B is noted.
LEMMA RequestFailsKeeps ==
  ASSUME NetInv, RequestFails
  PROVE  NetInv'
  <1> USE DEF NetInv
  <1>1. PICK q \in net :
          /\ q.type = "BlockRequest" /\ net' = net \ {q}
          /\ failed' = failed \cup {n \in {"A", "B"} : SyncRequest(q, n)}
          /\ links' = links /\ asked' = asked /\ said' = said
          /\ UNCHANGED nodeA /\ UNCHANGED nodeB
    BY DEF RequestFails
  <1>2. /\ storedB' = storedB /\ tipB' = tipB /\ linesB' = linesB /\ inboxB' = inboxB
        /\ wantedB' = wantedB /\ syncedB' = syncedB
    BY <1>1 DEF nodeB
  <1>3. /\ Made' = Made
        /\ \A c : Gossiped(c)' <=> Gossiped(c)
        /\ \A m : MessageTyped(m)' <=> MessageTyped(m)
        /\ TipsStored'
        /\ linesA' \in Seq(Made)' /\ inboxA' \in Seq(Made)' /\ linesB' \in Seq(Made)'
    BY <1>1, <1>2, TreesAlone
  <1>4. MessagesSound' /\ ConnectionSound'
    BY <1>1, <1>3 DEF MessagesSound, Routed, ConnectionSound, Between, Together
  <1>5. BlocksExist'
    <2>1. (\A n \in 1..Len(said) : Gossiped(said[n]))'
      BY <1>1, <1>3 DEF BlocksExist
    <2>2. said' \in Seq(A!Content') /\ inboxB' \in Seq(Made)'
      BY <1>1, <1>2, <1>3 DEF BlocksExist, A!Content
    <2> HIDE DEF Made, Gossiped
    <2> QED  BY <1>1, <1>3, <2>1, <2>2 DEF BlocksExist
  <1>6. TypesSound' /\ AwaitedFromA'
    BY <1>1, <1>2 DEF TypesSound, AwaitedFromA, B!Heights, B!Hash, B!HeightOf
  <1>7. NoneAwaitedFromGone'
    <2>1. A!Closed("A", "B") \in net => A!Closed("A", "B") \in net'
      BY <1>1 DEF A!Closed
    <2> QED  BY <1>1, <1>2, <2>1 DEF NoneAwaitedFromGone, Together, B!Heights, B!Hash,
                                     B!HeightOf, A!Closed
  <1>8. AnswerComes'
    <2> SUFFICES ASSUME Together, asked["B"] # Unasked, "B" \notin failed', ~syncedB,
                        inboxB = <<>>
                 PROVE  \E m \in net' : Synchronising(m)
      BY <1>1, <1>2 DEF AnswerComes, Together, Unasked, Synchronising, SyncRequest
    <2>1. ~SyncRequest(q, "B") /\ "B" \notin failed
      BY <1>1
    <2>2. PICK m \in net : Synchronising(m)
      BY <2>1 DEF AnswerComes
    <2>3. m # q
      BY <1>1, <2>1, <2>2 DEF Synchronising
    <2> QED  BY <1>1, <2>2, <2>3
  <1> QED  BY <1>3, <1>4, <1>5, <1>6, <1>7, <1>8

\* A step of Outside sends one sound message to A.
LEMMA OutsideKeeps ==
  ASSUME NetInv, OutsideSpeaks \/ OutsideAnswers
  PROVE  NetInv'
  <1> USE DEF NetInv
  <1>1. /\ links' = links /\ asked' = asked /\ failed' = failed
        /\ UNCHANGED nodeA /\ UNCHANGED nodeB
    BY DEF OutsideSpeaks, OutsideAnswers
  <1>2. /\ storedB' = storedB /\ tipB' = tipB /\ linesB' = linesB /\ inboxB' = inboxB
        /\ wantedB' = wantedB /\ syncedB' = syncedB
    BY <1>1 DEF nodeB
  <1>3. /\ Made' = Made
        /\ \A c : Gossiped(c)' <=> Gossiped(c)
        /\ \A m : MessageTyped(m)' <=> MessageTyped(m)
        /\ TipsStored'
        /\ linesA' \in Seq(Made)' /\ inboxA' \in Seq(Made)' /\ linesB' \in Seq(Made)'
    BY <1>1, <1>2, TreesAlone
  <1>4. /\ \E r, gone : /\ net' = (net \ gone) \cup {r}
                        /\ \A m \in gone : m.to = Outside
                        /\ MessageTyped(r) /\ r.from = Outside /\ r.to = "A"
                        /\ r.type \in {"Gossip", "BlockResponse"}
        /\ \A n \in 1..Len(said') : Gossiped(said'[n])
        /\ said' \in Seq(A!Content)
    <2>1. CASE OutsideSpeaks
      <3> DEFINE r == A!Gossip(Outside, "A", Head(said))
                 gone == {}
      <3>1. net' = (net \ gone) \cup {r}
        BY <2>1 DEF OutsideSpeaks
      <3>2. r.from = Outside /\ r.to = "A" /\ r.type = "Gossip" /\ r.content = Head(said)
        BY DEF A!Gossip
      <3>3. /\ said \in Seq(A!Content) /\ said # <<>> /\ said' = Tail(said)
            /\ \A n \in 1..Len(said) : Gossiped(said[n])
        BY <2>1 DEF BlocksExist, OutsideSpeaks
      <3>4. Head(said) = said[1] /\ 1 \in 1..Len(said)
        BY <3>3
      <3>5. MessageTyped(r)
        BY <3>2, <3>3, <3>4 DEF MessageTyped
      <3>6. /\ said' \in Seq(A!Content)
            /\ \A n \in 1..Len(said') : said'[n] = said[n + 1] /\ n + 1 \in 1..Len(said)
        BY <3>3
      <3>7. \A m \in gone : m.to = Outside
        OBVIOUS
      <3> HIDE DEF r, gone
      <3> QED  BY <3>1, <3>2, <3>3, <3>5, <3>6, <3>7
    <2>2. CASE OutsideAnswers
      <3>1. PICK q \in net :
              /\ q.to = Outside
              /\ net' = (net \ {q}) \cup
                        {A!BlockResponse(Outside, q.from, A!Served(OutsideLog, q.low, q.high))}
              /\ said' = said
        BY <2>2 DEF OutsideAnswers
      <3> DEFINE served == A!Served(OutsideLog, q.low, q.high)
                 r == A!BlockResponse(Outside, q.from, served)
                 gone == {q}
      <3>2. q.from = "A"
        BY <3>1, NamesDiffer DEF MessagesSound, Routed
      <3>3. served \in Seq(Made)
        <4>1. (Block \cup {Genesis}) \ (OwnA \cup OwnB) \subseteq Made
          BY DEF Made, Hash
        <4>2. OutsideLog \in Seq(Made)
          BY <4>1, OutsideAssumption
        <4> HIDE DEF Made
        <4> QED  BY <4>2, ServedType
      <3>4. r.from = Outside /\ r.to = "A" /\ r.type = "BlockResponse" /\ r.blocks = served
        BY <3>2 DEF A!BlockResponse
      <3>5. MessageTyped(r)
        BY <3>3, <3>4 DEF MessageTyped
      <3>6. net' = (net \ gone) \cup {r} /\ \A m \in gone : m.to = Outside
        BY <3>1
      <3>7. said' \in Seq(A!Content) /\ \A n \in 1..Len(said') : Gossiped(said'[n])
        BY <3>1 DEF BlocksExist
      <3> HIDE DEF r, gone
      <3> QED  BY <3>4, <3>5, <3>6, <3>7
    <2> QED  BY <2>1, <2>2
  <1>5. PICK r, gone : /\ net' = (net \ gone) \cup {r}
                       /\ \A m \in gone : m.to = Outside
                       /\ MessageTyped(r) /\ r.from = Outside /\ r.to = "A"
                       /\ r.type \in {"Gossip", "BlockResponse"}
    BY <1>4
  <1>6. MessagesSound'
    BY <1>3, <1>5 DEF MessagesSound, Routed
  <1>7. ConnectionSound'
    <2>1. {r.from, r.to} # {"A", "B"}
      BY <1>5, NamesDiffer
    <2> QED  BY <1>1, <1>5, <2>1 DEF ConnectionSound, Between, Together
  <1>8. BlocksExist'
    <2>1. (\A n \in 1..Len(said) : Gossiped(said[n]))'
      BY <1>3, <1>4
    <2>2. said' \in Seq(A!Content') /\ inboxB' \in Seq(Made)'
      BY <1>2, <1>3, <1>4 DEF BlocksExist, A!Content
    <2> HIDE DEF Made, Gossiped
    <2> QED  BY <1>3, <2>1, <2>2 DEF BlocksExist
  <1>9. TypesSound' /\ AwaitedFromA'
    BY <1>1, <1>2 DEF TypesSound, AwaitedFromA, B!Heights, B!Hash, B!HeightOf
  <1>10. \A m \in net : m.to # Outside => m \in net'
    BY <1>5
  <1>11. NoneAwaitedFromGone'
    <2>1. A!Closed("A", "B") \in net => A!Closed("A", "B") \in net'
      BY <1>10, NamesDiffer DEF A!Closed
    <2> QED  BY <1>1, <1>2, <2>1 DEF NoneAwaitedFromGone, Together, B!Heights, B!Hash,
                                     B!HeightOf, A!Closed
  <1>12. AnswerComes'
    <2>1. \A m \in net : Synchronising(m) => m \in net'
      BY <1>10, NamesDiffer DEF Synchronising
    <2> QED  BY <1>1, <1>2, <2>1 DEF AnswerComes, Together, Unasked, Synchronising, SyncRequest
  <1> QED  BY <1>3, <1>6, <1>7, <1>8, <1>9, <1>11, <1>12

-----------------------------------------------------------------------------
(* The theorems.                                                           *)

LEMMA NetInvInit ==
  ASSUME NetInit  PROVE  NetInv
  <1>1. /\ net = {} /\ links = {} /\ said \in Scripts
        /\ asked = [n \in {"A", "B"} |-> Unasked]
        /\ storedA = {Genesis} /\ tipA = Genesis /\ linesA = <<Genesis>> /\ inboxA = <<>>
        /\ storedB = {Genesis} /\ tipB = Genesis /\ linesB = <<Genesis>> /\ inboxB = <<>>
        /\ wantedB = [n \in B!Heights |-> Nothing]
        /\ syncedB = (~TRUE \/ B!HeightOf(tipB) > 0 \/ ~TRUE)
    BY DEF NetInit, A!RelayInit, B!RelayInit, A!NodeInit, B!NodeInit, A!Init, B!Init
  <1>2. TypesSound /\ AwaitedFromA /\ NoneAwaitedFromGone
    BY <1>1 DEF TypesSound, AwaitedFromA, NoneAwaitedFromGone
  <1>3. MessagesSound /\ ConnectionSound /\ AnswerComes /\ TipsStored
    BY <1>1 DEF MessagesSound, ConnectionSound, AnswerComes, TipsStored, Between, Together
  <1>4. BlocksExist
    <2>1. (Block \cup {Genesis}) \ (OwnA \cup OwnB) \subseteq Made /\ Genesis \in Made
      BY OutsideAssumption DEF Made, Hash
    <2>2. /\ said \in Seq({c \in A!Content : c.type = "NewTransaction" => c.tx \in Submitted})
          /\ \A n \in 1..Len(said) :
               said[n].type # "NewTransaction" =>
                 said[n].block \in (Block \cup {Genesis}) \ (OwnA \cup OwnB)
      BY <1>1, OutsideAssumption
    <2> HIDE DEF Made
    <2>3. ASSUME NEW n \in 1..Len(said)  PROVE  Gossiped(said[n])
      <3>1. said[n] \in A!Content /\ (said[n].type = "NewTransaction" => said[n].tx \in Submitted)
        BY <2>2
      <3>2. CASE said[n] \in [type : {"NewBlock", "CompactBlock"}, block : Block]
        BY <3>2, <2>1, <2>2 DEF Gossiped
      <3>3. CASE said[n] \in [type : {"NewTransaction"}, tx : Tx]
        BY <3>1, <3>3 DEF Gossiped
      <3> QED  BY <3>1, <3>2, <3>3 DEF A!Content
    <2>4. said \in Seq(A!Content)
      BY <2>2
    <2> QED  BY <1>1, <2>1, <2>3, <2>4 DEF BlocksExist
  <1> QED  BY <1>2, <1>3, <1>4 DEF NetInv

\* A step of the network is a step of a node, of both or of none.
StepOfNodes ==
  [A!NodeNext]_(A!nodeVars) /\ [B!NodeNext \/ B!Restart]_(B!nodeVars)

LEMMA NetStep ==
  ASSUME NetInv, [NetNext]_netVars
  PROVE  NetInv' /\ StepOfNodes
  <1>1. ASSUME UNCHANGED nodeA  PROVE  UNCHANGED A!nodeVars
    BY <1>1 DEF nodeA, A!nodeVars, A!vars, A!poolVars
  <1>2. ASSUME UNCHANGED nodeB  PROVE  UNCHANGED B!nodeVars
    BY <1>2 DEF nodeB, B!nodeVars, B!vars, B!poolVars
  <1>3. CASE AStep
    BY <1>3, AStepKeeps DEF StepOfNodes
  <1>4. CASE BStep
    BY <1>4, BStepKeeps DEF StepOfNodes
  <1>5. CASE LinkUp \/ LinkDown \/ RequestFails \/ OutsideSpeaks \/ OutsideAnswers
    <2>1. UNCHANGED nodeA /\ UNCHANGED nodeB
      BY <1>5 DEF LinkUp, LinkDown, RequestFails, OutsideSpeaks, OutsideAnswers
    <2> QED  BY <1>1, <1>2, <1>5, <2>1, LinkUpKeeps, LinkDownKeeps, RequestFailsKeeps,
                OutsideKeeps DEF StepOfNodes
  <1>6. CASE BRestarts
    <2>1. UNCHANGED nodeA /\ B!Restart
      BY <1>6 DEF BRestarts
    <2> QED  BY <1>1, <1>6, <2>1, BRestartsKeeps DEF StepOfNodes
  <1>7. CASE UNCHANGED netVars
    <2>1. /\ UNCHANGED <<nodeA, nodeB, net, links, said, asked, failed>>
      BY <1>7 DEF netVars
    <2>2. /\ UNCHANGED <<storedB, tipB, linesB, inboxB, wantedB, syncedB>>
      BY <2>1 DEF nodeB
    <2>3. /\ Made' = Made
          /\ \A c : Gossiped(c)' <=> Gossiped(c)
          /\ \A m : MessageTyped(m)' <=> MessageTyped(m)
          /\ TipsStored'
          /\ linesA' \in Seq(Made)' /\ inboxA' \in Seq(Made)' /\ linesB' \in Seq(Made)'
      BY <2>1, <2>2, TreesAlone
    <2>4. BlocksExist'
      <3>1. (\A n \in 1..Len(said) : Gossiped(said[n]))'
        BY <2>1, <2>3 DEF NetInv, BlocksExist
      <3>2. said' \in Seq(A!Content') /\ inboxB' \in Seq(Made)'
        BY <2>1, <2>2, <2>3 DEF NetInv, BlocksExist, A!Content
      <3> HIDE DEF Made, Gossiped
      <3> QED  BY <2>3, <3>1, <3>2 DEF BlocksExist
    <2>5. MessagesSound' /\ ConnectionSound'
      BY <2>1, <2>3 DEF NetInv, MessagesSound, Routed, ConnectionSound, Between, Together
    <2>6. TypesSound' /\ AwaitedFromA' /\ NoneAwaitedFromGone' /\ AnswerComes'
      BY <2>1, <2>2 DEF NetInv, TypesSound, AwaitedFromA, NoneAwaitedFromGone, AnswerComes,
                        B!Heights, B!Hash, B!HeightOf, Together, Unasked, Synchronising,
                        SyncRequest, A!Closed
    <2>7. StepOfNodes
      BY <2>1, <1>1, <1>2 DEF StepOfNodes
    <2> QED  BY <2>3, <2>4, <2>5, <2>6, <2>7 DEF NetInv
  <1> QED  BY <1>3, <1>4, <1>5, <1>6, <1>7 DEF NetNext, AStep, BStep

\* Every message is sound and goes where it may, every block that is logged, sent or
\* awaited exists, and the bookkeeping of synchronisation is consistent.
THEOREM NetInvariant == NetSpec => []NetInv
  <1>1. NetInit => NetInv
    BY NetInvInit
  <1>2. NetInv /\ [NetNext]_netVars => NetInv'
    BY NetStep
  <1> QED  BY <1>1, <1>2, PTL DEF NetSpec

\* A compact block is awaited only from a peer that has not been seen to go
\* (swarm's ConnectionClosed empties pending_compact of it).
THEOREM NeverAwaitedFromGone == NetSpec => []NoneAwaitedFromGone
  <1>1. NetInv => NoneAwaitedFromGone
    BY DEF NetInv
  <1> QED  BY <1>1, NetInvariant, PTL

\* Synchronisation ends whatever the answer was.
THEOREM SynchronisationEnds == NetSpec => []SyncEnds
  <1>1. NetInv => SyncEnds
    BY DEF NetInv, AnswerComes, SyncEnds, Quiet
  <1> QED  BY <1>1, NetInvariant, PTL

\* What the event loop of a node does among its peers is what Node does: Network
\* implements two nodes, one of which restarts.
THEOREM NetworkOfNodes == NetSpec => FollowsNode
  <1>1. NetInit => A!NodeInit /\ B!NodeInit
    BY DEF NetInit, A!RelayInit, B!RelayInit
  <1>2. NetInv /\ [NetNext]_netVars =>
          [A!NodeNext]_(A!nodeVars) /\ [B!NodeNext \/ B!Restart]_(B!nodeVars)
    BY NetStep DEF StepOfNodes
  <1> QED  BY <1>1, <1>2, NetInvariant, PTL DEF NetSpec, FollowsNode
=============================================================================
