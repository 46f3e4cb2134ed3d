--------------------------- MODULE NetworkInvariant ---------------------------
(***************************************************************************)
(* What the properties of Network need on top of themselves to be kept by  *)
(* every step: who sends what to whom, and that a miner's block is nowhere *)
(* before the miner has made it.                                           *)
(***************************************************************************)
EXTENDS Network

Hash == Block \cup {Genesis}

\* The blocks that exist: a miner's own from the moment it made them.
Made == {h \in Hash : (h \in OwnA => h \in storedA) /\ (h \in OwnB => h \in storedB)}

\* What nodes gossip.
Gossiped(c) ==
  \/ c.type \in {"NewBlock", "CompactBlock"} /\ c.block \in Made
  \/ c.type = "NewTransaction" /\ c.tx \in Tx \cap Submitted

\* The messages that there may be.
MessageTyped(m) ==
  \/ m.type = "Gossip" /\ Gossiped(m.content)
  \/ m.type = "BlockRequest"
  \/ m.type = "BlockResponse" /\ m.blocks \in Seq(Made)
  \/ m.type \in {"ConnectionEstablished", "ConnectionClosed"}

\* B hears from A only, and Outside is only asked.
Routed(m) ==
  \/ m.from = "B" /\ m.to = "A"
  \/ m.from = "A" /\ m.to = "B"
  \/ m.from = Outside /\ m.to = "A" /\ m.type \in {"Gossip", "BlockResponse"}
  \/ m.from = "A" /\ m.to = Outside /\ m.type = "BlockRequest"

MessagesSound == \A m \in net : MessageTyped(m) /\ Routed(m)

\* Between nodes that are apart nothing is under way but the news of it, which has
\* been heard before they meet again.
ConnectionSound ==
  /\ links \subseteq {{"A", "B"}}
  /\ \A m \in Between : m.type = "ConnectionClosed" <=> ~Together

\* The lines and the answers in hand name blocks that exist.
BlocksExist ==
  /\ linesA \in Seq(Made) /\ inboxA \in Seq(Made)
  /\ linesB \in Seq(Made) /\ inboxB \in Seq(Made)
  /\ \A n \in 1..Len(said) : Gossiped(said[n])
  /\ said \in Seq(A!Content)

TipsStored == tipA \in storedA /\ tipB \in storedB

\* Who awaits a compact block at B.
AwaitedFromA == \A n \in B!Heights : wantedB[n] # Nothing => wantedB[n].from = "A"

\* What B asked for when they met, or an answer to it or to another of its requests.
Synchronising(m) ==
  \/ SyncRequest(m, "B") /\ m.to = "A"
  \/ m.type = "BlockResponse" /\ m.to = "B"

\* B has asked, its request has not failed and it is not synchronised: the request,
\* the answer, or a block of the answer is still to be handled.
AnswerComes ==
  Together /\ asked["B"] # Unasked /\ "B" \notin failed /\ ~syncedB =>
    inboxB # <<>> \/ \E m \in net : Synchronising(m)

TypesSound ==
  /\ syncedB \in BOOLEAN
  /\ asked = [n \in {"A", "B"} |-> asked[n]]
  /\ wantedB = [n \in B!Heights |-> wantedB[n]]

NetInv ==
  /\ TypesSound
  /\ MessagesSound
  /\ ConnectionSound
  /\ BlocksExist
  /\ TipsStored
  /\ AwaitedFromA
  /\ NoneAwaitedFromGone
  /\ AnswerComes
=============================================================================
