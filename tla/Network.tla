------------------------------ MODULE Network ------------------------------
(***************************************************************************)
(* Two mining nodes, A and B, of which B has A for its bootstrap peer.  B  *)
(* dials A once after each of its starts and nobody dials later, so that a *)
(* connection that is lost is lost until B starts again.  A third party,   *)
(* Outside, is connected to A throughout, gossips blocks and transactions  *)
(* and answers requests.  A connection lasts until both ends have noticed  *)
(* it, and ends with all that is under way on it; a request on it may also *)
(* time out or otherwise fail, which nobody notices.                       *)
(***************************************************************************)
EXTENDS UtxoLedger

CONSTANTS
  Genesis, Zero, Parent, Weight, Proven, MaxOrphans, MaxReorg, NoDiff,
  MaxPending, NoTx, Submitted, Refuses, Window, Nothing,
  OwnA, OwnB,    \* the blocks that the miners of A and B can make
  Outside,       \* the third party
  OutsideLog,    \* the blocks it serves, in order
  Scripts,       \* the contents it may gossip, in order
  MaxStarts      \* bound: starts of B

VARIABLES
  storedA, cachedA, workA, tipA, tipWorkA, orphansA, orphanOrderA, diffsA,
  ledgerA, resurrectedA, pendingA, keyImagesA, utxoSpendsA, linesA, wantedA,
  syncedA, inboxA, heardA,
  storedB, cachedB, workB, tipB, tipWorkB, orphansB, orphanOrderB, diffsB,
  ledgerB, resurrectedB, pendingB, keyImagesB, utxoSpendsB, linesB, wantedB,
  syncedB, inboxB, heardB,
  net,    \* what is under way
  links,  \* the connections between nodes
  said,   \* the rest of what Outside gossips
  starts, \* how often B has started
  dialled,\* whether B has dialled A since
  lost,   \* history: the blocks that one of them may have missed while apart
  asked,  \* history: the height of each one's tip when it asked on this connection
  failed  \* history: the nodes whose question on this connection got no answer

A == INSTANCE Relay WITH
  Self <- "A", Peers <- {"B", Outside}, Own <- OwnA, Mines <- TRUE, Bootstrap <- FALSE,
  stored <- storedA, cached <- cachedA, work <- workA, tip <- tipA,
  tipWork <- tipWorkA, orphans <- orphansA, orphanOrder <- orphanOrderA,
  diffs <- diffsA, ledger <- ledgerA, resurrected <- resurrectedA,
  pending <- pendingA, keyImages <- keyImagesA, utxoSpends <- utxoSpendsA,
  lines <- linesA, wanted <- wantedA, synced <- syncedA, inbox <- inboxA,
  heard <- heardA

B == INSTANCE Relay WITH
  Self <- "B", Peers <- {"A", Outside}, Own <- OwnB, Mines <- TRUE, Bootstrap <- TRUE,
  stored <- storedB, cached <- cachedB, work <- workB, tip <- tipB,
  tipWork <- tipWorkB, orphans <- orphansB, orphanOrder <- orphanOrderB,
  diffs <- diffsB, ledger <- ledgerB, resurrected <- resurrectedB,
  pending <- pendingB, keyImages <- keyImagesB, utxoSpends <- utxoSpendsB,
  lines <- linesB, wanted <- wantedB, synced <- syncedB, inbox <- inboxB,
  heard <- heardB

ASSUME NetworkAssumption ==
  /\ A!RelayAssumption /\ B!RelayAssumption
  /\ MaxStarts \in Nat \ {0}

\* The miners make different blocks, and what Outside has and gossips is not theirs.
ASSUME OutsideAssumption ==
  LET Theirs == (Block \cup {Genesis}) \ (OwnA \cup OwnB)
  IN  /\ Genesis \notin Block /\ OwnA \cup OwnB \cup Proven \subseteq Block
      /\ OwnA \cap OwnB = {}
      /\ OutsideLog \in Seq(Theirs)
      /\ \A s \in Scripts :
           s \in Seq({c \in A!Content : c.type = "NewTransaction" => c.tx \in Submitted})
      /\ \A s \in Scripts : \A n \in 1..Len(s) :
           s[n].type # "NewTransaction" => s[n].block \in Theirs

nodeA == <<storedA, cachedA, workA, tipA, tipWorkA, orphansA, orphanOrderA,
           diffsA, ledgerA, resurrectedA, pendingA, keyImagesA, utxoSpendsA,
           linesA, wantedA, syncedA, inboxA, heardA>>
nodeB == <<storedB, cachedB, workB, tipB, tipWorkB, orphansB, orphanOrderB,
           diffsB, ledgerB, resurrectedB, pendingB, keyImagesB, utxoSpendsB,
           linesB, wantedB, syncedB, inboxB, heardB>>
netVars == <<nodeA, nodeB, net, links, said, starts, dialled, lost, asked, failed>>

Together == {"A", "B"} \in links

\* Above every height: nothing was asked.
Unasked == Cardinality(Block) + 1

NetInit ==
  /\ A!RelayInit /\ B!RelayInit
  /\ net = {} /\ links = {} /\ said \in Scripts /\ lost = {}
  /\ starts = 1 /\ dialled = FALSE
  /\ asked = [n \in {"A", "B"} |-> Unasked] /\ failed = {}

-----------------------------------------------------------------------------
(* The nodes.                                                              *)

BlocksIn(contents) == {c.block : c \in {d \in contents : d.type # "NewTransaction"}}

\* The question for what lies above n's tip, which only a new connection brings.
SyncRequest(m, n) == m.type = "BlockRequest" /\ m.from = n /\ m.low < m.high

\* What one node learns while the two are apart is not announced to the other.
Note(n, tipN, linesN, heardN) ==
  LET sync == {m \in net' \ net : SyncRequest(m, n)}
  IN  /\ lost' = IF Together THEN lost
                 ELSE lost \cup BlocksIn(heardN' \ heardN) \cup (ToSet(linesN') \ ToSet(linesN))
      /\ asked' = IF sync = {} THEN asked ELSE [asked EXCEPT ![n] = A!HeightOf(tipN)]
      /\ failed' = failed

ForA == UNCHANGED <<nodeB, said, starts, dialled>> /\ Note("A", tipA, linesA, heardA)
ForB == UNCHANGED <<nodeA, said, starts, dialled>> /\ Note("B", tipB, linesB, heardB)

AHandles == (\E m \in A!Arrived : A!Handle(m)) /\ ForA
BHandles == (\E m \in B!Arrived : B!Handle(m)) /\ ForB
ATakesNext == A!TakeNext /\ ForA
BTakesNext == B!TakeNext /\ ForB
AMines == (\E b \in OwnA : A!MineTick(b)) /\ ForA
BMines == (\E b \in OwnB : B!MineTick(b)) /\ ForB

-----------------------------------------------------------------------------
(* The connection and the third party.                                     *)

\* P2pNode::new of B dials; A has noticed the end of the connection before.
LinkUp ==
  /\ ~Together /\ ~dialled
  /\ \A m \in net : m.type # "ConnectionClosed"
  /\ links' = {{"A", "B"}}
  /\ dialled' = TRUE
  /\ net' = net \cup {A!Established("A", "B"), A!Established("B", "A")}
  /\ asked' = [n \in {"A", "B"} |-> Unasked] /\ failed' = {}
  /\ UNCHANGED <<nodeA, nodeB, said, starts, lost>>

\* What is under way between A and B, and the blocks among it.
Between == {m \in net : {m.from, m.to} = {"A", "B"}}
BlocksBetween ==
  BlocksIn({m.content : m \in {n \in Between : n.type = "Gossip"}})
  \cup UNION {ToSet(m.blocks) : m \in {n \in Between : n.type = "BlockResponse"}}

\* The connection that follows the last start lasts.
LinkDown ==
  /\ Together
  /\ starts < MaxStarts
  /\ \A m \in net : m.type # "ConnectionEstablished"
  /\ links' = {}
  /\ net' = (net \ Between) \cup {A!Closed("A", "B"), A!Closed("B", "A")}
  /\ lost' = lost \cup BlocksBetween
  /\ UNCHANGED <<nodeA, nodeB, said, starts, dialled, asked, failed>>

\* B is stopped and started again, connected or not.
BRestarts ==
  /\ starts < MaxStarts
  /\ \A m \in net : m.type # "ConnectionEstablished"
  /\ B!Restart
  /\ links' = {}
  /\ starts' = starts + 1
  /\ dialled' = FALSE
  /\ net' = {m \in net \ Between : m.to # "B"}
              \cup (IF Together THEN {A!Closed("B", "A")} ELSE {})
              \cup {m \in Between : m.type = "ConnectionClosed" /\ m.to = "A"}
  /\ lost' = lost \cup BlocksBetween \cup ToSet(inboxB)
  /\ UNCHANGED <<nodeA, said, asked, failed>>

\* A request fails while its connection stays up: after 30 seconds without an answer,
\* or because it or the answer is larger than the codec takes.  The event is ignored
\* at both ends, nobody asks again, and an answer that comes later is discarded.
\* Answering changes nothing at the one who answers, so that losing the request
\* stands for losing the answer.
RequestFails ==
  \E m \in net :
    /\ m.type = "BlockRequest"
    /\ net' = net \ {m}
    /\ failed' = failed \cup {n \in {"A", "B"} : SyncRequest(m, n)}
    /\ UNCHANGED <<nodeA, nodeB, links, said, starts, dialled, lost, asked>>

\* One content after the other, as a stream brings them.
OutsideSpeaks ==
  /\ said # <<>>
  /\ \A m \in net : m.from # Outside
  /\ said' = Tail(said)
  /\ net' = net \cup {A!Gossip(Outside, "A", Head(said))}
  /\ UNCHANGED <<nodeA, nodeB, links, starts, dialled, lost, asked, failed>>

OutsideAnswers ==
  \E m \in net :
    /\ m.to = Outside
    /\ net' = (net \ {m}) \cup
              {A!BlockResponse(Outside, m.from, A!Served(OutsideLog, m.low, m.high))}
    /\ UNCHANGED <<nodeA, nodeB, links, said, starts, dialled, lost, asked, failed>>

NetNext ==
  \/ AHandles \/ ATakesNext \/ AMines
  \/ BHandles \/ BTakesNext \/ BMines
  \/ LinkUp \/ LinkDown \/ BRestarts \/ RequestFails \/ OutsideSpeaks \/ OutsideAnswers

NetSpec == NetInit /\ [][NetNext]_netVars

\* Someone has a message to handle or an answer to finish, and can: each handler
\* has a disjunct for what it refuses.
Busy(n, inboxN) == inboxN # <<>> \/ \E m \in net : m.to = n

\* The event loops run for ever, what is under way arrives as long as its
\* connection lasts, and B's dial succeeds.  Nobody has to mine or to restart.
\* Every behaviour has finitely many messages, so that weak fairness of the
\* loops is that each has nothing left to do again and again.
NetFairness ==
  /\ []<>~Busy("A", inboxA) /\ []<>~Busy("B", inboxB) /\ []<>~Busy(Outside, <<>>)
  /\ WF_netVars(LinkUp)

FairNetSpec == NetSpec /\ NetFairness

-----------------------------------------------------------------------------
\* Nothing is on its way and no answer is half handled.
Quiet == net = {} /\ inboxA = <<>> /\ inboxB = <<>>

\* One node lacks h although it has h's parent.
Lacks(h, storedN) == h \notin storedN /\ Parent[h] \in storedN

\* Why node n may lack h for good: h came before its parent; its compact form
\* reached a node whose pool could not complete it (which then takes h without
\* announcing it again, if it gets it at all); n missed h while they were apart
\* and h is not above the tip that n had when it asked since; or n missed h then and
\* what it asked was not answered.
Excused(n, h, orphansN) ==
  \/ h \in orphansN
  \/ A!CompactBlock(h) \in heardA \cup heardB /\ Len(TxsOf[h]) > 1
  \/ h \in lost /\ Height[h] <= asked[n]
  \/ h \in lost /\ n \in failed

\* When two connected nodes have nothing more to tell each other, each has
\* every block of the other whose parent it has, but for those that one of
\* four causes explains: gossip and synchronisation leave no other gap.
GapsExplained ==
  Quiet /\ Together =>
    /\ \A h \in storedA : Lacks(h, storedB) => Excused("B", h, orphansB)
    /\ \A h \in storedB : Lacks(h, storedA) => Excused("A", h, orphansA)

\* A compact block is awaited only from a peer whose connection has not been
\* seen to close ("Clean up any pending compact block from this peer").
NoneAwaitedFromGone ==
  ~Together /\ A!Closed("A", "B") \notin net =>
    \A n \in B!Heights : wantedB[n] = Nothing

\* A node that has asked for blocks on this connection, and whose request did not
\* fail, is synchronised when nothing is under way any more, whatever the answer was:
\* only a request without an answer keeps a node behind a bootstrap peer from
\* mining ("sync_complete"), and then it may for as long as the connection lasts.
SyncEnds ==
  Quiet /\ Together /\ asked["B"] # Unasked /\ "B" \notin failed => syncedB

\* Each node of the network is a node: whatever the other and the third party do,
\* its handlers do to its chain and its pool what Node does, one step at a time;
\* only that B restarts.
FollowsNode ==
  /\ A!NodeInit /\ [][A!NodeNext]_(A!nodeVars)
  /\ B!NodeInit /\ [][B!NodeNext \/ B!Restart]_(B!nodeVars)

\* Once the nodes stay connected, both end on chains of the same work ("The fork
\* with the highest accumulated work becomes canonical").
Heals == <>[](tipWorkA = tipWorkB)
=============================================================================
