------------------------------- MODULE Relay -------------------------------
(***************************************************************************)
(* The event loop of a node among its peers (P2pNode::run in               *)
(* src/src/p2p.rs): gossiped blocks, compact blocks and transactions,      *)
(* block requests and their answers, connections and the mining tick, over *)
(* the chain and the pool of Node.  A handler runs to its end before the   *)
(* next; the blocks of an answer are taken one a step, and nothing else    *)
(* happens at the node until the last is taken.                            *)
(*                                                                         *)
(* libp2p is modelled as the code uses it: gossip is forwarded as it is    *)
(* heard, and a content heard or published once is neither delivered nor   *)
(* published again.  The dashboard, which puts transactions into the pool  *)
(* without gossiping them, is left to NodeDashboard.                       *)
(***************************************************************************)
EXTENDS Node

CONSTANTS
  Self,      \* this node
  Peers,     \* those it may hear from
  Mines,     \* run(mine = true)
  Bootstrap, \* bootstrap_addr.is_some()
  Refuses,   \* whether the connection budget is ever exceeded
  Window,    \* how many heights beyond the first a connection asks for
  Nothing    \* "no such key in pending_compact"

\* Assumed by whoever instantiates this module.
RelayAssumption ==
  /\ Self \notin Peers
  /\ {Mines, Bootstrap, Refuses} \subseteq BOOLEAN
  /\ Window \in Nat

VARIABLES
  lines,   \* blocks.jsonl
  wanted,  \* pending_compact: height -> compact block and where it came from
  synced,  \* sync_complete
  inbox,   \* the rest of the answer that is being handled
  heard,   \* gossipsub's cache of contents
  net,     \* what is under way between the nodes
  links    \* the connections, as sets of two nodes

relayVars == <<lines, wanted, synced, inbox, heard>>

Heights == {HeightOf(h) : h \in Hash}
Content ==
  [type : {"NewBlock", "CompactBlock"}, block : Block] \cup [type : {"NewTransaction"}, tx : Tx]

NewBlock(b) == [type |-> "NewBlock", block |-> b]
CompactBlock(b) == [type |-> "CompactBlock", block |-> b]
NewTransaction(t) == [type |-> "NewTransaction", tx |-> t]

Gossip(from, to, c) == [type |-> "Gossip", from |-> from, to |-> to, content |-> c]
BlockRequest(from, to, low, high) ==
  [type |-> "BlockRequest", from |-> from, to |-> to, low |-> low, high |-> high]
BlockResponse(from, to, blocks) ==
  [type |-> "BlockResponse", from |-> from, to |-> to, blocks |-> blocks]
Established(a, b) == [type |-> "ConnectionEstablished", from |-> a, to |-> b]
Closed(a, b) == [type |-> "ConnectionClosed", from |-> a, to |-> b]

Linked == {p \in Peers : {Self, p} \in links}
Spread(c, but) == {Gossip(Self, p, c) : p \in Linked \ but}

RelayInit ==
  /\ NodeInit
  /\ lines = <<Genesis>>
  /\ wanted = [n \in Heights |-> Nothing]
  /\ synced = (~Mines \/ HeightOf(tip) > 0 \/ ~Bootstrap)
  /\ inbox = <<>>
  /\ heard = {}

\* The node has stopped after a save and starts again: tree and ledger are
\* read from the files and bodies from the log, the rest is as at first.
Restart ==
  /\ cached' = stored \cap ToSet(lines)
  /\ diffs' = [h \in Hash |-> NoDiff]
  /\ resurrected' = {}
  /\ pending' = <<>>
  /\ keyImages' = Pool!EmptyImages
  /\ utxoSpends' = Pool!EmptySpends
  /\ wanted' = [n \in Heights |-> Nothing]
  /\ synced' = (~Mines \/ HeightOf(tip) > 0 \/ ~Bootstrap)
  /\ inbox' = <<>>
  /\ heard' = {}
  /\ UNCHANGED <<stored, work, tip, tipWork, orphans, orphanOrder, ledger, lines>>

-----------------------------------------------------------------------------
(* A block is taken.                                                       *)

\* validate_and_apply_block returns an error before it has changed anything:
\* the proof, a duplicate, or a genesis that add_block does not take.
Refused(b) ==
  /\ \/ b \notin Proven
     \/ b \in cached /\ (ParentKnown(b) \/ HeightOf(b) = 0)
     \/ HeightOf(b) = 0 /\ ~ParentKnown(b) /\ ~CanAdd(b)
  /\ UNCHANGED vars

\* gossip_compact: what it sends, and to how many it goes.
Published(b, known) ==
  IF CompactBlock(b) \in known THEN {} ELSE Spread(CompactBlock(b), {})

\* accept_block after an Ok: the line and the announcement.
Accept(b, gone, known, out) ==
  /\ lines' = Append(lines, b)
  /\ heard' = known \cup {m.content : m \in Published(b, known)}
  /\ net' = (net \ gone) \cup out \cup Published(b, known)

Drop(gone, known, out) == heard' = known /\ net' = (net \ gone) \cup out /\ UNCHANGED lines

\* A block is validated, and accepted or dropped.  gone is the message that
\* brought it, known and out what gossipsub has heard and forwarded.
TakeBlock(b, gone, known, out) ==
  \/ /\ b \in Proven
     /\ \/ (QueueOrphan(b) \/ Sidechain(b)) /\ Accept(b, gone, known, out)
        \/ /\ ExtendCanonical(b) \/ ReorgToNew(b)
           /\ IF tip' = b THEN Accept(b, gone, known, out) ELSE Drop(gone, known, out)
        \/ RejectGenesis(b) /\ Drop(gone, known, out)
  \/ Refused(b) /\ Drop(gone, known, out)

-----------------------------------------------------------------------------
(* Gossip.                                                                 *)

\* A gossip message reaches the node when it is idle.
Hears(m) == m.type = "Gossip" /\ inbox = <<>>
Fresh(m) == Hears(m) /\ m.content \notin heard
Known(m) == heard \cup {m.content}
Forwards(m) == Spread(m.content, {m.from})

HearAgain(m) ==
  /\ Hears(m)
  /\ m.content \in heard
  /\ net' = net \ {m}
  /\ UNCHANGED <<nodeVars, relayVars, links>>

HearBlock(m) ==
  /\ Fresh(m)
  /\ m.content.type = "NewBlock"
  /\ TakeBlock(m.content.block, {m}, Known(m), Forwards(m))
  /\ UNCHANGED <<poolVars, wanted, synced, inbox, links>>

\* reconstruct_block finds each transaction in the pool.
Reconstructible(b) == ToSet(Tail(TxsOf[b])) \subseteq ToSet(pending)

\* pending_compact.insert.
Await(b, from) == [wanted EXCEPT ![HeightOf(b)] = [block |-> b, from |-> from]]

\* A compact block we have, one that the pool completes, and one that it does
\* not: this one is asked for, by its height, where it came from.
HearCompact(m) ==
  LET b == m.content.block
      n == HeightOf(b)
  IN  /\ Fresh(m)
      /\ m.content.type = "CompactBlock"
      /\ \/ /\ b \in cached
            /\ heard' = Known(m)
            /\ net' = (net \ {m}) \cup Forwards(m)
            /\ UNCHANGED <<vars, lines, wanted>>
         \/ /\ b \notin cached
            /\ Reconstructible(b)
            /\ TakeBlock(b, {m}, Known(m), Forwards(m))
            /\ wanted' = IF lines' # lines THEN [wanted EXCEPT ![n] = Nothing] ELSE wanted
         \/ /\ b \notin cached
            /\ ~Reconstructible(b)
            /\ wanted' = Await(b, m.from)
            /\ heard' = Known(m)
            /\ net' = (net \ {m}) \cup Forwards(m) \cup {BlockRequest(Self, m.from, n, n)}
            /\ UNCHANGED <<vars, lines>>
      /\ UNCHANGED <<poolVars, synced, inbox, links>>

\* mempool::submit, whose refusal is only logged.
HearTransaction(m) ==
  LET t == m.content.tx
      admitted == /\ Pool!Admissible(ledger, t)
                  /\ Pool!Full => Pool!FeeOf(t) > Pool!FeeOf(pending[Pool!Cheapest])
  IN  /\ Fresh(m)
      /\ m.content.type = "NewTransaction"
      /\ IF admitted THEN Pool!Submit(ledger, t) ELSE UNCHANGED poolVars
      /\ heard' = Known(m)
      /\ net' = (net \ {m}) \cup Forwards(m)
      /\ UNCHANGED <<vars, lines, wanted, synced, inbox, links>>

-----------------------------------------------------------------------------
(* Connections and synchronisation.                                        *)

Idle(m, type) == m.type = type /\ inbox = <<>>

\* Mutant: the heights asked for start one too high.
AskBeyond(p) == {BlockRequest(Self, p, HeightOf(tip) + 2, HeightOf(tip) + 2 + Window)}

Ask(p) == {BlockRequest(Self, p, HeightOf(tip) + 1, HeightOf(tip) + 1 + Window)}

\* A connection over the budget stays open and is not asked for anything.
ConnectionEstablished(m) ==
  /\ Idle(m, "ConnectionEstablished")
  /\ \/ net' = (net \ {m}) \cup Ask(m.from)
     \/ Refuses /\ net' = net \ {m}
  /\ UNCHANGED <<nodeVars, relayVars, links>>

\* Mutant: the entries of the others are dropped.
WantedWithout(p) ==
  [n \in Heights |-> IF wanted[n] # Nothing /\ wanted[n].from # p THEN Nothing ELSE wanted[n]]

WantedBut(p) ==
  [n \in Heights |-> IF wanted[n] # Nothing /\ wanted[n].from = p THEN Nothing ELSE wanted[n]]

ConnectionClosed(m) ==
  /\ Idle(m, "ConnectionClosed")
  /\ wanted' = WantedBut(m.from)
  /\ net' = net \ {m}
  /\ UNCHANGED <<nodeVars, lines, synced, inbox, heard, links>>

\* load_blocks_since and the filter: the lines of these heights, in the order
\* of the log.
Served(log, low, high) ==
  LET keep(kept, h) ==
        IF HeightOf(h) >= low /\ HeightOf(h) <= high THEN Append(kept, h) ELSE kept
  IN  FoldLeft(keep, <<>>, log)

AnswerRequest(m) ==
  /\ Idle(m, "BlockRequest")
  /\ net' = (net \ {m}) \cup {BlockResponse(Self, m.from, Served(lines, m.low, m.high))}
  /\ UNCHANGED <<nodeVars, relayVars, links>>

\* Mutant: an empty answer does not complete the synchronisation.
HandleResponseOfBlocks(m) ==
  /\ Idle(m, "BlockResponse")
  /\ inbox' = m.blocks
  /\ synced' = synced
  /\ net' = net \ {m}
  /\ UNCHANGED <<nodeVars, lines, wanted, heard, links>>

\* An answer, to whatever it was: its blocks wait in inbox, and the
\* synchronisation is complete when there are none left.
HandleResponse(m) ==
  /\ Idle(m, "BlockResponse")
  /\ inbox' = m.blocks
  /\ synced' = (synced \/ m.blocks = <<>>)
  /\ net' = net \ {m}
  /\ UNCHANGED <<nodeVars, lines, wanted, heard, links>>

TakeNext ==
  /\ inbox # <<>>
  /\ TakeBlock(Head(inbox), {}, heard, {})
  /\ inbox' = Tail(inbox)
  /\ synced' = (synced \/ Len(inbox) = 1)
  /\ UNCHANGED <<poolVars, wanted, links>>

\* Mutant: what the block was filled from stays in the pool.
MineTickKeepingPool(b) ==
  LET included == Include(HeightOf(b))
  IN  /\ Mines /\ synced /\ inbox = <<>>
      /\ Tail(TxsOf[b]) = included.body
      /\ Mine(included.ledger, b)
      /\ UNCHANGED poolVars
      /\ IF ApplyBlock(included.ledger, b).ok
         THEN /\ lines' = Append(lines, b)
              /\ heard' = heard \cup {m.content : m \in Published(b, heard)}
              /\ net' = net \cup Published(b, heard)
         ELSE UNCHANGED <<lines, heard, net>>
      /\ UNCHANGED <<wanted, synced, inbox, links>>

\* The mining tick; mine_and_gossip publishes what mine_block made.
MineTick(b) ==
  /\ Mines /\ synced /\ inbox = <<>>
  /\ MinePending(b)
  /\ IF ApplyBlock(Include(HeightOf(b)).ledger, b).ok
     THEN /\ lines' = Append(lines, b)
          /\ heard' = heard \cup {m.content : m \in Published(b, heard)}
          /\ net' = net \cup Published(b, heard)
     ELSE UNCHANGED <<lines, heard, net>>
  /\ UNCHANGED <<wanted, synced, inbox, links>>

\* A message under way to this node is handled.
Arrived == {m \in net : m.to = Self}
Handle(m) ==
  \/ HearAgain(m) \/ HearBlock(m) \/ HearCompact(m) \/ HearTransaction(m)
  \/ ConnectionEstablished(m) \/ ConnectionClosed(m)
  \/ AnswerRequest(m) \/ HandleResponse(m)

RelayNext ==
  \/ \E m \in Arrived : Handle(m)
  \/ TakeNext
  \/ \E b \in Own : MineTick(b)
=============================================================================
