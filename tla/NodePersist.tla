---------------------------- MODULE NodePersist ----------------------------
(***************************************************************************)
(* The node and its files (src/src/store.rs).  blocks.jsonl gets a line    *)
(* for every block the node accepts or makes; utxo.json and                *)
(* chain_store.json are written one after the other from time to time      *)
(* (P2pNode::run).  Neither diffs nor block bodies are in chain_store.json.*)
(* The process may stop at any point; a start reads the ledger from the    *)
(* first file and the tree from the second, or, without it, from the log.  *)
(*                                                                         *)
(* Between two runs of the node the same files may be used by the          *)
(* stand-alone miner (cmd_mine, cmd_simulate, cmd_start without --p2p),    *)
(* which knows the log and the ledger only.                                *)
(***************************************************************************)
EXTENDS NodeChainProperties

CONSTANTS
  FirstLogs, \* what blocks.jsonl may be at first: the root, or nothing
  Intact,    \* the blocks that pass validate_block_integrity
  NoFile,    \* "chain_store.json does not exist"
  MaxCached, \* MAX_CACHED_BLOCKS
  MaxLog,    \* bound: lines of the log
  MaxFresh,  \* bound: lines of a log that began empty
  MaxStops   \* bound: stops of a process

ASSUME PersistAssumption ==
  /\ FirstLogs \subseteq {<<>>, <<Genesis>>}
  /\ Intact \subseteq Hash
  /\ NoFile \notin [stored : SUBSET Hash, work : [Hash -> Nat], tip : Hash \cup {Zero},
                     tipWork : Nat, orphans : SUBSET Hash, order : Seq(Hash)]
  /\ MaxCached \in Nat \ {0}
  /\ MaxLog \in Nat /\ MaxFresh \in Nat /\ MaxStops \in Nat

VARIABLES
  log,        \* blocks.jsonl
  utxoFile,   \* utxo.json
  storeFile,  \* chain_store.json
  mode,       \* what is running, and whether it is between two saves
  stops,      \* how often a process has stopped
  matched,    \* history: at every start so far the files belonged together
  refused     \* history: the blocks of the tree that the ledger did not take

files == <<log, utxoFile, storeFile>>
history == <<matched, refused>>
persistVars == <<vars, files, mode, stops, history>>

Logged == ToSet(log)

\* The images and the supply of L are those of M, and its outputs are among M's.
Within(L, M) ==
  /\ \A k \in Key : L.utxos[k] \in {M.utxos[k], NoEntry}
  /\ L.images = M.images
  /\ L.supply = M.supply

-----------------------------------------------------------------------------
(* Starting.                                                               *)

\* A tree read from the log: known are its blocks, root the last one of height
\* 0 (which starts the tree anew), ok fails at a line without its parent.
EmptyTree == [ok |-> TRUE, known |-> {}, root |-> Zero, work |-> [h \in Hash |-> 0]]

\* Mutant: a line without its parent is taken as a root.
RelinkDetached(t, h) ==
  IF h \in t.known THEN t
  ELSE [t EXCEPT !.known = @ \cup {h},
                 !.work[h] = Weight[h] + (IF Parent[h] \in t.known
                                          THEN t.work[Parent[h]] ELSE 0)]

Relink(t, h) ==
  CASE h \in t.known -> t
    [] h \notin t.known /\ HeightOf(h) = 0 ->
         [t EXCEPT !.known = {h}, !.root = h, !.work = [EmptyTree.work EXCEPT ![h] = Weight[h]]]
    [] h \notin t.known /\ HeightOf(h) > 0 /\ Parent[h] \in t.known ->
         [t EXCEPT !.known = @ \cup {h}, !.work[h] = t.work[Parent[h]] + Weight[h]]
    [] OTHER -> [t EXCEPT !.ok = @ /\ Parent[h] = Zero]

Rebuilt == FoldLeft(Relink, EmptyTree, log)

\* Mutant: the last of the heaviest.
LastHeaviest(t) ==
  LET best == SelectLastInSeq(log, LAMBDA h : /\ h \in t.known /\ t.work[h] > 0
                                              /\ \A g \in t.known : t.work[g] <= t.work[h])
  IN  IF best = 0 THEN t.root ELSE log[best]

\* The first of the heaviest blocks of the log.
HeaviestLogged(t) ==
  LET best == SelectInSeq(log, LAMBDA h : /\ h \in t.known /\ t.work[h] > 0
                                          /\ \A g \in t.known : t.work[g] <= t.work[h])
  IN  IF best = 0 THEN t.root ELSE log[best]

\* The file is there and knows its own tip; else the store is rebuilt.
Loadable == storeFile # NoFile /\ storeFile.tip \in storeFile.stored

\* Mutant: a parent is looked for in the log only.
HaltsByLog ==
  IF Loadable
  THEN \E h \in Logged \cap storeFile.stored :
         \/ h \notin Intact
         \/ HeightOf(h) > 0 /\ Parent[h] \notin Logged
  ELSE ~(Logged \subseteq Intact) \/ ~Rebuilt.ok

\* Where load_chain_store takes the disk for corrupted and ends the process.
Halts ==
  IF Loadable
  THEN \E h \in Logged \cap storeFile.stored :
         \/ h \notin Intact
         \/ HeightOf(h) > 0 /\ Parent[h] \notin Logged \cup storeFile.stored
  ELSE ~(Logged \subseteq Intact) \/ ~Rebuilt.ok

\* load_chain_store from chain_store.json.  The log gives the bodies of the
\* blocks that the file knows; those it has beyond are left alone.
LoadStore ==
  /\ stored' = storeFile.stored
  /\ cached' = storeFile.stored \cap Logged
  /\ work' = storeFile.work
  /\ tip' = storeFile.tip
  /\ tipWork' = storeFile.tipWork
  /\ orphans' = storeFile.orphans
  /\ orphanOrder' = storeFile.order

\* load_chain_store without it.
RebuildStore ==
  LET t == Rebuilt
  IN  /\ stored' = t.known
      /\ cached' = t.known
      /\ work' = t.work
      /\ tip' = HeaviestLogged(t)
      /\ tipWork' = IF tip' = Zero THEN 0 ELSE t.work[tip']
      /\ orphans' = {}
      /\ orphanOrder' = <<>>

-----------------------------------------------------------------------------
(* The process.                                                            *)

\* Nothing is in memory.
Forget ==
  /\ stored' = {} /\ cached' = {} /\ work' = EmptyTree.work
  /\ tip' = Zero /\ tipWork' = 0
  /\ orphans' = {} /\ orphanOrder' = <<>>
  /\ ledger' = GenesisLedger
  /\ diffs' = [h \in Hash |-> NoDiff]
  /\ resurrected' = {}

PersistInit ==
  /\ stored = {} /\ cached = {} /\ work = EmptyTree.work
  /\ tip = Zero /\ tipWork = 0
  /\ orphans = {} /\ orphanOrder = <<>>
  /\ ledger = GenesisLedger
  /\ diffs = [h \in Hash |-> NoDiff]
  /\ resurrected = {}
  /\ log \in FirstLogs
  /\ utxoFile = GenesisLedger
  /\ storeFile = NoFile
  /\ mode = "down"
  /\ stops = 0
  /\ matched = TRUE
  /\ refused = {}

\* cmd_p2p and the head of P2pNode::run.  Nothing compares the two files.
StartNode ==
  /\ mode = "down"
  /\ ~Halts
  /\ IF Loadable THEN LoadStore ELSE RebuildStore
  /\ ledger' = utxoFile
  /\ diffs' = [h \in Hash |-> NoDiff]
  /\ resurrected' = {}
  /\ mode' = "node"
  /\ matched' = (/\ matched
                 /\ tip' # Zero
                 /\ ReplayOf[tip'].ok /\ Within(utxoFile, ReplayOf[tip'].ledger))
  /\ refused' = refused \cap stored'
  /\ UNCHANGED <<files, stops>>

HaltNode ==
  /\ mode = "down"
  /\ Halts
  /\ mode' = "halted"
  /\ UNCHANGED <<vars, files, stops, history>>

\* The process ends, for whatever reason, with what is on disk.
Stop ==
  /\ mode \in {"node", "saving", "miner"}
  /\ stops < MaxStops
  /\ stops' = stops + 1
  /\ mode' = "down"
  /\ Forget
  /\ UNCHANGED <<files, history>>

-----------------------------------------------------------------------------
(* The running node.                                                       *)

\* accept_block and mine_and_gossip: a line for the block.
WriteLine(b) ==
  /\ Len(log) < (IF Genesis \in Logged THEN MaxLog ELSE MaxFresh)
  /\ log' = Append(log, b)

\* A block that the ledger does not take, or that is too far off, stays in the
\* tree and has no line.
WriteIfApplied(b) ==
  IF tip' = b THEN WriteLine(b) /\ UNCHANGED refused
  ELSE refused' = refused \cup {b} /\ UNCHANGED log

\* A block of our own comes back to us once its line is written.
Reaches(b) == b \in Proven /\ (b \in Own => b \in Logged)

\* Mutant: only a block that moves the tip is written.
AcceptBlockTipOnly(b) ==
  /\ mode = "node"
  /\ Reaches(b)
  /\ \/ (QueueOrphan(b) \/ RejectGenesis(b) \/ Sidechain(b)) /\ UNCHANGED <<log, refused>>
     \/ (ExtendCanonical(b) \/ ReorgToNew(b)) /\ WriteIfApplied(b)
  /\ UNCHANGED <<utxoFile, storeFile, mode, stops, matched>>

\* A block of a peer, and its line if validate_and_apply_block has no error:
\* for an orphan and a side-chain block, too.
AcceptBlock(b) ==
  /\ mode = "node"
  /\ Reaches(b)
  /\ \/ (QueueOrphan(b) \/ Sidechain(b)) /\ WriteLine(b) /\ UNCHANGED refused
     \/ RejectGenesis(b) /\ UNCHANGED <<log, refused>>
     \/ (ExtendCanonical(b) \/ ReorgToNew(b)) /\ WriteIfApplied(b)
  /\ UNCHANGED <<utxoFile, storeFile, mode, stops, matched>>

\* mine_and_gossip: the line is written before the store hears of the block.
MineNode(b) ==
  /\ mode = "node"
  /\ b \notin Logged
  /\ MineBlock(b)
  /\ IF ApplyBlock(ledger, b).ok THEN WriteLine(b) ELSE UNCHANGED log
  /\ UNCHANGED <<utxoFile, storeFile, mode, stops, history>>

\* What chain_store.json holds of the store.
ChainStore == [stored |-> stored, work |-> work, tip |-> tip, tipWork |-> tipWork,
               orphans |-> orphans, order |-> orphanOrder]

\* The periodic save, a file at a time.
SaveUtxo ==
  /\ mode = "node"
  /\ utxoFile' = ledger
  /\ mode' = "saving"
  /\ UNCHANGED <<vars, log, storeFile, stops, history>>

SaveStore ==
  /\ mode = "saving"
  /\ storeFile' = ChainStore
  /\ mode' = "node"
  /\ UNCHANGED <<vars, log, utxoFile, stops, history>>

-----------------------------------------------------------------------------
(* The stand-alone miner: it takes the last line of the log for the tip and *)
(* the number of blocks for the height.  cmd_mine and cmd_simulate know the *)
(* number of lines; the loop of cmd_start counts the blocks in BLOCK_CACHE, *)
(* once it is filled, and the cache is cut to its last MaxCached.           *)

Counts == {Len(log), IF Len(log) > MaxCached THEN MaxCached ELSE Len(log)}

StartMiner ==
  /\ mode = "down"
  /\ ledger' = utxoFile
  /\ mode' = "miner"
  /\ UNCHANGED <<tree, queue, tip, tipWork, diffs, resurrected, files, stops, history>>

MinerMine(b) ==
  LET r == ApplyBlock(ledger, b)
  IN  /\ mode = "miner"
      /\ b \in Own \ Logged
      /\ Parent[b] = (IF log = <<>> THEN Zero ELSE Last(log))
      /\ HeightOf(b) \in Counts
      /\ Len(TxsOf[b]) = 1 /\ r.ok
      /\ ledger' = r.ledger
      /\ WriteLine(b)
      /\ UNCHANGED <<tree, queue, tip, tipWork, diffs, resurrected,
                     utxoFile, storeFile, mode, stops, history>>

MinerSave ==
  /\ mode = "miner"
  /\ utxoFile' = ledger
  /\ UNCHANGED <<vars, log, storeFile, mode, stops, history>>

PersistNext ==
  \/ StartNode \/ HaltNode \/ Stop
  \/ SaveUtxo \/ SaveStore
  \/ StartMiner \/ MinerSave
  \/ \E b \in Block : AcceptBlock(b) \/ MineNode(b) \/ MinerMine(b)

PersistSpec == PersistInit /\ [][PersistNext]_persistVars

-----------------------------------------------------------------------------
Running == mode \in {"node", "saving"}

\* While every start has found files that belong together, a restarted node
\* never believes in more than its chain gives: without diffs a reorganisation
\* loses outputs, but it invents none, and images and supply stay exact.
RestartLosesOnly ==
  Running /\ matched => ReplayOf[tip].ok /\ Within(ledger, ReplayOf[tip].ledger)

\* Every canonical block has its line in the log (a start finds the bodies it
\* needs to walk down the chain there), and after any start the node has them: but
\* for a block that was refused first and came into the chain under a later one.
CanonicalOnDisk == Running => Canonical \subseteq (Logged \cap cached) \cup refused

\* As long as the tree has not been saved, reading the log anew would give the
\* tip the node has ("Verify chain_store loading picks heaviest chain").
RebuildFindsTip ==
  Running /\ storeFile = NoFile /\ Rebuilt.ok => HeaviestLogged(Rebuilt) = tip

\* The tree stays sound across stops and starts.
TreeSurvives == Running => TreeSound

\* A start resumes with the ledger of its tip ("Disk persistence across
\* restart: state matches").
ResumesCoherently ==
  Running => ReplayOf[tip].ok /\ Within(ledger, ReplayOf[tip].ledger)

\* What the node itself wrote makes it halt only when the tree has to be rebuilt,
\* and only at a line whose parent is missing from it: the block of a peer, logged
\* before its parent or over a parent that was never applied, or a block over one
\* that a rebuild skips, which a fresh node makes above the zero hash.
HaltsOnlyRebuilding ==
  mode = "halted" =>
    /\ ~Loadable
    /\ \E n \in 1..Len(log) :
         LET parent == Parent[log[n]]
             before == ToSet(SubSeq(log, 1, n - 1))
         IN  \/ log[n] \notin Own /\ parent \notin before \cup {Zero}
             \/ parent \in before /\ Parent[parent] = Zero /\ HeightOf(parent) > 0

\* A node that starts on an empty log stays at the zero hash: neither what it
\* mines, nor a genesis of a peer and what is built on it, nor a restart gives it
\* a tip, as long as no block of height 0 is in its log.
FreshStays == Running /\ (\A h \in Logged : HeightOf(h) > 0) => tip = Zero
=============================================================================
