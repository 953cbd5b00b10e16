----------------------------- MODULE ChainLedger -----------------------------
(***************************************************************************)
(* The proof-of-work ledger every mesh node keeps (core/compute_ledger.py, *)
(* core/tokenomics.py) with the calls core/complete_mesh_controller.py and *)
(* core/broker.py make of it.  A node's threads share the ledger without a *)
(* lock, and the search for a nonce takes seconds: a block is assembled in *)
(* StartMine and installed in FinishMine, whatever happened in between.    *)
(* Installing a block (append, caches, file) is one step.  A signed        *)
(* transfer is a record; signatures, hashes and proofs of work are valid.  *)
(***************************************************************************)
EXTENDS Integers, SequencesExt, Sums

CONSTANTS
  Nodes,
  Threads,        \* the threads of a node that may be mining
  Accounts,
  Txs,            \* the transactions that exist
  Offered,        \* those the callers of each node hand to it
  Wallet,         \* node to the account its blocks pay
  Difficulties,   \* the leading zeros each node may mine a block at
  MaxBlocks,      \* bound on blocks assembled, genesis blocks included
  MaxPool,        \* bound on pending_transactions
  MaxRestarts     \* bound on restarts of all nodes together

\* A mint has a system sender; a payment is one of the types _pay_peer signs.
Kinds == {"transfer", "mint", "payment"}
NoBlock == 0

ASSUME ChainAssumption ==
  /\ Txs \subseteq [kind : Kinds, sender : Accounts \cup {"COINBASE"},
                    recipient : Accounts, amount : Nat, fee : Nat, nonce : Nat]
  /\ Offered \in [Nodes -> SUBSET Txs]
  /\ Wallet \in [Nodes -> Accounts] /\ Difficulties \in [Nodes -> SUBSET Nat]
  /\ MaxBlocks \in Nat \ {0} /\ MaxPool \in Nat /\ MaxRestarts \in Nat
  /\ IsFiniteSet(Accounts)

\* COINBASE is nobody's account; a mint is what it sends, without a fee.
ASSUME MintsAssumption ==
  /\ "COINBASE" \notin Accounts
  /\ \A t \in Txs :
       /\ t.kind = "mint" <=> t.sender = "COINBASE"
       /\ t.kind = "mint" => t.fee = 0

VARIABLES
  chain,      \* ComputeLedger.chain of each node, genesis first
  pool,       \* pending_transactions
  balances,   \* the cache _balances
  nonces,     \* the cache _nonces
  mining,     \* the block each thread searches a nonce for
  heard,      \* GossipProtocol.seen_messages, as block ids
  gossip,     \* the blocks some node broadcast
  ids,        \* block ids in use: a block's hash covers its timestamp
  restarts

vars == <<chain, pool, balances, nonces, mining, heard, gossip, ids, restarts>>

Idle == [id |-> NoBlock]
Tip(n) == Last(chain[n])

(***************************************************************************)
(* What a block does to an account                                         *)
(***************************************************************************)
Fees(b) == SumOver([i \in DOMAIN b.txs |-> b.txs[i].fee], DOMAIN b.txs)

\* Fees are collected as one fee_reward transaction of the miner.
Credits(b, a) ==
  SumOver([i \in DOMAIN b.txs |-> IF b.txs[i].recipient = a THEN b.txs[i].amount ELSE 0],
          DOMAIN b.txs)
    + (IF b.miner = a THEN Fees(b) ELSE 0)

\* A fault: the sender's fee is not debited.
FeelessDebits(b, a) ==
  SumOver([i \in DOMAIN b.txs |-> IF b.txs[i].sender = a THEN b.txs[i].amount ELSE 0],
          DOMAIN b.txs)

Debits(b, a) ==
  SumOver([i \in DOMAIN b.txs |->
             IF b.txs[i].sender = a THEN b.txs[i].amount + b.txs[i].fee ELSE 0],
          DOMAIN b.txs)

TransfersOf(b, a) ==
  {t \in ToSet(b.txs) : t.kind = "transfer" /\ t.sender = a}

NonceAfter(b, a, last) == Max({last} \cup {t.nonce : t \in TransfersOf(b, a)})

\* get_balance_at: the walk over the blocks 0 .. height.
Walked(c, h) == 1 .. IF h < Len(c) THEN h + 1 ELSE Len(c)
BalanceAt(c, a, h) ==
  SumOver([i \in DOMAIN c |-> Credits(c[i], a)], Walked(c, h))
    - SumOver([i \in DOMAIN c |-> Debits(c[i], a)], Walked(c, h))

\* total_supply_at
MintOf(t) == IF t.kind = "mint" THEN t.amount ELSE 0
Minted(b) == SumOver([i \in DOMAIN b.txs |-> MintOf(b.txs[i])], DOMAIN b.txs)
SupplyAt(c, h) == SumOver([i \in DOMAIN c |-> Minted(c[i])], Walked(c, h))

ReplayedBalances(c) == [a \in Accounts |-> BalanceAt(c, a, Len(c))]
ReplayedNonces(c) ==
  [a \in Accounts |-> Max({-1} \cup UNION
     {{t.nonce : t \in TransfersOf(c[i], a)} : i \in DOMAIN c})]

\* _apply_block_to_state
ApplyBlock(n, b) ==
  /\ balances' = [balances EXCEPT ![n] = [a \in Accounts |-> @[a] + Credits(b, a) - Debits(b, a)]]
  /\ nonces' = [nonces EXCEPT ![n] = [a \in Accounts |-> NonceAfter(b, a, @[a])]]

\* A fault: the caches of the dropped blocks are kept and the new one added.
KeepCaches(n, c) == ApplyBlock(n, Last(c))

\* _recompute_state_from_chain
Recompute(n, c) ==
  /\ balances' = [balances EXCEPT ![n] = ReplayedBalances(c)]
  /\ nonces' = [nonces EXCEPT ![n] = ReplayedNonces(c)]

\* A fault: the genesis block is numbered like the first mined one.
GenesisAtOne(id, n) ==
  [id |-> id, index |-> 1, prev |-> NoBlock, txs |-> <<>>, diff |-> 1,
   miner |-> Wallet[n]]

\* _create_genesis_block: every new ledger has one of its own.
Genesis(id, n) ==
  [id |-> id, index |-> 0, prev |-> NoBlock, txs |-> <<>>, diff |-> 1,
   miner |-> Wallet[n]]

\* The nodes begin with one chain file between them.
Init ==
  /\ \E founder \in Nodes : chain = [n \in Nodes |-> <<Genesis(1, founder)>>]
  /\ pool = [n \in Nodes |-> <<>>]
  /\ balances = [n \in Nodes |-> [a \in Accounts |-> 0]]
  /\ nonces = [n \in Nodes |-> [a \in Accounts |-> -1]]
  /\ mining = [n \in Nodes |-> [w \in Threads |-> Idle]]
  /\ heard = [n \in Nodes |-> {}] /\ gossip = {} /\ ids = 1 /\ restarts = 0

(***************************************************************************)
(* The pool                                                                *)
(***************************************************************************)
PendingNonces(n, a) ==
  {t.nonce : t \in {t \in ToSet(pool[n]) : t.kind = "transfer" /\ t.sender = a}}

\* add_transaction.  A mint comes in by the internal path; a transfer above
\* the least fee must be ahead of every nonce pending or confirmed.  A
\* payment is not looked at.
AddTransaction(n, t) ==
  /\ Len(pool[n]) < MaxPool
  /\ t.kind = "transfer" =>
       \A k \in PendingNonces(n, t.sender) \cup {nonces[n][t.sender]} : t.nonce > k
  /\ pool' = [pool EXCEPT ![n] = Append(@, t)]
  /\ UNCHANGED <<chain, balances, nonces, mining, heard, gossip, ids, restarts>>

(***************************************************************************)
(* mine_block                                                              *)
(***************************************************************************)
\* The block takes the whole pool, and the tip as it is now.
StartMine(n, w, d) ==
  /\ pool[n] # <<>> /\ mining[n][w] = Idle /\ ids < MaxBlocks
  /\ mining' = [mining EXCEPT ![n][w] =
       [id |-> ids + 1, index |-> Len(chain[n]), prev |-> Tip(n).id,
        txs |-> pool[n], diff |-> d, miner |-> Wallet[n]]]
  /\ ids' = ids + 1
  /\ UNCHANGED <<chain, pool, balances, nonces, heard, gossip, restarts>>

\* The nonce is found: nobody passes a stop_event, so the block goes in even
\* where the tip has moved, and the pool is emptied of what came meanwhile.
\* The caller saves the chain and (but for the broker) broadcasts the block.
FinishMine(n, w) ==
  /\ mining[n][w] # Idle
  /\ chain' = [chain EXCEPT ![n] = Append(@, mining[n][w])]
  /\ ApplyBlock(n, mining[n][w])
  /\ pool' = [pool EXCEPT ![n] = <<>>]
  /\ gossip' = gossip \cup {mining[n][w]}
  /\ heard' = [heard EXCEPT ![n] = @ \cup {mining[n][w].id}]
  /\ mining' = [mining EXCEPT ![n][w] = Idle]
  /\ UNCHANGED <<ids, restarts>>

(***************************************************************************)
(* receive_remote_block                                                    *)
(***************************************************************************)
\* A fault: only the nonces inside the block are compared.
InBlockOnly(n, b) ==
  \A i \in DOMAIN b.txs :
    /\ b.txs[i].kind \in {"transfer", "mint"}
    /\ b.txs[i].kind = "transfer" =>
         \A j \in 1 .. i - 1 :
           b.txs[j].kind = "transfer" /\ b.txs[j].sender = b.txs[i].sender
             => b.txs[i].nonce > b.txs[j].nonce

\* _validate_block_transactions: known types only, and each transfer ahead of
\* the confirmed nonce and of those before it in the block.
Validates(n, b) ==
  \A i \in DOMAIN b.txs :
    /\ b.txs[i].kind \in {"transfer", "mint"}
    /\ b.txs[i].kind = "transfer" =>
         /\ b.txs[i].nonce > nonces[n][b.txs[i].sender]
         /\ \A j \in 1 .. i - 1 :
              b.txs[j].kind = "transfer" /\ b.txs[j].sender = b.txs[i].sender
                => b.txs[i].nonce > b.txs[j].nonce

Extends(n, b) == b.index = Tip(n).index + 1 /\ b.prev = Tip(n).id

\* The heuristic of the fork branch: a harder block at the same height.  The
\* tip of a shortened chain may claim a height the chain does not have.
Outweighs(n, b) ==
  /\ b.index <= Tip(n).index
  /\ b.index < Len(chain[n]) =>
       /\ b.id # chain[n][b.index + 1].id
       /\ b.diff > chain[n][b.index + 1].diff

Extend(n, b) ==
  /\ Extends(n, b)
  /\ chain' = [chain EXCEPT ![n] = Append(@, b)]
  /\ ApplyBlock(n, b)

\* The tail is dropped; the link of the new block to what stays is not asked for.
Reorg(n, b) ==
  /\ ~Extends(n, b) /\ Outweighs(n, b)
  /\ chain' = [chain EXCEPT ![n] = Append(SubSeq(@, 1, Min({b.index, Len(@)})), b)]
  /\ Recompute(n, chain'[n])

\* An envelope is handled once: what it carries is lost if it is refused, or
\* if it comes before its parent.
ReceiveRemoteBlock(n, b) ==
  /\ b.id \notin heard[n]
  /\ heard' = [heard EXCEPT ![n] = @ \cup {b.id}]
  /\ \/ Validates(n, b) /\ Extend(n, b)
     \/ Validates(n, b) /\ Reorg(n, b)
     \/ /\ ~(Validates(n, b) /\ (Extends(n, b) \/ Outweighs(n, b)))
        /\ UNCHANGED <<chain, balances, nonces>>
  /\ UNCHANGED <<pool, mining, gossip, ids, restarts>>

(***************************************************************************)
(* Restart                                                                 *)
(***************************************************************************)
\* The new process has neither the pool nor the search nor the seen-cache.
NewProcess(n) ==
  /\ restarts < MaxRestarts /\ restarts' = restarts + 1
  /\ pool' = [pool EXCEPT ![n] = <<>>]
  /\ mining' = [mining EXCEPT ![n] = [w \in Threads |-> Idle]]
  /\ heard' = [heard EXCEPT ![n] = {}]
  /\ UNCHANGED gossip

\* load_chain: the file has the chain as every install saved it.
Restart(n) ==
  /\ NewProcess(n)
  /\ Recompute(n, chain[n])
  /\ UNCHANGED <<chain, ids>>

\* save_chain rewrites its file in place: cut short it cannot be read, and the
\* node starts over from a genesis block of its own.
StartOver(n) ==
  /\ NewProcess(n)
  /\ ids < MaxBlocks /\ ids' = ids + 1
  /\ chain' = [chain EXCEPT ![n] = <<Genesis(ids', n)>>]
  /\ Recompute(n, chain'[n])

Next ==
  \E n \in Nodes :
    \/ \E t \in Offered[n] : AddTransaction(n, t)
    \/ \E w \in Threads, d \in Difficulties[n] : StartMine(n, w, d)
    \/ \E w \in Threads : FinishMine(n, w)
    \/ \E b \in gossip : ReceiveRemoteBlock(n, b)
    \/ Restart(n)
    \/ StartOver(n)

Spec == Init /\ [][Next]_vars

(***************************************************************************)
(* Properties                                                              *)
(***************************************************************************)
Block ==
  [id : 1 .. MaxBlocks, index : Nat, prev : 0 .. MaxBlocks, txs : Seq(Txs),
   diff : Nat, miner : Accounts]

\* Every chain is a sequence of blocks that begins with a genesis block.
TypeOK ==
  /\ chain \in [Nodes -> Seq(Block)] /\ gossip \subseteq Block
  /\ \A n \in Nodes : chain[n] # <<>> /\ chain[n][1].index = 0
  /\ pool \in [Nodes -> Seq(Txs)]
  /\ balances \in [Nodes -> [Accounts -> Int]]
  /\ nonces \in [Nodes -> [Accounts -> Int]]
  /\ mining \in [Nodes -> [Threads -> Block \cup {Idle}]]
  /\ heard \in [Nodes -> SUBSET (1 .. MaxBlocks)]

\* "Derived from chain state and recomputed on reorg": after any mix of mined,
\* received, replaced and reloaded blocks the caches that admit transfers and
\* pay balances say what a walk over the chain says.
CacheIsChain ==
  \A n \in Nodes : balances[n] = ReplayedBalances(chain[n])
                     /\ nonces[n] = ReplayedNonces(chain[n])

\* What is in credit and what is in debt at node n.
Owned(n) == [a \in Accounts |-> IF balances[n][a] > 0 THEN balances[n][a] ELSE 0]
Owed(n)  == [a \in Accounts |-> IF balances[n][a] < 0 THEN -balances[n][a] ELSE 0]

\* No fork, replay or reload makes or loses money: what the accounts of a node
\* hold, debts included, is what its chain minted.
MoneyIsMinted ==
  \A n \in Nodes :
    SumOver(Owned(n), Accounts) = SumOver(Owed(n), Accounts) + SupplyAt(chain[n], Len(chain[n]))

Transfers(c) == UNION {{t \in ToSet(c[i].txs) : t.kind = "transfer"} : i \in DOMAIN c}

\* A block from another node brings no transfer the chain already had.
RemoteNeverReplays ==
  [][\A n \in Nodes :
       chain'[n] # chain[n] /\ Last(chain'[n]) \in gossip =>
         Transfers(<<Last(chain'[n])>>) \cap Transfers(chain[n]) = {}]_vars

\* tokenomics.py: "Each sender's nonces must strictly increase across confirmed
\* transfers": no transfer is in a chain twice.
NoReplay ==
  \A n \in Nodes : \A i, j \in DOMAIN chain[n] :
    i # j => Transfers(<<chain[n][i]>>) \cap Transfers(<<chain[n][j]>>) = {}
=============================================================================
