---------------------------- MODULE VotingWallet ----------------------------
(***************************************************************************)
(* The voting wallet of src/dcrdtest/votingwallet.go, which keeps a chain  *)
(* alive past the stake validation height by buying and voting tickets.    *)
(*                                                                         *)
(*   test        the goroutine that calls Start, GenerateBlocks and        *)
(*               LimitNbVotes                                              *)
(*   dispatcher  the reader of the wallet's RPC client: one connection     *)
(*               carries notifications and replies in one order, and a     *)
(*               notification is handed over before anything behind it     *)
(*   handler     the goroutine of handleNotifications                      *)
(*   dcrd        the node: memory pool, live tickets, lottery (external)   *)
(*                                                                         *)
(* One coin funds one ticket, one ticket gives one vote, one vote returns  *)
(* one coin, so a coin keeps its identity: <<0, i>> is an output of the    *)
(* funding transaction, <<h, i>> is the i-th ticket bought for block h and *)
(* also the coin its vote returns.  Amounts and scripts are left out.      *)
(*                                                                         *)
(* X_Fault is X with a plausible programming error, used by no formula.    *)
(***************************************************************************)
EXTENDS Naturals, Sequences, FiniteSets, SequencesExt

CONSTANTS
    TicketsPerBlock, CoinbaseMaturity, TicketMaturity, StakeValidationHeight,
    BufferLen,  \* capacity of each notification channel
    MaxHeight,  \* bound on the height of the chain
    MaxCall,    \* bound on the blocks asked of one GenerateBlocks
    MaxFaults   \* bound on refused transactions, failing signatures, timeouts,
                \* cancellations and first blocks from elsewhere

ASSUME VotingWalletAssumption ==
    /\ {TicketsPerBlock, CoinbaseMaturity, BufferLen, MaxHeight, MaxCall} \subseteq Nat \ {0}
    /\ {TicketMaturity, MaxFaults} \subseteq Nat
    /\ StakeValidationHeight \in Nat /\ StakeValidationHeight > TicketMaturity + 2

ticketPurchaseStartHeight == StakeValidationHeight - TicketMaturity - 2

requiredTicketCount_Fault == (CoinbaseMaturity + TicketMaturity + 1) * TicketsPerBlock

requiredTicketCount == (CoinbaseMaturity + TicketMaturity + 2) * TicketsPerBlock

\* A block needs votes of most of the tickets drawn for its parent.
Majority == TicketsPerBlock \div 2 + 1

VARIABLES
    \* dcrd
    height,     \* height of the chain
    poolTickets, poolVotes, \* stake transactions in the memory pool
    minedAt,    \* ticket -> height of the block with its purchase
    votedAt,    \* ticket -> height of the block with its vote
    drawn,      \* tickets that won a block, no longer in the live pool
    outbox,     \* transactions sent that dcrd has not answered
    \* the RPC client
    wire,       \* what dcrd wrote to the connection, in order
    blockChan, winChan, \* blockConnectedNtfnChan, winningTicketsNtfnChan
    answers,    \* replies handed to the promises of the handler
    \* the voting wallet
    coins,      \* w.utxos
    tickets,    \* w.tickets
    maturing,   \* w.maturingVotes
    limit,      \* w.limitNbVotes
    handler,    \* where handleNotifications is
    work,       \* the locals of the notification it handles
    errors,     \* kinds of errors given to logError, "sign": a script or signature
    \* the test
    gen,        \* the locals of GenerateBlocks
    ctxDone,    \* the context of the wallet is done
    faults      \* how often something happened that the wallet does not stand

dcrdVars == <<height, poolTickets, poolVotes, minedAt, votedAt, drawn>>
chanVars == <<blockChan, winChan>>
walletVars == <<coins, tickets, maturing>>
testVars == <<limit, gen, ctxDone>>
vars == <<dcrdVars, outbox, wire, chanVars, answers, walletVars, handler, work,
          errors, testVars, faults>>

-----------------------------------------------------------------------------

Ids == (0..MaxHeight) \X (1..requiredTicketCount)
Coins == Seq(Ids)
Txs == [kind : {"ticket"}, id : Ids, coin : Ids]
       \union [kind : {"vote"}, id : Ids, block : 1..MaxHeight]

NoWork == [height |-> 0, txs |-> <<>>, got |-> 0, todo |-> <<>>, cap |-> 0]
NoGen == [at |-> "idle", next |-> 0, left |-> 0, votes |-> 0]

TypeOK ==
    /\ height \in 0..MaxHeight
    /\ poolTickets \subseteq Ids
    /\ poolVotes \subseteq Ids \X (1..MaxHeight)
    /\ DOMAIN minedAt \subseteq Ids /\ DOMAIN votedAt \subseteq DOMAIN minedAt
    /\ drawn \subseteq DOMAIN minedAt
    /\ outbox \subseteq Txs
    /\ Len(blockChan) \in 0..BufferLen /\ Len(winChan) \in 0..BufferLen
    /\ answers \subseteq [tx : Txs, ok : BOOLEAN]
    /\ coins \in Coins
    /\ tickets \subseteq Ids
    /\ \A h \in DOMAIN maturing : maturing[h] \in Coins
    /\ limit \in 0..TicketsPerBlock
    /\ handler \in {"unstarted", "select", "tickets", "create", "votes", "exited", "panicked"}
    /\ work.got \in 0..TicketsPerBlock
    /\ errors \subseteq {"coins", "sign", "refused", "stopping"}
    /\ gen.at \in {"idle", "best", "mine", "mining", "poll", "polling", "dead"}
    /\ ctxDone \in BOOLEAN /\ faults \in 0..MaxFaults

\* NewVotingWallet returned: notifications are registered, the chain is young.
Init ==
    /\ height = 0
    /\ poolTickets = {} /\ poolVotes = {} /\ drawn = {} /\ outbox = {}
    /\ minedAt = <<>> /\ votedAt = <<>>
    /\ wire = <<>> /\ blockChan = <<>> /\ winChan = <<>> /\ answers = {}
    /\ coins = <<>> /\ tickets = {}
    /\ maturing = [h \in 1..(MaxHeight + CoinbaseMaturity) |-> <<>>]
    /\ limit = TicketsPerBlock
    /\ handler = "unstarted" /\ work = NoWork /\ errors = {}
    /\ gen = NoGen /\ ctxDone = FALSE
    /\ faults = 0

-----------------------------------------------------------------------------
(* dcrd, as far as the wallet relies on it.                                *)

\* Tickets that can win the block at height h.
Live(mined, h) == {t \in DOMAIN mined : mined[t] + TicketMaturity <= h} \ drawn

\* f, with the value n for the arguments in new.
Recorded(f, new, n) == [t \in DOMAIN f \union new |-> IF t \in DOMAIN f THEN f[t] ELSE n]

MinedNext == Recorded(minedAt, poolTickets, height + 1)

\* The next block needs votes for its parent, and a lottery for itself.
CanMine ==
    /\ height + 1 >= StakeValidationHeight =>
          Cardinality({v \in poolVotes : v[2] = height}) >= Majority
    /\ height + 1 >= StakeValidationHeight - 1 =>
          Cardinality(Live(MinedNext, height + 1)) >= TicketsPerBlock

\* The winners of a block: different tickets, listed in any order.
Lottery(h) ==
    IF h < StakeValidationHeight - 1 THEN {<<>>}
    ELSE Injection(1..TicketsPerBlock, Live(MinedNext, h))

BlockNtfn(h) == [kind |-> "block", height |-> h]
WinningNtfn(h, winners) == [kind |-> "winning", height |-> h, winners |-> winners]
Reply(call) == [kind |-> "reply", call |-> call]

\* The notifications of a block, in the two orders they may be written in.
BlockNtfns(h, winners) ==
    IF winners = <<>> THEN {<<BlockNtfn(h)>>}
    ELSE {<<BlockNtfn(h), WinningNtfn(h, winners)>>,
          <<WinningNtfn(h, winners), BlockNtfn(h)>>}

\* dcrd connects a block with all it can mine of its memory pool.
\* Votes for an older block are never mined.
Connect(replies) ==
    LET h == height + 1 IN
    /\ CanMine /\ h <= MaxHeight
    /\ \E winners \in Lottery(h) : \E ntfns \in BlockNtfns(h, winners) :
          /\ drawn' = drawn \union ToSet(winners)
          /\ wire' \in {wire \o ntfns \o replies, wire \o replies \o ntfns}
    /\ height' = h
    /\ minedAt' = MinedNext
    /\ votedAt' = Recorded(votedAt, {v[1] : v \in {w \in poolVotes : w[2] = height}}, h)
    /\ poolTickets' = {} /\ poolVotes' = {}

\* The coin of a ticket can be spent in the next block.
Mature(coin) ==
    \/ coin[1] = 0
    \/ coin \in DOMAIN votedAt /\ height + 1 >= votedAt[coin] + CoinbaseMaturity

\* Something the wallet does not stand happens, within the bound.
Fault == faults < MaxFaults /\ faults' = faults + 1

Answer(tx, ok) == [kind |-> "answer", tx |-> tx, ok |-> ok]

\* dcrd answers the requests of the client in any order.
AcceptTx(tx) ==
    /\ tx \in outbox
    /\ \/ /\ tx.kind = "ticket" /\ Mature(tx.coin)
          /\ poolTickets' = poolTickets \union {tx.id}
          /\ UNCHANGED poolVotes
       \/ /\ tx.kind = "vote"
          /\ poolVotes' = poolVotes \union {<<tx.id, tx.block>>}
          /\ UNCHANGED poolTickets
    /\ outbox' = outbox \ {tx}
    /\ wire' = Append(wire, Answer(tx, TRUE))
    /\ UNCHANGED <<height, minedAt, votedAt, drawn, chanVars, answers, walletVars,
                   handler, work, errors, testVars, faults>>

RefuseTx(tx) ==
    /\ tx \in outbox
    /\ IF tx.kind = "ticket" /\ ~Mature(tx.coin) THEN UNCHANGED faults ELSE Fault
    /\ outbox' = outbox \ {tx}
    /\ wire' = Append(wire, Answer(tx, FALSE))
    /\ UNCHANGED <<dcrdVars, chanVars, answers, walletVars, handler, work, errors, testVars>>

-----------------------------------------------------------------------------
(* The dispatcher of the RPC client: onBlockConnected and onWinningTickets *)
(* send to a channel and block while it is full.                           *)

\* A buffer of one less.
Room_Short(chan) == Len(chan) + 1 < BufferLen

Room(chan) == Len(chan) < BufferLen

onBlockConnected ==
    /\ wire # <<>> /\ Head(wire).kind = "block"
    /\ Room(blockChan)
    /\ blockChan' = Append(blockChan, Head(wire).height)
    /\ wire' = Tail(wire)
    /\ UNCHANGED <<dcrdVars, outbox, winChan, answers, walletVars, handler, work,
                   errors, testVars, faults>>

onWinningTickets ==
    /\ wire # <<>> /\ Head(wire).kind = "winning"
    /\ Room(winChan)
    /\ winChan' = Append(winChan, [height |-> Head(wire).height, winners |-> Head(wire).winners])
    /\ wire' = Tail(wire)
    /\ UNCHANGED <<dcrdVars, outbox, blockChan, answers, walletVars, handler, work,
                   errors, testVars, faults>>

\* The answer of a promise the handler gave up is dropped.
DeliverAnswer ==
    /\ wire # <<>> /\ Head(wire).kind = "answer"
    /\ wire' = Tail(wire)
    /\ answers' = IF Head(wire).tx \in ToSet(work.txs)
                    THEN answers \union {[tx |-> Head(wire).tx, ok |-> Head(wire).ok]}
                    ELSE answers
    /\ UNCHANGED <<dcrdVars, outbox, chanVars, walletVars, handler, work, errors,
                   testVars, faults>>

-----------------------------------------------------------------------------
(* The handler.                                                            *)

\* Start: SendOutputs paid requiredTicketCount outputs to the wallet.
Start ==
    /\ handler = "unstarted" /\ gen.at = "idle"
    /\ coins' = [i \in 1..requiredTicketCount |-> <<0, i>>]
    /\ handler' = "select"
    /\ UNCHANGED <<dcrdVars, outbox, wire, chanVars, answers, tickets, maturing, work,
                   errors, testVars, faults>>

\* Back to the select loop, with an error or without.
Return(errs) ==
    /\ handler' = "select" /\ work' = NoWork /\ answers' = {}
    /\ errors' = errors \union errs

\* SendRawTransactionAsync for every transaction, then Receive of each.
Publish(at, w) ==
    /\ outbox' = outbox \union ToSet(w.txs)
    /\ handler' = at /\ work' = w
    /\ UNCHANGED <<answers, errors>>

TicketTxs(h, taken) ==
    [i \in 1..Len(taken) |-> [kind |-> "ticket", id |-> <<h, i>>, coin |-> taken[i]]]

handleBlockConnectedNtfn ==
    /\ handler = "select" /\ blockChan # <<>>
    /\ blockChan' = Tail(blockChan)
    /\ LET h == Head(blockChan)
           rest == Len(coins) - TicketsPerBlock
           taken == SubSeq(coins, rest + 1, Len(coins))
       IN \/ /\ h < ticketPurchaseStartHeight
             /\ UNCHANGED <<outbox, answers, coins, handler, work, errors, faults>>
          \/ /\ h >= ticketPurchaseStartHeight /\ Len(coins) < TicketsPerBlock
             /\ Return({"coins"})
             /\ UNCHANGED <<outbox, coins, faults>>
          \/ /\ h >= ticketPurchaseStartHeight /\ Len(coins) >= TicketsPerBlock
             /\ coins' = SubSeq(coins, 1, rest)
             /\ \/ /\ Publish("tickets", [NoWork EXCEPT !.height = h,
                                                        !.txs = TicketTxs(h, taken)])
                   /\ UNCHANGED faults
                \/ Fault /\ Return({"sign"}) /\ UNCHANGED outbox
    /\ UNCHANGED <<dcrdVars, wire, winChan, tickets, maturing, testVars>>

\* The promises are received in the order they were made.
NextAnswer == {a \in answers : a.tx = work.txs[work.got + 1]}

\* The votes that mature at the block just handled can buy tickets again.
ReleaseMaturing(h) ==
    /\ coins' = coins \o maturing[h]
    /\ maturing' = [maturing EXCEPT ![h] = <<>>]

ReceiveTicket ==
    /\ handler = "tickets"
    /\ \E a \in NextAnswer :
          \/ /\ a.ok
             /\ tickets' = tickets \union {a.tx.id}
             /\ IF work.got + 1 < Len(work.txs)
                  THEN /\ work' = [work EXCEPT !.got = @ + 1]
                       /\ UNCHANGED <<coins, maturing, handler, answers, errors>>
                  ELSE ReleaseMaturing(work.height) /\ Return({})
          \/ ~a.ok /\ Return({"refused"}) /\ UNCHANGED walletVars
    /\ UNCHANGED <<dcrdVars, outbox, wire, chanVars, testVars, faults>>

\* votes is made with the limit of this moment, once the script that names the
\* block is built.
handleWinningTicketsNtfn ==
    /\ handler = "select" /\ winChan # <<>>
    /\ winChan' = Tail(winChan)
    /\ \/ /\ handler' = "create"
          /\ work' = [NoWork EXCEPT !.height = Head(winChan).height,
                                    !.todo = Head(winChan).winners, !.cap = limit]
          /\ UNCHANGED <<answers, errors, faults>>
       \/ Fault /\ Return({"sign"})
    /\ UNCHANGED <<dcrdVars, outbox, wire, blockChan, walletVars, testVars>>

VoteTx(ticket) == [kind |-> "vote", id |-> ticket, block |-> work.height]

\* One turn of the loop over the winning tickets.  The limit is read again
\* after every vote.
CreateVote ==
    /\ handler = "create" /\ work.todo # <<>>
    /\ LET wt == Head(work.todo)
           mine == wt \in tickets
           made == Append(work.txs, VoteTx(wt))
       IN \/ /\ ~mine
             /\ work' = [work EXCEPT !.todo = Tail(@)]
             /\ UNCHANGED <<handler, answers, errors, faults>>
          \/ /\ mine /\ Len(work.txs) < work.cap
             /\ \/ /\ work' = [work EXCEPT !.txs = made,
                                           !.todo = IF Len(made) >= limit THEN <<>> ELSE Tail(@)]
                   /\ UNCHANGED <<handler, answers, errors, faults>>
                \/ Fault /\ Return({"sign"})
    /\ UNCHANGED <<dcrdVars, outbox, wire, chanVars, walletVars, testVars>>

\* votes[nbVotes] past the end of votes: the panic ends the whole program.
CreateVotePanics ==
    /\ handler = "create" /\ work.todo # <<>>
    /\ Head(work.todo) \in tickets /\ Len(work.txs) >= work.cap
    /\ handler' = "panicked" /\ gen' = [NoGen EXCEPT !.at = "dead"]
    /\ wire' = <<>> /\ outbox' = {}
    /\ UNCHANGED <<dcrdVars, chanVars, answers, walletVars, work, errors, limit, ctxDone, faults>>

\* What the votes of a block return is kept for the block where it matures.
KeepReturns_Fault(h, txs) ==
    maturing' = [maturing EXCEPT ![h + CoinbaseMaturity - 1] = [i \in DOMAIN txs |-> txs[i].id]]

KeepReturns(h, txs) ==
    maturing' = [maturing EXCEPT ![h + CoinbaseMaturity] = [i \in DOMAIN txs |-> txs[i].id]]

PublishVotes ==
    /\ handler = "create" /\ work.todo = <<>>
    /\ \/ /\ work.txs # <<>>
          /\ Publish("votes", work)
          /\ UNCHANGED maturing
       \/ /\ work.txs = <<>>
          /\ KeepReturns(work.height, <<>>) /\ Return({})
          /\ UNCHANGED outbox
    /\ UNCHANGED <<dcrdVars, wire, chanVars, coins, tickets, testVars, faults>>

ReceiveVote ==
    /\ handler = "votes"
    /\ \E a \in NextAnswer :
          \/ /\ a.ok
             /\ IF work.got + 1 < Len(work.txs)
                  THEN /\ work' = [work EXCEPT !.got = @ + 1]
                       /\ UNCHANGED <<maturing, handler, answers, errors>>
                  ELSE KeepReturns(work.height, work.txs) /\ Return({})
          \/ ~a.ok /\ Return({"refused"}) /\ UNCHANGED maturing
    /\ UNCHANGED <<dcrdVars, outbox, wire, chanVars, coins, tickets, testVars, faults>>

\* Receive returns an error once the context is done.
ReceiveStopping ==
    /\ ctxDone /\ handler \in {"tickets", "votes"}
    /\ Return({"stopping"})
    /\ UNCHANGED <<dcrdVars, outbox, wire, chanVars, walletVars, testVars, faults>>

HandlerExit ==
    /\ handler = "select" /\ ctxDone
    /\ handler' = "exited"
    /\ UNCHANGED <<dcrdVars, outbox, wire, chanVars, answers, walletVars, work, errors,
                   testVars, faults>>

-----------------------------------------------------------------------------
(* The test: GenerateBlocks and LimitNbVotes, one call at a time, and none *)
(* once it cancelled the context.                                          *)

nonTestVars == <<chanVars, answers, walletVars, handler, work, errors, outbox>>

\* Every call of GenerateBlocks on the node waits for its reply.
Call(at) ==
    /\ gen' = [gen EXCEPT !.at = at]
    /\ UNCHANGED <<limit, ctxDone>>

GenerateBlocks ==
    /\ gen.at = "idle" /\ handler # "unstarted" /\ ~ctxDone
    /\ \E nb \in 1..MaxCall :
          /\ height + nb <= MaxHeight
          /\ gen' = [NoGen EXCEPT !.at = "best", !.left = nb]
    /\ wire' = Append(wire, Reply("best"))
    /\ UNCHANGED <<dcrdVars, nonTestVars, limit, ctxDone, faults>>

\* GetBestBlock returned; nbVotes is the limit of this moment.  Its error is
\* the error of GenerateBlocks.
GotBestBlock ==
    /\ gen.at = "best" /\ wire # <<>> /\ Head(wire) = Reply("best")
    /\ wire' = Tail(wire)
    /\ gen' \in {NoGen, [gen EXCEPT !.at = "mine", !.next = height + 1, !.votes = limit]}
    /\ UNCHANGED <<dcrdVars, nonTestVars, limit, ctxDone, faults>>

\* miner(ctx, 1); dcrd answers with an error when it cannot make a block.
Mine ==
    /\ gen.at = "mine"
    /\ Connect(<<Reply("mined")>>)
    /\ Call("mining")
    /\ UNCHANGED <<nonTestVars, faults>>

MineFails ==
    /\ gen.at = "mine" /\ ~CanMine
    /\ gen' = NoGen
    /\ UNCHANGED <<dcrdVars, wire, nonTestVars, limit, ctxDone, faults>>

needsVotes == gen.next >= StakeValidationHeight - 1
needsTickets == gen.next >= ticketPurchaseStartHeight

\* The requirements are met: on to the next block, or return.
NextBlock ==
    gen' = IF gen.left = 1 THEN NoGen
           ELSE [gen EXCEPT !.at = "mine", !.left = @ - 1, !.next = @ + 1]

Mined ==
    /\ gen.at = "mining" /\ wire # <<>> /\ Head(wire) = Reply("mined")
    /\ wire' = Tail(wire)
    /\ IF needsVotes \/ needsTickets THEN gen' = [gen EXCEPT !.at = "poll"] ELSE NextBlock
    /\ UNCHANGED <<dcrdVars, nonTestVars, limit, ctxDone, faults>>

gotAllReqs_Fault ==
    /\ needsTickets => Cardinality(poolTickets) > gen.votes
    /\ needsVotes => Cardinality(poolVotes) > gen.votes

\* The tickets are counted against the number of votes, as the code does.
gotAllReqs ==
    /\ needsTickets => Cardinality(poolTickets) >= gen.votes
    /\ needsVotes => Cardinality(poolVotes) >= gen.votes

\* GetRawMempool of the tickets and of the votes: what dcrd counts now reaches
\* the test behind all it wrote to the connection before.  The two calls are one
\* step: this goroutine makes the blocks, so both pools can only grow between them.
Poll ==
    /\ gen.at = "poll"
    /\ wire' = Append(wire, Reply(IF gotAllReqs THEN "met" ELSE "unmet"))
    /\ Call("polling")
    /\ UNCHANGED <<dcrdVars, nonTestVars, faults>>

Polled ==
    /\ gen.at = "polling" /\ wire # <<>>
    /\ Head(wire) \in {Reply("met"), Reply("unmet")}
    /\ wire' = Tail(wire)
    /\ IF Head(wire) = Reply("met") THEN NextBlock ELSE gen' = [gen EXCEPT !.at = "poll"]
    /\ UNCHANGED <<dcrdVars, nonTestVars, limit, ctxDone, faults>>

\* Five seconds passed; a call in flight is not interrupted.
Timeout ==
    /\ gen.at = "poll"
    /\ gen' = NoGen /\ Fault
    /\ UNCHANGED <<dcrdVars, wire, nonTestVars, limit, ctxDone>>

\* The context ends the wait, and every call that waits for its reply.
Stopping ==
    /\ ctxDone /\ gen.at \notin {"idle", "dead"}
    /\ gen' = NoGen
    /\ UNCHANGED <<dcrdVars, wire, nonTestVars, limit, ctxDone, faults>>

\* The reply of a call that was given up is dropped.
DropReply ==
    /\ wire # <<>> /\ Head(wire).kind = "reply"
    /\ gen.at \notin {"best", "mining", "polling"}
    /\ wire' = Tail(wire)
    /\ UNCHANGED <<dcrdVars, nonTestVars, testVars, faults>>

LimitNbVotes_Fault(newLimit) ==
    /\ gen.at = "idle" /\ ~ctxDone /\ newLimit \in 0..TicketsPerBlock
    /\ limit' = newLimit
    /\ UNCHANGED <<dcrdVars, wire, nonTestVars, gen, ctxDone, faults>>

\* The limit can only be lowered.
LimitNbVotes(newLimit) ==
    /\ gen.at = "idle" /\ ~ctxDone /\ newLimit \in 0..limit
    /\ limit' = newLimit
    /\ UNCHANGED <<dcrdVars, wire, nonTestVars, gen, ctxDone, faults>>

\* The test may generate blocks without the wallet, as it does before Start.
GenerateOther ==
    /\ gen.at = "idle" /\ ~ctxDone
    /\ Connect(<<>>)
    /\ IF height + 1 >= ticketPurchaseStartHeight /\ faults = 0 THEN Fault ELSE UNCHANGED faults
    /\ UNCHANGED <<nonTestVars, testVars>>

Cancel ==
    /\ ~ctxDone /\ ctxDone' = TRUE /\ gen.at # "dead" /\ Fault
    /\ UNCHANGED <<dcrdVars, wire, nonTestVars, limit, gen>>

-----------------------------------------------------------------------------

DcrdNext == \E tx \in outbox : AcceptTx(tx) \/ RefuseTx(tx)

DispatcherNext ==
    \/ onBlockConnected \/ onWinningTickets \/ DeliverAnswer
    \/ GotBestBlock \/ Mined \/ Polled \/ DropReply

HandlerNext ==
    \/ handleBlockConnectedNtfn \/ ReceiveTicket
    \/ handleWinningTicketsNtfn \/ CreateVote \/ CreateVotePanics \/ PublishVotes \/ ReceiveVote
    \/ ReceiveStopping \/ HandlerExit

TestNext ==
    \/ Start \/ GenerateBlocks \/ Mine \/ MineFails \/ Poll \/ Timeout \/ Stopping
    \/ (\E n \in 0..TicketsPerBlock : LimitNbVotes(n))
    \/ GenerateOther \/ Cancel

Next == DcrdNext \/ DispatcherNext \/ HandlerNext \/ TestNext

Spec == Init /\ [][Next]_vars

\* dcrd answers, the client's reader and the handler run; a call of
\* GenerateBlocks goes on.  No fairness for timeouts, faults or new calls.
Fairness ==
    /\ WF_vars(DcrdNext)
    /\ WF_vars(DispatcherNext)
    /\ WF_vars(HandlerNext)
    /\ WF_vars(Mine \/ Poll)

FairSpec == Spec /\ Fairness

-----------------------------------------------------------------------------
(* Properties.                                                             *)

\* Nothing happened that the wallet does not promise to stand: no refused
\* transaction or failing signature, no timeout, no block from elsewhere once
\* tickets are needed, no lowered limit and no cancellation.
Calm == faults = 0 /\ limit = TicketsPerBlock

Ntfns(kind) == {wire[i] : i \in {j \in DOMAIN wire : wire[j].kind = kind}}

\* Winners whose notification the handler has not finished with.
PendingWinners ==
    (UNION {ToSet(n.winners) : n \in Ntfns("winning") \union ToSet(winChan)})
    \union (IF handler \in {"create", "votes"}
              THEN ToSet(work.todo) \union {work.txs[i].id : i \in DOMAIN work.txs} ELSE {})

\* Blocks whose notification the handler has not finished with.
PendingBlocks ==
    {n.height : n \in Ntfns("block")} \union ToSet(blockChan)
    \union (IF handler = "tickets" THEN {work.height} ELSE {})

\* Coins given out for tickets that are not recorded yet.
BeingSpent == IF handler = "tickets" THEN Len(work.txs) - work.got ELSE 0

\* The coins of w.maturingVotes, by their place in it.
WaitingCoins == UNION {{h} \X (1..Len(maturing[h])) : h \in DOMAIN maturing}

\* handleBlockConnectedNtfn and handleWinningTicketsNtfn move every coin from
\* w.utxos to w.tickets to w.maturingVotes and back.  While all is calm none
\* is lost or doubled on the way, in whatever order the two channels are
\* served, and no coin waits for a block that has been handled already.
CoinsConserved ==
    (Calm /\ handler \in {"select", "tickets", "create", "votes"}) =>
        /\ Len(coins) + BeingSpent
             + Cardinality((tickets \ drawn) \union (tickets \intersect PendingWinners))
             + Cardinality(WaitingCoins) = requiredTicketCount
        /\ \A h \in DOMAIN maturing :
              maturing[h] # <<>> => h > height \/ h \in PendingBlocks

\* GenerateBlocks keeps the chain going past SVH.  While all is calm the node
\* can always make the next block it is asked for, and the handler logs no
\* error: Start funds requiredTicketCount outputs, just enough until the votes
\* return the first coins.
ChainContinues == Calm => errors = {} /\ (gen.at = "mine" => CanMine)

\* The votes slice is made with the limit of one moment and filled under the
\* limit of later ones.  Only a limit of zero lets the index pass its end.
PanicOnlyAtZero == handler = "panicked" => limit = 0

\* The wait of GenerateBlocks for tickets and votes ends without its timeout
\* while all is calm, although replies queue behind the notifications that the
\* handler has to take first.
GenerateGetsReqs == (gen.at \in {"poll", "polling"}) ~> (gen.at \in {"mine", "idle"} \/ ~Calm)

\* While the handler waits for answers of dcrd, the notification in front of
\* them always finds room in its channel, whatever the test does: without
\* tickets of the handler the chain cannot run further ahead than BufferLen.
DispatcherFree ==
    (handler \in {"tickets", "votes"} /\ wire # <<>>) =>
        /\ Head(wire).kind = "block" => Room(blockChan)
        /\ Head(wire).kind = "winning" => Room(winChan)
=============================================================================
