# BitNames in TLA+

BitNames is a name registry on a sidechain. Blocks are blind merged mined (BMM)
on a mainchain that implements Drivechain: the mainchain commits to the hash of a
side block, coins enter by deposits and leave in withdrawal bundles that the
mainchain pays or rejects. A name (a *key*) is registered in two steps, a
*commitment* to key and salt, and later a *reveal*; a revealed key can be set to
a value.

These modules model the node (its chain state, its mempool, its block cycle and
what it sees of the mainchain daemon), the wallet and the command line tool that
call it, and the two algorithms that handle amounts. TLC checks them on small
instances and TLAPS proves their main safety results for all values of the
constants.

## 1. The system

| component | code | state it keeps | operations |
|---|---|---|---|
| Chain state | `state/src/lib.rs`, `types/src/types.rs` | ten LMDB databases: headers, utxos, five name indexes, the pending withdrawal bundle, the height of its failure, the last deposit block | `validate_transaction`, `connect_block`, `collect_withdrawal_bundle`; `validate_body` and `validate_block` exist but nothing calls them; `disconnect_block` is a `todo!()` |
| Node | `node/src/node.rs` | the LMDB environment, the mempool (in memory) | `submit_transaction`, `attempt_bmm`, `confirm_bmm`, `get_utxos_by_addresses` (read only) |
| Drivechain client | `node/src/drivechain.rs`, `mainchain_client.rs` | the one block that was attempted (in memory) | BMM request and verification, deposits of a range of mainchain blocks, bundle statuses, broadcast of a bundle |
| RPC server | `node/src/main.rs`, `api/src/lib.rs` | a mutex around the node | one gRPC handler per operation; each `unwrap`s its errors while it holds the guard |
| Mainchain daemon | not in the repository | blocks, BMM requests, deposits, bundles | JSON-RPC |
| Wallet | `wallet/src/{wallet,state,signer,main}.rs` | LMDB: key to outpoint, outpoint to address, utxos, addresses by index | `name commit`, `name claim`, `name set`, each one gRPC call inside a write transaction; `address get`, `update`; a balance that only reads |
| Command line tool | `cli/src` | none | `bmm attempt`, `bmm confirm`, `bmm generate` (attempt, a mainchain block, confirm) |
| Hashes, amounts | `types/src/hashes.rs`, `node/src/amount.rs` | none | newtypes, `hmac`, formatting |

How they interact: the wallet and the CLI call the node by gRPC; the node calls
the daemon by JSON-RPC, in the middle of its handlers; the daemon moves on its own,
or when the CLI tells it to generate a block. Nothing is pushed to the node: it
learns of mainchain blocks, deposits and bundle statuses only inside `confirm_bmm`.

What is hard:

- **Interleaving with the mainchain.** A block is generated from one mainchain tip
  and requested at a possibly later one, confirmed at any time, replaced by another attempt
  while its request is open.
- **Stale validation.** Transactions are validated at submission only.
  `connect_block` checks that inputs exist and nothing else, so what the mempool
  holds meets a state that has moved: inputs spent, commitments expired,
  names taken.
- **Partial failure.** The attempted block is taken out of memory before it is
  connected; bundles are broadcast before the commit; any error poisons the mutex, after which
  only a restart helps, which loses mempool and attempted block.
- **Expiry.** A commitment is refused at age > `COMMITMENT_MAX_AGE` by the
  validation and swept at age > `COMMITMENT_MAX_AGE` by the block, against
  heights that differ by how long the transaction waited.
- **Two directions of one index** (`key_to_commitment`, `commitment_to_key`)
  written by reveals, spends and the sweep.
- **Bundles.** Withdrawals are locked by one block and unlocked by another, possibly many
  times, and what is collected depends on the order of a `HashMap`.
- **Numbers as keys.** Headers and addresses are keyed by `OwnedType<u32>`, whose byte order
  is not the order of the numbers.
- **Lost calls.** The wallet commits its own database after the call whatever the answer says, and drops
  its changes when the call fails, although the node may have served it or may serve it later.

What makes each component correct: the chain state, that its indexes agree with
each other and with the utxo set, that a reveal comes after its commitment and
before it expires, that outputs are neither lost nor made; the node with the
Drivechain client, that the committed headers are a chain the mainchain committed
to, that deposits are credited once, that locked withdrawals cannot be spent and are paid once; the
server, that a handler ends; the wallet, that the outpoint it keeps for a key is one the
node knows or can still be given; the CLI, that a process ends, and ends with a connected block
where nothing stands against it.

## 2. Modules

```
NativeKeys              the byte order of u32 keys in LMDB
  BitNamesState         the chain state and what connect_block does to it (constant level)
    Mainchain           the daemon, external
      Node              mempool, attempted block, handlers, errors, restart
        NodeProperties      what must hold; Bmm == INSTANCE BmmChain,
          |                 Registry == INSTANCE NameRegistry
          BlockValidation   validate_block, which nothing calls (in MCNames)
          NodeClaims        what the code says of itself and does not do
            MCNames MCChain MCRefund      the instances TLC checks
          BundleHistory     the bundles a chain collected
            MCPeg
          Cli               processes of the command line tool
            MCCli
        Wallet              a wallet beside a node
          WalletProperties  (with NodeClaims)
            MCWallet
    NameRegistry        abstract specification of names
    WithdrawalBundle    collect_withdrawal_bundle with amounts, step by step
DepositValues           the amounts of get_deposit_outputs
BmmChain                abstract specification of blind merged mining
MCAmounts               WithdrawalBundle and DepositValues

NodeProofs              the operators of BitNamesState, the block cycle: types, headers,
  |                     refinement of BmmChain, validate_block (on BlockValidation)
  PegProofs             the deposits
  NameProofs            the name indexes, the mempool and the window of a reveal
    RegistryProofs      refinement of NameRegistry
  BundleProofs          heights, withdrawal bundles (on PegProofs, NameProofs and BundleHistory)
    WalletProofs        the wallet (on WalletProperties)
  CliProofs             the command line tool (on Cli)
AmountProofs            folds and sums, WithdrawalBundle and DepositValues
```

### NativeKeys

`OwnedType<u32>` stores a number least significant byte first and LMDB compares keys from the
first byte on. `KeyBytes` is that conversion, with `KeyRadix` (256 in the program) for the number of values
of a byte, so that an instance can reach a second byte. `headers.append` is `MDB_APPEND`, which LMDB refuses
for a key that does not come after the last one: `HeaderAppends` of BitNamesState. `index_to_address.last`
of the wallet is the last key in this order: `LastIndex` of Wallet. That is the
order of a little endian machine; on a big endian one the two would agree.

### BitNamesState

A state is a record with a field per LMDB database; a database is a total function with
`None` for an absent key. `utxos` is the set of its keys: an outpoint contains the
hash of the transaction that made it, so the output behind it never changes and is the
constant `Output[o]`. A transaction is an element of `Txid` with constant `Inputs`
and `Outputs`; `Txid` has only transactions that `sdk_types::validate_transaction`
(value check, external crate) accepts. Addresses, signatures and amounts are left out: the
node does not check signatures (`FIXME` in `node.rs`).

`connect_block` is one function in the code and four operators here, in its order:
`ConnectHeader` (header and deposits), `LockBundle` and `HandleBundleStatus`
(withdrawals), `ApplyTransaction` (one turn of the loop over the body) and
`ExpireCommitments` (the sweep). Each is a function of the state of the write
transaction; module `Node` steps through them.

- A hash of a header is everything the header commits to, from its first ancestor
  on, so it is collision free, as the code takes blake3 to be. `txs` stands for
  both body and merkle root.
- A body is a set: `generate_block` takes it from `HashMap::values`, in no
  particular order, and the loop that connects it takes any order.
- A bundle is the sequence of outpoints it spends: the bundle's transaction hashes
  them in the order of `HashMap::keys`, so two collections of the same withdrawals
  may make two different bundles for the mainchain.
- `CollectWithdrawalBundle` may take any set of destinations of the right size:
  the comparison the code sorts by (`types.rs:168`) is not a linear order. Module
  `WithdrawalBundle` has the algorithm, and that this choice contains what it does is
  `CollectsAsTheStateSays`. The loop stops by a count of outputs, which the code takes to weigh `OUTPUT_WEIGHT` each;
  the check at the end takes the weight of the transaction. `outputWeight` is what the output to a destination weighs, by its
  script (in the program 124 for P2WPKH, 128 for P2SH, 136 for P2PKH, 172 for P2WSH), `BundleWeight` the sum, and the two can disagree either way.
- The code subtracts recorded heights from the current one in `u32`. A recorded height is never
  above the current one (`CommitmentsIndexed` says it of commitments, `FailInv` of BundleProofs of the failure
  height), so the model subtracts integers.

### Mainchain

External, modelled from how the node uses it. A mainchain block has at most one BMM
commitment and some deposits. A request dies with the next block, as it names the
tip it was made for; `CreateBmmRequest` of an old tip is accepted and never mined.
Bundles that were received fail or are confirmed, never both, and stay in the
daemon's lists. The mainchain does not reorganise: the code that would react
is a `todo!()`. Whether the daemon lists the change of a bundle it paid as a deposit of the sidechain is not to be seen in the repository, and
what follows is the matter of `DepositValues`; for the node it is a confirmation that fails, which is `CallFails`.

### Node

`pc` says where the running handler is. The mutex of `main.rs` is held from start to
end, so one handler runs at a time; between its steps only the mainchain and the
end of the process come in.

| action | code | |
|---|---|---|
| `SubmitTransaction` | `Node::submit_transaction` | a refused transaction changes nothing and is no step |
| `AttemptBmm`, `CreateBmm` | `generate_block`; `Drivechain::attempt_bmm` | the mainchain may advance in between |
| `ConfirmBmm` | `Drivechain::confirm_bmm`, `verify_bmm`, `get_two_way_peg_data`, `connect_block` up to the body | |
| `ConnectTransaction` | a turn of the loop over the body | in any order |
| `SweepExpired` | the end of `connect_block` | |
| `BroadcastBundle` | `broadcast_withdrawal_bundle` | a call to the daemon: its own step |
| `Commit` | mempool cleanup and `wtxn.commit()` | |
| `ConfirmFails` | `NoNextBlock` or a failed `verifybmm` | each of these four panics with the mutex held |
| `HeaderFails` | `MDB_APPEND` refuses the height | |
| `CollectFails` | `BundleTooHeavy` | |
| `ConnectFails` | missing inputs, or the sweep's own error | |
| `CallFails`, `AnswerLost` | an error of the daemon, of the connection or of LMDB; an answer that is lost after the call was served | only where `CallsMayFail` |
| `Restart` | the process ends and `Node::new` runs | between handlers, and at any point where `CallsMayFail` |

Where the model merges calls: `ConfirmBmm` calls the daemon five times in one step
(`getblock`, `verifybmm`, `listsidechaindepositsbyblock`, `listspentwithdrawals`, `listfailedwithdrawals`). The first three ask about mainchain blocks up
to the one after `prev_main_block_hash`, which do not change any more, so they commute with whatever
the mainchain does before the last two. Of these the node looks up one bundle, the pending one, which is confirmed or failed for good when it is either: if its
status changes between the two calls it is found failed, or it is not found confirmed yet, and a single reading at the second or at the first
call says the same. `confirm_bmm` with no block answers `false` and
is no step. `pc = "poisoned"` is the poisoned mutex: only `Restart` leaves it.

`block_on` is called inside `block_on` (`main.rs:86`, `node.rs:84`). The model
takes the inner call to run to its end, which is what the code is written for; whether
the executor of the `futures` crate allows the nesting is outside the repository.

### Wallet

A wallet beside a node that only it submits to. Its keys are derived from a seed, so an address is the index
it is derived from, and since a transaction follows from its input, its address and the content of its only output, the
instance's `Txid` lists what the wallet can make: a command that is repeated makes the same transaction.

`wallet` is the committed LMDB state, `walletTxn` what the open write transaction sees, `asked` the transaction of the
running command, `call` how far the gRPC call is. LMDB has one writer: a second wallet process waits for the first.

| action | code | |
|---|---|---|
| `GetNewAddress` | `address get`, `Signer::get_new_address` | |
| `CommitName`, `ClaimName`, `SetName` | `Wallet::commit`, `claim`, `set` up to the call, with `State::connect` | inside the write transaction |
| `ServeCall` | the node's handler | a refused transaction is answered, too |
| `CommitWallet` | the end of the command | `valid` is printed; the write transaction is committed either way (`wallet.rs:140`) |
| `GiveUp` | the `?` of the call (`wallet.rs:120`) or the end of the process | the write transaction is dropped; the request may be in `abandoned` |
| `ServeAbandoned` | the handler of a call the wallet gave up | it blocks in `lock()` and is not cancelled |
| `Update` | `update`: a call that reads the node, then the write | |
| `RestartNode` | as `Restart`; the calls in flight end with the connection | |

Nothing is assumed of the user: a command that failed may be repeated or not, and the next one may come before the last is
connected, refused, or lost. The wallet commits its databases after an answer `invalid` as after `valid`, so a refused claim leaves it with an outpoint
that never exists. Two history variables, which no process keeps, let the properties say how far that goes: `gaveUp`, what commands made whose
call failed and that no later command committed, and `dropped`, what a command committed although the node refused it, and what the node
lost with its mempool.

### Cli

Processes of `bmm attempt`, `bmm confirm` and `bmm generate` (attempt, one mainchain block, confirm), in any order and beside wallets that submit. `stage[c]` is how far
a process is, `caller` whose call the node's handler runs. A process that has ended may start again, as another command. `AttemptAlone` and `ConfirmAlone` are
the two short commands: the first leaves a request behind that any later block of the mainchain may take, the second may come before that block and then poisons the node.
`Attempt`, `Generate` and `Confirm` are the three calls of `generate`, `CallsConfirm` the call `confirm_bmm` of both. `CliHandlerStep` is a step of the node that answers its caller when it is the last one,
`CallPanics` a call that meets a poisoned mutex. The mainchain is a regtest one, so only the tool makes its blocks, and a block takes a request
when there is one.

### WithdrawalBundle

`collect_withdrawal_bundle` with values, fees and the comparison of `types.rs`: aggregate by destination (`Aggregate`), sort
(`Sort`), take from the greatest on (`Take`), add up what the outputs weigh and check it (`Build`). The comparison can call each of two aggregates the
greater one, so `Sort` may leave any order with no two neighbours that it would swap; more a sort does not promise then. Sums
are integers: they do not reach 2^64.

### BlockValidation

`validate_block` and `validate_body` (`lib.rs:251`, `374`) are called by nothing. The module has them as operators, on a body that is a sequence, and asks
what they would say of a block that is about to be connected and has transactions of wallets only: each spends one output at most, and only to reveal a
name or to set its value (`SpendsForAName`). What spends for another purpose can be accepted with no spent output at all. `validate_body` slices the spent outputs of all transactions with the number of inputs of one as the *end* of the
range, so from the second transaction on it is wrong: the slice is empty, short, or begins after its end, which panics. Signatures
and the external checks of `sdk_types` are left out, as everywhere.

### DepositValues

`get_deposit_outputs`: the daemon lists deposits with the running total of the output that holds the sidechain's funds, and the value of a
deposit is the difference of successive totals, in `u64` (`% U64`). The deposits of the block the range starts at are listed too, and skipped; their total
is what the first difference needs. A bundle that is paid takes from the same output (`PayBundle`) and leaves a change, for which it names the destination `"D"`
(`lib.rs:192`). Whether the daemon lists that change as a deposit the repository does not say, so `PayBundle` may do either. A listed change has a total below the one before and a
destination that is no address: the subtraction panics in a debug build, and `parse` fails otherwise, so no block of the node is connected (`AddressesParse`). `Mine` is a mainchain block, `MakeDeposit` a deposit
of the last block, of which the node does not know yet; `GetDepositOutputs` is the loop, one fold over the listed deposits, and `Connect` a block of the node that
names a later mainchain block than the one before.

### BmmChain and NameRegistry

Two abstract specifications, which `Node` implements.

`BmmChain` is a chain of headers that grows at its end, one header at a
time, each naming its parent, naming a later mainchain block than its parent
does, and committed to by the mainchain block after the one it names. It knows no
mempool, request, handler or restart. The mapping is
`chain <- db.headers` and `commitments <- [i \in DOMAIN main |-> main[i].bmm]`.

`NameRegistry` is what the chain promises of names, without outputs or transactions: a commitment is made by one block, opens its key at most
once and in a later block; whoever opens a key last owns it; a commitment that is too old is forgotten together
with the owner of the key it opened, and from then on the name is settled. The mapping takes height and the three
indexes of `db`. A commitment that is forgotten may be made again, as in the code.

### BundleHistory

The state holds the pending bundle only. This module adds one history variable to `Node`, `locked`, the bundles that were pending in a
committed state, for a property of any two of them.

### The properties

| property | module | what could go wrong |
|---|---|---|
| `HeadersLinked` | NodeProperties | `connect_block` never compares `prev_side_block_hash` with the tip; `validate_block`, which does, is not called |
| `MergeMined` | NodeProperties | a block connected that the mainchain did not commit to; one mainchain block serving two side blocks |
| `ImplementsBmmChain` | NodeProperties | any of the above in the block cycle, as refinement |
| `ChainStops` | NodeProperties | nothing: it says that the chain ends at the last height of one byte, which is what the append does |
| `CommitmentsIndexed` | NodeProperties | an expired commitment without outpoint makes the sweep fail the block; an entry that names a dead outpoint lets a live commitment escape the sweep |
| `OwnersIndexed` | NodeProperties | the two directions of the owner index come apart when a key changes hands and the old owner's commitment expires |
| `RevealWindow` | NodeProperties | a name revealed in the block of its commitment, or more than one block after the last height the validation accepts |
| `ImplementsNameRegistry` | NodeProperties | a commitment that opens a key twice or in its own block, a key that changes hands otherwise |
| `OnlyTheLastSpends` | BlockValidation | nothing today: it says which of the orders of a valid body of wallets' transactions `validate_block` would accept, those in which the only one that spends is the last |
| `DepositsCreditedOnce` | NodeProperties | ranges of deposits of successive blocks that overlap or leave a gap across abandoned attempts |
| `NoOutputLost` | NodeProperties | the process ends between broadcast and commit; withdrawals locked that the mainchain never saw |
| `PendingIsLocked` | NodeProperties | a withdrawal spent on the sidechain while the mainchain may still pay it |
| `PaidOnce` | NodeProperties | one withdrawal in two bundles the mainchain may pay, or spendable after it was paid |
| `CollectedOnce` | BundleHistory | one withdrawal in two bundles that blocks collected, or back in the utxo set although its bundle was paid or may still be, after failed calls and restarts |
| `FailureIsFinal` | NodeProperties | nothing: it says what a failure leads to, a bundle that stays pending and no other ever collected |
| `HandlerReturns` | NodeProperties | a block that can neither be connected nor fails |
| `InStep` | WalletProperties | lost, late, refused and repeated calls, or a lost mempool, leave the wallet with an outpoint that is spent or never is: by these ways, which it lists, and by no other |
| `NoDoubleSpend` | WalletProperties | two transactions of one wallet spend one output, in the mempool: only by a command that failed, was not completed, and was served all the same |
| `AddressesRunOut` | WalletProperties | from `KeyRadix + 1` addresses on `get_new_address` makes the last one again, and not before |
| `GenerateExtends` | Cli | a `bmm generate` that is alone and has the only request ends without a new block, whatever was attempted and confirmed before |
| `GenerateEnds` | Cli | a process that waits for ever while another one replaces its block or poisons the node |
| `CollectsAsTheStateSays` | WithdrawalBundle | the loop of `lib.rs:172` takes other withdrawals than BitNamesState lets it, or the transaction weighs something else than the state takes the bundle to weigh |
| `PaysWhatItSpends` | WithdrawalBundle | a destination paid in part, twice, or without its withdrawals being spent |
| `FeeIsPaidOncePerDestination` | WithdrawalBundle | fees that are added where the greatest one is meant |
| `GreatestTaken` | WithdrawalBundle | a lesser aggregate taken before a greater one where the comparison is decisive |
| `CreditedExactly` | DepositValues | the first deposit of a range credited with the whole total; ranges that begin in the middle |
| `ChangeIsNeverPassed` | DepositValues | nothing to be hoped for: once a change is listed every range includes it, and the chain and its deposits stop there |

`TypeOK`, `WalletTypeOK` and `CliTypeOK` are the type invariants.

`CommitmentsIndexed`, `OwnersIndexed` and `RevealWindow` speak of `Unrepeated` commitments, those that at most one
output carries. A wallet makes no other ones: `commit` takes a new address, the salt is
derived from the secret of that address (`signer.rs:39`), and a retry after a lost answer
makes the same transaction. The node does not keep them apart: two transactions
of one mempool may have outputs with one commitment, and both are connected
(run `repeated_commitment`). The index then names one of the two outputs and the
sweep misses the other.

### NodeClaims

What comments, error messages and help texts say of the node and the node does not do. Each of its
definitions is the property of one violation run.

## 3. Runs

| run | expect | instance | shows |
|---|---|---|---|
| `names` | pass | one key, two commitments, reveal of each, one set; mainchain of 4 blocks, of 6 where only one commitment is made; `COMMITMENT_MAX_AGE` 1 (1.2 million states) | the name properties and the refinement of `NameRegistry`, under failed calls, lost answers and restarts, also when a commitment is made again after it expired; what `validate_block` would refuse |
| `peg` | pass | two deposits, two withdrawal transactions (one with two outputs) to two destinations, a refund; mainchain of 5 blocks; one output fits into a bundle (1.6 million states) | deposits are credited once, outputs kept and pending withdrawals locked, under the same faults; bundles of a chain share no withdrawal, and what was paid or may be stays out of the utxo set, with the end of the process between broadcast and commit |
| `chain` | pass | a deposit and two transactions that spend it, one of which withdraws it to a destination whose output alone is too heavy for a bundle; mainchain of 5 blocks; `KeyRadix` 4 (320 thousand states) | chain properties, refinement of `BmmChain`, and that handlers end; blocks that cannot be connected or confirmed and a height that cannot be appended |
| `paid_once` | pass | one withdrawal in two outputs, a refund of one; mainchain of 7 blocks; calls do not fail (800 thousand states) | withdrawals are paid once, and a failure is final |
| `wallet` | pass | one name, a commitment, up to two commands after it (claim, or set to one of two values); mainchain of 3 blocks; five address indexes, `KeyRadix` 4 (800 thousand states) | how far the wallet can be from the node while calls are lost, refused, served late or twice and the node restarts; addresses |
| `generate` | pass | two processes on `MCChain`, where neither transaction withdraws; mainchain of 5 blocks | what a generate ends with, and that each process ends |
| `amounts` | pass | four withdrawals to three destinations whose outputs weigh 3, 4 and 8, values and fees 0 to 2; three mainchain blocks with up to two deposits or changes of 1 or 2 each (550 thousand states) | the two algorithms, for every input, order and division into ranges |
| `accepted` | violation | `MCChain` | two transactions that spend one output are both accepted; the block with both fails |
| `older_commitment` | violation | `MCNames`, `COMMITMENT_MAX_AGE` 2 | two reveals accepted before either is connected: the younger commitment takes the key |
| `repeated_commitment` | violation | `MCNames`, second commitment equal to the first | two outputs with the same commitment are connected by one block |
| `refund` | violation | `MCRefund` | a failed bundle is put back with every later block, the withdrawals spent since included |
| `appended` | violation | `MCChain`, `KeyRadix` 2 | a block that was mined cannot be appended: its height has a second byte |

Bounds, and why they are enough.

- `MaxMain` bounds the length of the mainchain, and with it
  the side chain, which is shorter: 4 blocks give three side blocks,
  enough to commit, wait, reveal or expire and take over with a maximal age of 1; 5
  give the four side blocks that deposit and withdraw, lock, fail and release, and refund; 7 let a second bundle be collected and confirmed
  after the first and a failure be followed by several blocks.
- `OneAlone` (`names`) lets the mainchain grow from 4 to 6 blocks only where nothing but the first commitment and its reveal was ever
  submitted. Four side blocks are what it takes to make the commitment at one height, let it expire two later, make it again and reveal it. Both
  commitments were checked once with five mainchain blocks (5.8 million states, no error), which is too long to repeat.
- In `peg` two bundles are collected when the withdrawals are in different blocks, and both can be confirmed, or one fail.
- The maximal age 1 and gap 1 keep both sides of each `>` within reach: a
  commitment of age 0, 1 and 2, and a failure gap that has and has not passed.
- The weights are 1 for a bundle without outputs, 4 for the nominal output and 8 for the limit, so `MAX_BUNDLE_OUTPUTS` is 1 and the loop takes two. Two outputs of weight 4 do not fit (`peg`); in `amounts`
  outputs of 3 and 4 fit together although they are more than `MAX_BUNDLE_OUTPUTS`, and one of 8 does not although it is not: both ways in which the count and the weight disagree.
- `KeyRadix` is small where a second byte is to be reached and 256 elsewhere. What depends on it is proved for every radix.
- `AddressIndex` has one index more than the radix, the one `get_new_address` repeats. `CommitIndex` is the index names
  are committed with in the instance, `MaxCommands` the commands that follow a commit, `SetTo` the values. The action constraint `AddressesFirst`
  puts address commands before the first name, `UpdatesFirst` the `update` before anything goes wrong: they touch what no name command reads. `FewFailures` is the one bound on
  what goes wrong: one command that was given up and not completed, and two with those that were dropped. Three mainchain blocks are enough to commit, claim and set, each in its block, and for a commitment to expire.
- `HasRoom` makes a process of the CLI start only where the mainchain has room for its block.
- `Amount` 0 to 2, `DepositAmount` 1 and 2, `MaxHeight` 3, `MaxPerBlock` 2: the algorithms compare and subtract, and small numbers decide every comparison. `U64` = 13 is one more than what all
  the deposits of the instance add up to, and a difference can wrap; that funds stay below it, as there are fewer than 2^64 satoshis, is the one guard that names it.

Nothing else is bounded: in the runs of the node requests, mempool, calls, failures and restarts are as many as the mainchain allows. The
instances separate names from the peg because the two meet in the utxo set only; `Node` is the
same in all of them. Violation runs set `CallsMayFail` to `FALSE`: the
counterexamples need no failure. So do `paid_once`, whose property needs it (a process that ends between broadcast and commit may leave
two bundles of the same withdrawals with the daemon; `peg` has such ends, and `CollectedOnce` says what holds of the bundles the chain collected), `generate`, whose processes are not cut off, and `wallet`, where the calls that fail are those of the wallet.

Fairness. `WF_vars(HandlerStep)` in `Spec`: a handler that is past its first step goes on. The
thread that runs it is not blocked by anyone (it holds the mutex), and a call that is not
answered ends with the timeout of the HTTP client, which is `CallFails`. Nothing is assumed of
callers, of the mainchain, or of restarts. `CallFails` and `Restart` leave the states
`HandlerReturns` speaks of as well, so it says that no other state of a handler is a
trap. `CliSpec` adds, for each process, that one that has started a `generate` goes on to its next call (`GoesOn`), as a sequential program does; nothing makes one start. The
mutex is not fair, so a process may be kept out by others that call `bmm attempt` again and again: `GenerateEnds` is stated for behaviours in which that ends (`AttemptsEnd`). Confirmations need no such condition, as they use up blocks or poison the node.
`WalletSpec` states safety only and assumes no fairness.

Deadlock is checked except in `generate` and `amounts`, where the processes and the algorithms end. In the runs of `Node` a restart is always
possible between handlers, so liveness and not deadlock is what matters there.

## 4. Findings

The five violation runs, with the lines they contradict, are in `PROJECT.json`.

Three of them (`accepted`, `older_commitment`, `repeated_commitment`) have one cause: a transaction is
validated against the committed state when it is submitted and never again. `refund` comes from a failed bundle that
is kept as the pending one. `appended` comes from a `u32` that is stored in the byte order of the machine: at height 256 no block is
connected any more. `CommitmentsIndexed`, `OwnersIndexed`, `RevealWindow` and `ImplementsNameRegistry` state what does hold although nothing is
validated again, `NoOutputLost`, `PendingIsLocked`, `CollectedOnce` and `PaidOnce` what holds although a failed bundle is kept, and `FailureIsFinal` what follows from
it: no withdrawal leaves the sidechain after the first failure.

Other behaviour a reader of the code may not expect, stated by properties that hold:

- a reveal that waited in the mempool is connected one block later than the validation accepts (`RevealWindow`);
- a confirmation before the mainchain block poisons the mutex (`ConfirmFails`);
- a bundle that is too heavy is collected, because the loop counts outputs and the check weighs them, and the block fails, as does every later one that collects the same (`CollectFails`, `CollectsAsTheStateSays`);
- `validate_block`, called where the node connects a block, would refuse every body of wallets' transactions in which one follows another that spends (`OnlyTheLastSpends`);
- a wallet has 257 addresses at most (`AddressesRunOut`);
- what a bundle is paid is taken off the value of the next deposit (`CreditedExactly`), and if the daemon lists its change the chain stops (`ChangeIsNeverPassed`);
- a name is stuck in the wallet once the node has refused one of its steps or lost it (`InStep`), and a command that failed can still double-spend later (`NoDoubleSpend`);
- a `bmm generate` can end with an error because of an earlier `bmm attempt` whose request is the one that is mined (`GenerateExtends`).

## 5. Proofs

| theorem | module | says |
|---|---|---|
| `TypeCorrect` | NodeProofs | `Spec => []TypeOK` |
| `ChainInvariant` | NodeProofs | `Spec => []ChainInv`, the inductive invariant of the block cycle |
| `Linked` | NodeProofs | `Spec => []HeadersLinked` |
| `Mined` | NodeProofs | `Spec => []MergeMined` |
| `Refines` | NodeProofs | `Spec => ImplementsBmmChain` |
| `LastSpends` | NodeProofs | `Spec => []OnlyTheLastSpends` |
| `DepositsCredited` | PegProofs | `Spec => []DepositsCreditedOnce` |
| `NamesInvariant` | NameProofs | `Spec => []NameInv`, the inductive invariant of the indexes |
| `CommitmentsConsistent` | NameProofs | `Spec => []CommitmentsIndexed` |
| `OwnersConsistent` | NameProofs | `Spec => []OwnersIndexed` |
| `WaitInvariant` | NameProofs | `Spec => []WaitInv`, the inductive invariant of the mempool |
| `RevealsInWindow` | NameProofs | `Spec => []RevealWindow` |
| `NamesRefine` | RegistryProofs | `Spec => ImplementsNameRegistry`, where no commitment is repeated |
| `ChainEnds` | BundleProofs | `Spec => []ChainStops` |
| `FailureFinal` | BundleProofs | `Spec => FailureIsFinal`, with a positive gap |
| `OutputsKept` | BundleProofs | `Spec => []NoOutputLost` |
| `PendingLocked` | BundleProofs | `Spec => []PendingIsLocked`, with a positive gap, where payments are paid |
| `WithdrawalsCollectedOnce` | BundleProofs | `LockedSpec => []CollectedOnce`, the same |
| `WalletTypes` | WalletProofs | `WalletSpec => []WalletTypeOK` |
| `AddressesEnd` | WalletProofs | `WalletSpec => []AddressesRunOut` |
| `MempoolDisjoint` | WalletProofs | `WalletSpec => []NoDoubleSpend`, while addresses last |
| `WalletInStep` | WalletProofs | `WalletSpec => []InStep`, the same, where no commitment is repeated |
| `CliTypes` | CliProofs | `CliSpec => []CliTypeOK` |
| `OneCaller` | CliProofs | `CliSpec => []CallerInv`: one process at most waits, for the handler that runs |
| `BundleInvariant` | AmountProofs | `BundleSpec => []BundleInv`, the inductive invariant of the loop |
| `WithdrawalsPaid` | AmountProofs | `BundleSpec => []PaysWhatItSpends` |
| `FeePaidOnce` | AmountProofs | `BundleSpec => []FeeIsPaidOncePerDestination` |
| `CollectedBundle` | AmountProofs | `BundleSpec => []CollectsAsTheStateSays` |
| `GreatestFirst` | AmountProofs | `BundleSpec => []GreatestTaken` |
| `DepositInvariant` | AmountProofs | `DepositSpec => []DepositInv`, the inductive invariant of the deposits |
| `DepositsExact` | AmountProofs | `DepositSpec => []CreditedExactly` |
| `ChangeStops` | AmountProofs | `DepositSpec => []ChangeIsNeverPassed` |

Assumptions: those the modules declare, each evaluated by TLC for the instances. `ConstantsAssumption` and `WalletAssumption` have the types of the constants and
finitely many outpoints, `NoneAssumption` and `NoWalletAssumption` say that `None` is no value, `DepositAssumption` that a deposit is
a plain value (as `get_deposit_outputs` makes it), `OutputsAssumption` that an outpoint is made by one
transaction at one position (it contains the transaction's hash), `HmacAssumption` that `hmac` does not
collide, `KeyRadixAssumption` that a byte has two values or more, `CliAssumption` that `None` is no process, and `CallsMayFail` is a Boolean. `DepositValuesAssumption` and the assumption of
`WithdrawalBundle` have the types of the amounts. There is no assumption on the mainchain beyond module `Mainchain`,
and none on the size of anything.

Six theorems have hypotheses of their own, which their statements show:

- `Unrepeated = Commitment` (`NamesRefine`, `WalletInStep`): no commitment is carried by two outputs, as it is with the commitments of a wallet; `repeated_commitment` is the run without it.
- `WITHDRAWAL_BUNDLE_FAILURE_GAP > 0` (`FailureFinal`, `PendingLocked`, `WithdrawalsCollectedOnce`): it is 100 (`lib.rs:36`).
- `PaymentsArePaid` (`PendingLocked`, `WithdrawalsCollectedOnce`): a transaction that makes a value or a withdrawal spends one. It is what `sdk_types::validate_transaction`
  makes of outputs with a value; a withdrawal of value zero needs no input, and could be connected twice.
- `AddressIndex \subseteq 0..(KeyRadix - 1)` and `InHashOrder(depth)` (`MempoolDisjoint`, `WalletInStep`): no address that is made twice, and that an outpoint,
  which holds the hash of its transaction, comes after the ones the transaction spends. The instance of `wallet` has the index that is made twice as well, and does not commit names with it.

### The block cycle

Why an inductive invariant is needed: `HeadersLinked` is preserved by a commit only if the
block that is committed extends the tip, and nothing in `connect_block` checks that. It
follows from where the block comes from. `ChainInv` says that the block that waits (`block`), the one
that is requested (`cur`, `pc = "bmm"`) and the one that is connected (`cur`, later) each extend the
*committed* tip and name a known, later mainchain block; and that while one is being connected
no other waits, so that none is left behind with a parent that is not the tip any more. That is
what `TakeBlock` is for, and dropping it (the mutant `KeepBlock`) breaks the chain. `ChainInv` also
carries the result of `verify_bmm` from the check to the commit, past whatever the mainchain does in
between: the mainchain only grows (`MainStepType`).

The argument: `NodeProofs` shows of each operator of `connect_block` that it maps states to
states and writes no header but the one it is given; then that `ChainInv` is inductive, one
step per action; that a step leaves the committed headers alone or appends one that extends the tip and that
the mainchain committed to (`StepOnHeaders`); and from that linked headers, merge mining and the
refinement.

`ChainEnds` adds that the height stays below `KeyRadix` (`HeightInv`): the first number of two bytes does not come after the last of one.

### The deposits

`DepositsCreditedOnce` is not inductive, as the next block asks for the deposits after `last_deposit_block`, which
is the last block *with* a deposit and not the one the last header named. `CreditInv` says what makes the two ranges
the same: no block between the two has a deposit (`CreditedUpTo`). It says the same of the state of
the write transaction, with what the body has spent so far (`SpentSoFar`), and that no deposit is in two mainchain blocks,
which module `Mainchain` takes care of. `DepositRanges` joins the ranges of successive headers.

### The name indexes

`NameInv` adds to the two properties the facts about transactions that are still under way:
what waits in the mempool, in the block that waits, in the requested block and in the rest of the body is `Fresh`, that is, no commitment it makes
is on record. This survives the commit of a block because another transaction of the mempool would have to make the
same outpoint or a repeated commitment. It also says that every reveal under way spends the commitment it reveals (`Revealing`), the one part of
the validation that cannot become stale. From the two, `TransactionNames` shows that one turn of the loop
over the body keeps the indexes, and `SweepNames` that the sweep does.
The sweep is also where `Recent` (no entry older than the maximal age) is established; between header and
sweep it does not hold, so the invariant has it only for the committed state and for `pc` after the sweep.

### The window of a reveal

Nothing is validated when a block is connected, so the window follows from how long a transaction can wait. A block takes all of the
mempool, and when it is connected what is left was submitted after the block was made: no transaction waits for more than one block. `WaitInv` says
it as: what is not in the block under way is `InTime`, and what is in it is on record. Beside that it carries that an entry names the block and the output that made it (`Recorded`)
and that the write transaction drops an entry only where the sweep does (`KeptOrSwept`). A reveal then opens a commitment that was made at most
`COMMITMENT_MAX_AGE + 1` blocks earlier, and in an earlier one, because its input was connected when it was accepted.

### The registry

A step of `NameRegistry` is a whole block; in `Node` a block is many steps on the write transaction. `RegistryInv` says what became of the committed
indexes so far: `BodyDone` after the turns of the loop over the body, in whatever order, and `BlockDone` after the sweep, each as the equations of the abstract block, with what the
connected transactions make and open (`MadeBy`, `OpenedBy`) and who took a key over (`TakersBy`). `Commit` is the abstract step; every other action is a stutter.

### The bundles

`FailureFinal` rests on `FailInv`: the failure height is 0 or the height of the state itself, so a gap greater than zero never passes after a failure.
`OutputsKept` rests on `KeptInv`: an output of what is connected so far that nothing spends is there, or a commitment, or in a bundle that was
received or is pending in the write transaction.

That a failed bundle brings spent outputs back makes the other two harder: after a failure transactions can be connected a second time. `Safe` therefore speaks of the
`early` ones, connected before the first failure. What they spend is gone, what bundles hold is theirs, unspent and in one bundle only,
and all but the failed bundle are out of the utxo set. After a failure nothing is collected, so this is enough. `LockInv` says it of the pending bundle alone, `CollectedInv` of
all that a committed block collected. Neither needs anything of the calls that fail: a bundle that was broadcast and whose block was dropped is in no committed state,
and its withdrawals are still in the utxo set, for another bundle to collect. Of the bundles the daemon was handed `PaidOnce` is then false, which is why it is checked without failures only.

### The wallet

`StepOfNode`: a step beside a wallet is a step of the node or leaves it alone, so what is invariant under `[Next]_vars` is invariant beside a wallet. `AddressesEnd` rests on `FirstAddresses`: the addresses are the first `n` indexes, in the committed database and
in the open write transaction, and the order of the keys of `0..KeyRadix` is that of the numbers but for the last, which comes before all others except 0 (`SmallKeyOrder`).

`MempoolDisjoint` rests on `LiveInv`. `Live` is what the wallet stands by: the mempool, the abandoned calls and what is connected, without what it gave up, and the running command and
what makes the outpoints the wallet keeps. All of it spends what lies behind the outpoint the wallet keeps for the name of that address (`Behind`), except the running command, which spends that
outpoint itself, and moves it on with its commit (`CommandMoves`). A new command spends the kept outpoint, so nothing live spends it already (`AskedIsNew`): no two live transactions
share an input. A command that failed stops being live, whatever the node does with it, until the same command is made again and committed.

`WalletInStep` needs in addition that what the wallet keeps is somewhere (`PlacedInv`): what it committed was answered `valid`, and then it is in the mempool until it is connected or lost with it (`MempoolKept`), or it was answered `invalid`, and
is among the dropped. If the maker of a kept outpoint was connected, the outpoint is spent by nothing live but the running command (`LiveInv`), so if it is spent at all, it is by that or by a command that was given up. If it is not spent it is in the utxo set, unless it is a commitment that expired: `MadeInv` and
`KeptInv` of BundleProofs say of a connected, unspent output that sets or reveals a name that it is in the utxo set, and of a commitment that it is while it is on record.

### The command line tool

`StepBesideTools`: each action of a process is one of the node or of the mainchain, or leaves them alone. So `ChainInv`, and with it every invariant that rests on `[Next]_vars`, holds beside any number of processes.
`CallerInv` is what `Answer` needs to answer the right one: `caller` is set exactly while a handler runs, its stage is that of the handler, and no one else waits.

### The order of a body

`LastSpends` needs `ChainInv` (the block that waits names the tip, so `validate_block` does not refuse its header), that a mempool is finite (`FiniteInv`), and what `FlattenSeq` makes of the inputs of a body: it is at least as long
as each part (`FlattenLength`), and is the last part where all others are empty (`FlattenLast`). Where something before the last transaction spends, the slice of the last one begins after its end, or is empty where
it has an input of its own, and then it lacks what it reveals (`NamesNeedInputs`). Elsewhere every slice is what its transaction spends.

### The amounts

The two algorithms are folds, over the withdrawals behind a destination and over the listed deposits. The induction over data that this asks for cannot be cited from the library, whose induction theorems take an operator. The
proofs use a set in its place: of the sizes (or of the positions) up to which the claim holds there is a greatest one (`MaxOfFinite`, which rests on the well-foundedness of strict inclusion), and it is the last. `FoldExists` shows in this way that the
recursive function of a fold exists, `TotalSame` and `TotalOneMore` that a sum is that of its members, whatever the order they are taken in, and `UpTo` of NodeProofs is the same device for `FlattenSeq`.

`BundleInv` says what the loop has made of the aggregates it has taken: the list is sorted and has each destination once (`ListSorted`), and outputs, spent outpoints and fee are those of the aggregates up to `taken`
(`OutputsTaken`, `SpentTaken`, `FeeTaken`); when it ends, it ends for the reason the code gives (`LoopEnded`). The four properties follow from it. For `CollectsAsTheStateSays`: the weight that the outputs add up to, by position, is that of the bundle's destinations, each counted once,
because no destination is in the list twice (`WeightOfOutputs`). For `GreatestTaken`: where no two aggregates
are each greater than the other, an aggregate is at least as great as its successor in the list in every respect (`AtLeast`), hence as all that follow.

`DepositInv` says that deposits are listed by block and each total is what was before plus the value (`DepositsInOrder`), and that the credited values are the wrapped differences of successive totals, up to the last
deposit in a block the node knows, whose block is `start` (`CreditedSoFar`). `LoopCredits` shows that the fold over what is listed yields the differences that are missing, because the deposits of the block it starts at are listed and give it the total
to begin with. A difference is the deposited value exactly where nothing was paid in between, since the totals stay below `U64`. `ChangeAhead` is the part of it that `ChangeStops` states: a listed change is in a block the node has not connected,
and since `start` is never after `connected`, every range that reaches it includes it.

### Only model-checked

`HandlerReturns`, `GenerateExtends` and `GenerateEnds`, since liveness under fairness is out of the prover's reach; `PaidOnce`, which speaks of the bundles the daemon was handed and holds without failures only; and the violations. Every other property of a passing run is stated by a theorem; the runs
remain the check that the hypotheses of the theorems can be met and that the interesting cases are reached. `InStep` and `NoDoubleSpend` are checked by TLC with an address index that repeats as well, the theorems exclude it.

## 6. Not modelled

- **Reorganisation**: `disconnect_block` is a `todo!()`, and module `Mainchain` does not reorganise.
- **`get_utxos_by_addresses`, `get_balance`**: they read and change nothing. `list` and `store` are `todo!()`.
- **The 10 MB limit of LMDB**: `CallFails` stands for the error, the size is not counted.
- **`block_on` inside `block_on`**: behaviour of the `futures` crate.
- **Overflow of sums in `u64`** in a bundle: the values come from deposits and stay below it; fees are chosen freely and could overflow, which
  the small `Amount` does not reach.
- **Hashes, `amount.rs`, encodings, argument parsing, scripts**: no behaviour of the protocol; of a script only what its output weighs. `hmac` is a constant function.

External, taken as the code uses it: the byte order LMDB compares, the daemon that lists failed bundles for ever, what a sort leaves for a comparison that is not an order, and the value check of `sdk_types`.

## 7. Plan

Done, in this order: the node with BmmChain, the claims and their violation runs, the lemmas and theorems of the
block cycle, the deposits and the name indexes; then wallet, CLI, the amounts, NameRegistry and the byte order of keys, with the theorems on the window of a
reveal, the registry, the bundles and the wallet; then the amounts, `InStep`, the tool and `validate_block`; then the weights of a bundle, the change of
a paid one, the history of the collected ones, a wallet without any discipline of its user, and the short commands of the tool.

What could follow: `NoDoubleSpend` and `InStep` for a wallet that reaches its last address, which makes one twice; `LastSpends` for transactions of more than one input, where slices overlap; and the bundle of the chain state as
a refinement, with the amounts beside the outpoints.
