# A TLA+ model of trac-peer

trac-peer runs a *subnet*: peers that replicate one ordered log (Autobase), apply it to a
key-value view (Hyperbee), and settle transactions on a second network, the MSB. This project
models the parts of `src/` that decide what is in that view and what gets there, checks them
with TLC and proves the main results with TLAPS.

## 1. The system

| Component | State | Operations | Interacts with |
|---|---|---|---|
| Apply loop and operation handlers (`src/src/index.js`, `src/src/operations/`) | the view: admin, settings, roles, messages, pins, deletions, nicknames, hashes of accepted operations | one handler per type of log entry | entries from all writers, in Autobase's order |
| Transaction apply (`operations/tx`) | `txi/`, `tx/`, `txl`, per-user index, `txen` | `handle`: guards, wait for the MSB replica, verify, execute, index | `MsbClient` (local MSB replica), `Contract` |
| Submission (`artifacts/protocol.js`, `transaction/`, `tasks/transactionObserver.js`) | in-memory pool, calls in flight, the observer's round | `broadcastTransaction`, observer rounds | MSB validators, the log |
| Contract execution (`artifacts/contract.js`, `SimStorage`) | the fields of the one contract instance | `execute`, `get`, `put`, `simulateTransaction` | called by `tx`, `msg` and `feature` handlers and by the API |
| Writer membership (`addWriter`, `addIndexer`, `removeWriter`, `autoAddWriter`, the invitation handshake in `index.js`) | Autobase's writer set, `auto_add_writers` | signed changes, automatic additions | swarm connections |
| Scheduler (`utils/scheduler.js`) | timers | periodic runs, `stop` | observer, updater |
| Updater (`tasks/updater.js`) | none | an indexer appends null when the view is ahead of its signed length | scheduler, Autobase |
| Terminal, API, RPC (`terminal/`, `api.js`, `rpc/`) | none | sign and append, read messages by number, pin, deletion or user | view, `broadcastTransaction` |
| Wallet, configuration, runners, example application | key files, defaults | start-up | - |

What is hard in it: `tx` waits *inside* apply for a replica that differs from peer to peer; the
order of concurrent entries is not the order of signing, so an operation meets roles, names and
pins its signer did not see; entries can be appended twice; the pool is lost at a restart and
races with expiry; one contract instance is shared by activities that interleave at every await;
a peer asks for write access on what its own view shows before an await, and is answered on what
another view shows before another one; a scheduler is stopped at any point of its timer chain.

What makes each component correct: handlers keep related keys consistent (two-way indexes,
counters, pins) and keep authority where it belongs; all peers execute the same settled
transactions once and in one order; a confirmed transaction is executed in the end, unless a
contract function throws an error that stops every peer before it; contract state is a function of
the log; nobody becomes a writer without the admin's signature or setting, and who asks while it
is on gets in; a worker's runs do not overlap, go on and can be ended. `PROJECT.json` lists the
hazards line by line with the properties that watch them.

## 2. The modules

| Module | Models |
|---|---|
| `SubnetState` | the keys of the view and the fourteen handlers that write them (addAdmin, updateAdmin, setMod, the settings, msg, setNick, muteStatus, deleteMessage, pinMessage, unpinMessage), and the getters of messages in `api.js` |
| `Settlement` | abstract: confirmed transactions, one ledger per peer, each transaction once, one order |
| `TxApply` | the MSB, each peer's replica of it, the log, and `TxOperation.handle` at every peer; implements `Settlement` |
| `TxSettlement` | extends `TxApply` by the peer that submits: calls, pool, observer, restart; implements `TxApply` |
| `ContractReplay` | abstract: the view moves along the log by whole entries and never past one whose error leaves apply |
| `ContractExec` | the shared contract instance under apply and simulations, with batches, errors and restarts; implements `ContractReplay` |
| `WriterMembership` | who may write: addWriter, addIndexer, removeWriter, autoAddWriter, and both ends of the invitation handshake |
| `Scheduler` | `Scheduler` of `utils/scheduler.js`: timer chains, runs of the worker, `stop` |
| `MC*` | the small instances TLC checks |
| `*_proofs` | theorems and proofs about the module they are named after |

### SubnetState
A variable stands for a family of keys (`mods` for `mod/<user>`, `kcin` for `kcin/<nick>`, ...);
an absent key and `false` are the same where every reader treats them the same, and an absent
`txen` is true. One action is one entry its handler accepts. Apply runs handlers one at a time, so
a handler is one step; a refused entry changes nothing and is a stuttering step. A signature is
its signer. Waived admin rights are an entry with value null, for which no signature is valid.
Which operation arrives is open: `Next` takes any signer, any target, any already accepted hash
(an entry appended twice) or a new one. `privileged` stands for the terminal's check before
signing (`#requireAdminOrMod`): a user passes it if he was admin or mod after some prefix of the
log, which his own peer may still be showing him. `AdminStep` and `ChatStep` are the commands of
the terminal: what it parses, the nonce and the signature are abstracted to a signer and a hash. A
posted message is one that terminal and API make: neither pinned nor deleted. The getters of
`api.js` are operators on the view: `getMessage` takes a number, and `parseInt` of the key
`msg/<n>` is none (`Number`, `Key`).

### TxApply
`local[p]` is the signed length of p's MSB replica, `confirmedAt[t]` the MSB length at which t is
found. The handler is four actions: `SkipTx` (stall guards), `WaitForMsb` (the await of
`waitForSignedLengthAtLeast`), and the rest, whose awaits read the batch and a fixed MSB length,
which nothing changes meanwhile: `ExecuteTx` where the handler returns, `ThrowTx` where it throws.
`Contract.execute` turns a failed assertion into a result, which is indexed, and throws any other
error again; nothing in the handler or the apply loop catches it. Then nothing is indexed or
flushed, `failed[p]` is set, and p begins the same entry again after `RestartApply`. Which
functions throw is the constant `Throwing`: a function of the contract may throw depending on the
state, but peers that reach an entry have the same state, so they throw alike. All comparisons of
entry and MSB payload are one flag `matches`, since they have the same outcome at every peer.
`txi/` is the sequence `index`; the inverse `tx/` and the per-user copies `utxi/` are written with
it and not kept separately. An apply call is modelled with one entry at a time; batches of several
are in `ContractExec`. MSB and Autobase are external: the MSB is a growing log, Autobase's order
is the sequence `log`. The reordering Autobase does before entries settle (undoing and applying
again) is left out.

### TxSettlement
An action is the code between two awaits: a call of `broadcastTransaction` begins (checks), is
rejected by validation or sent, and returns (pool check and insertion, no await between them).
A round of the observer takes its time stamp, and for each transaction drops it or reads the
replica's length, awaits the state at that length, removes the transaction and awaits the append.
`RestartHome` loses everything in memory, a failed apply too; `Revoke` makes the append throw, and
so does a failed apply (how Autobase refuses one then is external); either ends the round.

### ContractExec
`this` is the instance's fields. `ApplyBegin`/`SimBegin` set them and run the function up to the
await of its get; the write goes to whatever storage and caller the fields hold by then; the end
of `execute` clears them. `Overlap` says whether simulations and apply may run at a time.
The contract function is application code: one read-modify-write under the caller's key, the
shape of `dev/tuxemonContract.js` without its random pick. Its outcomes are success, a failed
assertion after the write, another error before it, and a type the contract does not have.
An entry in this log is one that passed the checks the handlers make before `execute`.

### WriterMembership
The log is one sequence; `views[n + 1]` is what n entries make of the roles and of
`auto_add_writers`, computed when the n-th entry is appended, since every peer computes the same;
a peer is a number of applied entries and may lag. An entry that the admin signed carries its
nonce and stands for its own hash. `tryInvite` and `onmessage` are split at their awaits: `saw`
is what a read found when it was called (`Connect`, `Apply`, `Receive`), and the code acts on it
when the await is over (`SendInvite`, `Listen`, `AddAsker`, `Refuse`). `once('append')` hears
only the appends that come while it listens: `Apply` wakes a peer that is `waiting`, and only if
the view's core grew. `Expire` is the deadline, which the loop looks at after an append. A role
is what the last entry about the key says; how Autobase treats a second `addWriter` for an
indexer is external. The checks of `bootstrap` and `to` always succeed between peers of one
subnet and are left out, and so is `bnd/<key>`, which nothing writes. A restarted asker is a
further connection.

### Scheduler
A *chain* is what one `start` begins: a timer, `run`, the worker, the rest of the callback, the
next timer. `Fire`, `Settle` and `Continue` are the pieces between its awaits; `timer` and
`current` are the two fields, which every chain overwrites, and that is the difficulty: `stop`
clears the timer and awaits the run that these fields name. Delays are abstracted. A start during
a run is possible in the code, although nothing in the repository starts a stopped task again;
`overlap` remembers it. A worker is a run that ends or throws; the observer's rounds are in
`TxSettlement`, the updater's are not modelled.

## 3. The runs

Every passing run explores its instance completely. "Deadlock" is not checked: logs, messages
and time are bounded, and a system without new entries rightly does nothing.

| Run | Instance | Shows |
|---|---|---|
| `view` | 3 users, 2 names, 2 messages, 2 slots, 7 hashes, all fourteen handlers | `DeletionIndexExact`, `PinIdLeadsBack`, `UserIndexExact`, `NoOperationCountsTwice`, `AdminWhereRead`, `NickBijection`, `ListedMessagesAreRead`, `DeletionIsFinal`, `AdminMessagesAreSafe`, `NameIsNeverTaken`, `StaffMutedByAdminOnly`, `WaivedIsFinal` while roles change |
| `agree` | 2 peers, 3 transactions of which one throws, a switch, 3 entries, MSB of 3, limit 2 | `Agreement`, `OnlySettledOnce`, `LedgerIsWhatIsDue`, `ImplementsSettlement`, across `enableTransactions`, skipped entries and entries that stop a peer |
| `submit` | 2 peers, 2 transactions of which one throws, 2 calls, pool size 0, expiry after one tick, restart, revocation, a switch | `PoolBound`, `AppendedIsConfirmed`, `AppendedIsExecuted`, `TransactionsAreKept`, `ImplementsApply` |
| `settle` | 2 peers, 3 transactions of which one throws, 3 entries, MSB of 2, room in the pool, no expiry, no fault | `ConfirmedIsExecuted`, `KeepsUp`, under fairness |
| `replay` | 2 callers, 2 entries of every kind, 2 simulations | `StateIsReplay`, `ImplementsReplay`, `IsolatedBetweenEntries` without overlap |
| `join` | 3 peers, one asks another; add, remove, on, off signed; 4 entries; lag, deadline, disconnection | `OnlyAskersAreProposed`, `JoinsAreGranted`, `WritersAreJustified`, and `ConnectingPeersJoin` under fairness |
| `tasks` | 3 chains | `OneRunAtATime`, `StoppedIsQuiet`, and under fairness `RunsAgain`, `StopWindsDown` |
| `unpin`, `userread`, `lag`, `overlap`, `missed` | small | disagreements between the code and what its documents, comments or tests say; see below |

Why the bounds are enough: three users are an admin, a mod and a target (or an author), each
distinct from the others; two messages and two slots let one message be pinned, unpinned and
pinned again beside another; two peers are one ahead and one behind; two transactions let one be
early, doubled or foreign while the other is not, and a third one, which throws, stands before or
behind them; two entries suffice for a batch that a crash
splits. The hash bounds leave room for the setup (admin, chat, roles) plus the interplay the run
is about. A pool of size 0 is full with its first entry, and two calls with one expiry let an
insertion fall before, into or after an observer round that drops or takes the other's entry. For
membership three peers are the admin's, a host that gains and loses its role, and an asker, and
four entries are a host's admission, the setting, its revocation and an invitation in any order.
Three chains are two that overlap and one that starts meanwhile. Users, names,
simulations, in `agree` and `lag` the peers and the two transactions that do not throw, and in
`submit` the calls are symmetric: runs with liveness use no symmetry.

Fairness. `KeepsUp` says that every entry is eventually applied by every peer, unless the peer
stands at an entry whose function throws (`AtPoison`): there it stays, restarted or not. It
assumes that replication makes progress (the MSB replica eventually gets what the MSB has), that
Autobase goes on applying, and that a peer is not restarted every time just before its wait ends.
`ConfirmedIsExecuted` has the same exception and assumes in addition that promises settle and that
the scheduler's timer fires, which `tasks` shows of the scheduler. `ConnectingPeersJoin` assumes
that promises settle, that a message on an open connection arrives and that apply goes on.
`RunsAgain` and `StopWindsDown` assume that timers fire and that a run of the worker settles, one
way or the other. Nothing assumes that the MSB confirms anything, that a client submits again,
that the admin signs, or that anybody starts or stops a task.

### What the violation runs show
- `unpin`: unpinMessage clears the slot it is given and not the one the message is pinned by.
  After pin, unpin, pin, unpin by the first slot the second still says pinned.
- `userread`: the per-user index holds keys (`msg/0`), `getUserMessage` hands them to
  `getMessage`, and `parseInt` of a key is not a number: the getter always returns null.
- `lag`: `Agreement` needs `Delta >= MaxMsb`. The stall guard compares an entry with the peer's
  own replica and drops the entry for good, so a peer that lags by more than the delta
  (1,000,000 by default) ends up with another ledger.
- `overlap`: a simulation whose get is awaited while apply starts an entry writes into apply's
  batch; in the other direction apply's write goes into a simulation's storage or throws. Then
  none of `SimulationLeavesNoTrace`, `StateIsReplay` and `ImplementsReplay` need hold.
  `IsolatedBetweenEntries` still does: the entry apply is in the middle of is what can be spoiled.
- `missed`: the view gets the entry that switches auto-add on between `tryInvite`'s read and its
  `once('append')`. The peer then waits for another append, which in a quiet subnet does not come.

Two things the code does by its own choice need no run: moderation (delete, pin, unpin) has no
guard on `chat_status`, although the terminal says that chat must be enabled; and a transaction
that expired, met a full pool or was in the pool at a restart is not appended when its
confirmation comes, which is why `settle` excludes these.

## 4. The proofs

All theorems hold for every value of the constants that satisfies the named assumptions, which
only say what the constants are (`BoundsAssumption`, `NamesAssumption`, `ApplyAssumption`,
`EntriesAssumption`, `SettlementAssumption`, `ExecAssumption`, `MembershipAssumption`,
`ChainsAssumption`).

- `SubnetState_proofs`: types, and every invariant and action property that `view` checks. The inductive
  invariant is `TypeOK`, the invariants themselves and three strengthenings: `UserCount` (a user's counter
  stays below the chat's), `ChatHasAdmin` (messages, pins and switched-on chat presuppose an
  admin entry; so do privileged users) and `SlotsHold` (a slot below the counter names a message).
  Each part has its own preservation lemma, split by the operations that write its keys.
- `Settlement_proofs`: what the abstract specification is worth. Two peers have the same transaction
  at the same place, each confirmed and listed once (`OneLedger`), and a ledger only grows at its
  end (`Final`).
- `TxApply_proofs`: types; `OnlySettledOnce`; `Agreement`, `LedgerIsWhatIsDue` and the
  implementation of `Settlement`. `Agreement` is not inductive: after an execution the peer ahead
  has nothing that says what the other will find. The proof therefore carries a *history*: there
  are sequences I and X such that I[n] is the ledger and X[n] the switch after n entries, computed
  from the log and the MSB alone, and every peer is on that history. A step of a peer moves it
  along the history; a step of the MSB may extend the history only beyond what is applied.
  `OnlyLagSkipsDisagree` says how far that goes, for any delta: peers disagree only in behaviours
  with a step that skips an entry for the lag of the replica and nothing else (`LagSkip`).
  There is none while no replica lags by more than the delta (`WithinDelta`, a condition on the
  behaviour and not on the constants), and under `[]WithinDelta` the three properties are proved.
  `WithLargeDelta` is the instance the runs check: where `Delta >= MaxMsb` the condition always holds.
  For `LedgerIsWhatIsDue` the invariant says in addition that the switch a peer keeps is what the
  applied prefix of the log leaves on, and that a confirmation an applied entry could refer to
  cannot come later, since the peer waited for its length. The same invariant gives
  `ThrowsStopEveryPeer`: no peer is past an entry that settles a transaction whose function throws,
  so all of them stop at the first such entry. `PeersKeepOneLedger`
  transports the two theorems about `Settlement` along the refinement to what the handler stores.
- `TxSettlement_proofs`: types; `AppendedIsConfirmed` (strengthened by what the observer
  has read); the refinement of `TxApply` step by step; `PoolBound` for finitely many transactions;
  `TransactionsAreKept`, one step per action. With the refinement, what is proved of `TxApply` holds
  of the whole (`SubnetSettles`), and together with `AppendedIsConfirmed` it gives the end-to-end
  result `WhatIsAppendedIsExecuted`: what the observer appends is executed by whoever gets past it.
- `ContractExec_proofs`: types and, whether or not simulations overlap apply,
  `IsolatedBetweenEntries` (`SimulationsMissWhatIsDone`): between entries the instance's storage
  field is never the batch, since the entry that ends clears it. Under `~Overlap`
  `StateIsReplay` and the implementation of `ContractReplay`.
  The inductive invariant says what the batch holds at each await of apply: the replay of the
  entries done, plus the running entry's item after its write. For the refinement it adds
  `NothingSkipped`: no entry whose error leaves apply is among those done. A flush is then the step
  of `ContractReplay`, and `ReplayMoves` says that it is the right one. That `~Overlap` is needed
  is what `overlap` shows; the code does not ensure it.
- `WriterMembership_proofs`: types; `JoinsAreGranted`, from what one entry makes of a view;
  `OnlyAskersAreProposed`, which needs `ProposalInv`: whoever holds a read that said "on" has seen
  it on in a view of its own, and views never go back. `WritersAreJustified` relates every view to
  the whole prefix of the log it came from; its invariant also describes the setting and the used
  signatures of each view by the log, and a grant of a longer prefix is one of the shorter or the
  entry just appended.
- `Scheduler_proofs`: types, `OneRunAtATime`, `StoppedIsQuiet`, and `RunningHasAChain`, the safety
  part of `RunsAgain`, which is stated there and no run checks. The
  invariant is `ChainInv`: without a start during a run there is one chain at most, `timer` or
  `current` names it, and a stop that waits waits for its run. `RunningHasAChain` holds even with
  overlapping starts: a chain ends only once the scheduler is stopped.

Every invariant, action property and refinement that a passing run checks is also proved. Only
model-checked is liveness (`KeepsUp`, `ConfirmedIsExecuted`, `ConnectingPeersJoin`, `RunsAgain`,
`StopWindsDown`), which is beyond the prover; `OnlyLagSkipsDisagree` and `WithinDelta` restrict
behaviours, and no run uses them: the runs have a delta no lag reaches. `NonePassesPoison` is
checked by no run of its own: in `agree` a peer that passed such an entry would violate
`LedgerIsWhatIsDue`.

## 5. Not modelled

Of the API and RPC, reads other than those of messages: they return one key each, without state
of their own. Wallet, configuration and runners hold no protocol state. Validation of schemas and
sizes is abstracted: entries in the models are well-formed. MSB, Autobase, Hyperbee and the swarm
are external and appear as the code in `src/` uses them; Autobase's reordering of entries that
are not settled (undoing and applying again) is left out everywhere. Contract functions that
delete keys, and the random pick of the example contract, are not in `ContractExec`. That `stop`
rejects when the worker throws is recorded as a hazard and not modelled. Neither are the updater's
rounds, whose append of null changes no key, nor `isInterrupted`, which is never reset: a task that
is started again runs rounds that do nothing. Membership is modelled with honest peers: the invited
key is not compared with the connection it comes over.

## 6. Plan

Done: apply, settlement, contract execution, membership, scheduler. What is left:
1. Composition: contract execution inside `TxApply` with batches, so that ledger and contract
   state are one refinement of an abstract replicated state machine.
2. Autobase's reordering of unsettled entries, with the view undone and applied again; then
   roles that change with the order of `WriterMembership`'s entries.
3. `SimStorage.del`, with the read that follows it.
