------------------------------ MODULE TxApply -------------------------------
(***************************************************************************)
(* Applying settled transactions: the `tx' entries of the subnet's log and *)
(* the handler TxOperation.handle that every peer runs on them, each       *)
(* against its own replica of the MSB.                                     *)
(*                                                                         *)
(* The handler is not one step: after its guards it waits until the local  *)
(* MSB replica has the length the entry refers to.  apply takes the log    *)
(* entry by entry, so a peer that waits applies nothing else; what other   *)
(* peers, the MSB and the writers do in the meantime is interleaved.  A    *)
(* peer that stops while it waits begins the entry again: the batch was    *)
(* not flushed.  An error of the contract's function other than an         *)
(* assertion leaves the handler and apply, and nothing catches it: the     *)
(* peer stands at the entry, and comes to it again when it is restarted.   *)
(*                                                                         *)
(* The MSB is external: a signed log that only grows.  Its entries are     *)
(* counted, and confirmedAt says at which length a transaction is in it.   *)
(* Autobase is external too: `log' is the order of the entries it has      *)
(* settled on, and every peer applies it from the start.                   *)
(***************************************************************************)
EXTENDS Naturals, Sequences, FiniteSets

CONSTANTS
  Txs,        \* transactions (their hashes)
  Peers,      \* the peers of the subnet
  Known,      \* the transactions whose type the contract has a handler for
  Throwing,   \* those whose function throws an error other than an assertion's
  Entries,    \* the log entries writers append in this instance
  Delta,      \* config.maxMsbSignedLengthFutureDelta
  MaxSigned,  \* config.maxMsbSignedLength
  MaxMsb,     \* bound: length of the MSB
  MaxLog      \* bound: entries of the subnet's log

ASSUME ApplyAssumption ==
  /\ Known \subseteq Txs /\ Throwing \subseteq Known
  /\ Delta \in Nat /\ MaxSigned \in Nat /\ MaxMsb \in Nat /\ MaxLog \in Nat

VARIABLES
  msbLen,       \* signed length of the MSB itself
  confirmedAt,  \* the MSB length at which a transaction appears; 0: not yet
  local,        \* per peer, the signed length of its MSB replica
  log,          \* the subnet's log
  applied,      \* per peer, the number of entries applied
  waiting,      \* per peer, the handler of the next entry waits for its MSB
  failed,       \* per peer, an error of the next entry left apply
  index,        \* per peer, txi/0 .. txi/<txl - 1> (tx/<key> is its inverse)
  txen          \* per peer, transactions are enabled (absent reads as true)

msbVars   == <<msbLen, confirmedAt>>
peerVars  == <<applied, waiting, failed, index, txen>>
applyVars == <<msbVars, local, log, peerVars>>

Lengths == 0 .. MaxMsb

\* matches: the comparisons with the MSB entry other than that it exists (the
\* transaction hash, both bootstraps, content hash, invoker, validator, size)
\* all succeed.  They compare the entry with itself and with the MSB's, so they
\* have the same outcome at every peer.
Entry == [type : {"tx", "txenOn", "txenOff"}, key : Txs, msbsl : Lengths, matches : BOOLEAN]

ASSUME EntriesAssumption == Entries \subseteq Entry

\* Type correctness.
ApplyTypeOK ==
  /\ msbLen \in Lengths
  /\ confirmedAt \in [Txs -> Lengths]
  /\ local \in [Peers -> Lengths]
  /\ log \in Seq(Entry)
  /\ applied \in [Peers -> Nat]
  /\ waiting \in [Peers -> BOOLEAN]
  /\ failed \in [Peers -> BOOLEAN]
  /\ index \in [Peers -> Seq(Txs)]
  /\ txen \in [Peers -> BOOLEAN]
  /\ \A p \in Peers : applied[p] <= Len(log) /\ local[p] <= msbLen
  /\ \A t \in Txs : confirmedAt[t] <= msbLen

ApplyInit ==
  /\ msbLen = 0
  /\ confirmedAt = [t \in Txs |-> 0]
  /\ local = [p \in Peers |-> 0]
  /\ log = <<>>
  /\ applied = [p \in Peers |-> 0]
  /\ waiting = [p \in Peers |-> FALSE]
  /\ failed = [p \in Peers |-> FALSE]
  /\ index = [p \in Peers |-> <<>>]
  /\ txen = [p \in Peers |-> TRUE]

-----------------------------------------------------------------------------
(* The MSB and its replicas. *)

MsbConfirms(t) ==
  /\ confirmedAt[t] = 0
  /\ msbLen < MaxMsb
  /\ msbLen' = msbLen + 1
  /\ confirmedAt' = [confirmedAt EXCEPT ![t] = msbLen + 1]
  /\ UNCHANGED <<local, log, peerVars>>

\* The MSB serves other subnets too.
MsbGrows ==
  /\ msbLen < MaxMsb
  /\ msbLen' = msbLen + 1
  /\ UNCHANGED <<confirmedAt, local, log, peerVars>>

Replicate(p) ==
  /\ local[p] < msbLen
  /\ local' = [local EXCEPT ![p] = local[p] + 1]
  /\ UNCHANGED <<msbVars, log, peerVars>>

-----------------------------------------------------------------------------
(* The log. *)

\* A writer appends an entry.  The length in it is one the writer's own replica
\* had, so the MSB has it; nothing says that the transaction was confirmed by
\* then, that it is the first entry for it or that it is what MSB confirmed.
AppendEntry(e) ==
  /\ Len(log) < MaxLog
  /\ e.msbsl <= msbLen
  /\ log' = Append(log, e)
  /\ UNCHANGED <<msbVars, local, peerVars>>

-----------------------------------------------------------------------------
(* The handler. *)

HasNext(p) == applied[p] < Len(log)
NextEntry(p) == log[applied[p] + 1]
Indexed(p, t) == \E i \in 1 .. Len(index[p]) : index[p][i] = t

\* The stall guards: an entry that refers to a length beyond the limit, or too
\* far beyond the local replica, is skipped and not waited for.
TooFar(p, e) ==
  \/ e.msbsl > MaxSigned
  \/ local[p] > 0 /\ e.msbsl > local[p] + Delta

\* (Mutants: the handler does not wait for its replica; it waits for one entry
\* too many.)
CaughtUpAtOnce(p, e) == e.msbsl \in Lengths
CaughtUpLate(p, e) == local[p] > e.msbsl
CaughtUp(p, e) == local[p] >= e.msbsl

\* getSignedAtLength(key, msbsl) at p finds the transaction: it is in the MSB
\* at that length, and the replica has that part of the MSB.
ConfirmedIn(p, e) == confirmedAt[e.key] \in 1 .. e.msbsl /\ confirmedAt[e.key] <= local[p]

\* (Mutants: no replay protection; a transaction of another content passes.)
AcceptsAgain(p, e) == ConfirmedIn(p, e) /\ e.matches /\ txen[p] /\ e.key \in Known
AcceptsUnconfirmed(p, e) == e.matches /\ txen[p] /\ ~Indexed(p, e.key) /\ e.key \in Known

\* What must hold for the function to be run.  What it returns, or the assertion
\* it fails, is indexed with the transaction; a type the contract lacks is not.
Accepts(p, e) ==
  /\ ConfirmedIn(p, e)
  /\ e.matches
  /\ txen[p]
  /\ ~Indexed(p, e.key)
  /\ e.key \in Known

\* The function runs and throws an error that is not an assertion's.
Throws(p, e) == Accepts(p, e) /\ e.key \in Throwing

\* The next entry is the handler's to begin.
AtEntry(p) == HasNext(p) /\ ~waiting[p] /\ ~failed[p]

\* (Mutant: a skipped entry takes the next one with it.)
SkipTxAndNext(p) ==
  /\ AtEntry(p)
  /\ NextEntry(p).type = "tx"
  /\ TooFar(p, NextEntry(p))
  /\ applied' = [applied EXCEPT ![p] = applied[p] + 2]
  /\ UNCHANGED <<msbVars, local, log, waiting, failed, index, txen>>

\* The handler returns at its stall guards.
SkipTx(p) ==
  /\ AtEntry(p)
  /\ NextEntry(p).type = "tx"
  /\ TooFar(p, NextEntry(p))
  /\ applied' = [applied EXCEPT ![p] = applied[p] + 1]
  /\ UNCHANGED <<msbVars, local, log, waiting, failed, index, txen>>

\* The handler passes its stall guards and awaits waitForSignedLengthAtLeast.
WaitForMsb(p) ==
  /\ AtEntry(p)
  /\ NextEntry(p).type = "tx"
  /\ ~TooFar(p, NextEntry(p))
  /\ waiting' = [waiting EXCEPT ![p] = TRUE]
  /\ UNCHANGED <<msbVars, local, log, applied, failed, index, txen>>

\* The wait is over: the rest of the handler, where it returns.
ExecuteTx(p) ==
  /\ waiting[p]
  /\ CaughtUp(p, NextEntry(p))
  /\ ~Throws(p, NextEntry(p))
  /\ index' = IF Accepts(p, NextEntry(p))
              THEN [index EXCEPT ![p] = Append(index[p], NextEntry(p).key)]
              ELSE index
  /\ applied' = [applied EXCEPT ![p] = applied[p] + 1]
  /\ waiting' = [waiting EXCEPT ![p] = FALSE]
  /\ UNCHANGED <<msbVars, local, log, failed, txen>>

\* (Mutant: the error ends with its entry, and apply goes on behind it.)
ThrowTxSkips(p) ==
  /\ waiting[p]
  /\ CaughtUp(p, NextEntry(p))
  /\ Throws(p, NextEntry(p))
  /\ applied' = [applied EXCEPT ![p] = applied[p] + 1]
  /\ waiting' = [waiting EXCEPT ![p] = FALSE]
  /\ UNCHANGED <<msbVars, local, log, failed, index, txen>>

\* Contract.execute throws again what is not an assertion's error, and neither
\* the handler nor apply catches it: nothing is indexed, the batch is not
\* flushed, and no entry is applied any more.
ThrowTx(p) ==
  /\ waiting[p]
  /\ CaughtUp(p, NextEntry(p))
  /\ Throws(p, NextEntry(p))
  /\ waiting' = [waiting EXCEPT ![p] = FALSE]
  /\ failed' = [failed EXCEPT ![p] = TRUE]
  /\ UNCHANGED <<msbVars, local, log, applied, index, txen>>

Switched(e) == e.type = "txenOn"

\* enableTransactions, as SubnetState models it; only accepted ones are in the
\* log here.
SwitchTx(p) ==
  /\ AtEntry(p)
  /\ NextEntry(p).type # "tx"
  /\ txen' = [txen EXCEPT ![p] = Switched(NextEntry(p))]
  /\ applied' = [applied EXCEPT ![p] = applied[p] + 1]
  /\ UNCHANGED <<msbVars, local, log, waiting, failed, index>>

\* A peer stops while it waits, or because an error left apply; once it is back
\* it begins the entry again.
RestartApply(p) ==
  /\ waiting[p] \/ failed[p]
  /\ waiting' = [waiting EXCEPT ![p] = FALSE]
  /\ failed' = [failed EXCEPT ![p] = FALSE]
  /\ UNCHANGED <<msbVars, local, log, applied, index, txen>>

Handle(p) == SkipTx(p) \/ WaitForMsb(p) \/ ExecuteTx(p) \/ ThrowTx(p) \/ SwitchTx(p)

ApplyNext ==
  \/ MsbGrows
  \/ \E t \in Txs : MsbConfirms(t)
  \/ \E e \in Entries : AppendEntry(e)
  \/ \E p \in Peers : Replicate(p) \/ Handle(p) \/ RestartApply(p)

ApplySpec == ApplyInit /\ [][ApplyNext]_applyVars

-----------------------------------------------------------------------------
(* Properties. *)

PrefixOf(r, s) == Len(r) <= Len(s) /\ \A i \in 1 .. Len(r) : r[i] = s[i]

\* Every node derives the same state from the same log: of two peers, the one
\* that applied less has executed the beginning of what the other executed, and
\* after the same entries both have transactions enabled or both disabled,
\* however far their MSB replicas are and however often they were restarted.
\* It takes a Delta no replica can lag by: the stall guard looks at the peer's
\* own replica.
Agreement ==
  \A p, q \in Peers :
    /\ applied[p] <= applied[q] => PrefixOf(index[p], index[q])
    /\ applied[p] = applied[q] => txen[p] = txen[q]

\* A peer executes a transaction only once its own replica shows that MSB
\* confirmed it, and never twice, although entries may come too early, come
\* again or differ from what MSB confirmed.
OnlySettledOnce ==
  \A p \in Peers : \A i \in 1 .. Len(index[p]) :
    /\ confirmedAt[index[p][i]] \in 1 .. local[p]
    /\ \A j \in 1 .. Len(index[p]) : index[p][i] = index[p][j] => i = j

\* Transactions are enabled where the i-th entry stands in the log.
EnabledAt(i) ==
  \A j \in 1 .. i - 1 : log[j].type = "txenOff" => \E k \in j + 1 .. i - 1 : log[k].type = "txenOn"

\* By the log and MSB alone, the i-th entry settles its transaction.
Due(i) ==
  /\ log[i].type = "tx" /\ log[i].matches /\ log[i].key \in Known
  /\ log[i].msbsl <= MaxSigned
  /\ confirmedAt[log[i].key] \in 1 .. log[i].msbsl
  /\ EnabledAt(i)

\* An entry that settles a transaction whose function throws.
Poison(i) == Due(i) /\ log[i].key \in Throwing

\* What a peer executed are the transactions that the entries it applied settle:
\* none is missing because the peer's replica was behind when it came to the
\* entry, because an error left apply there or because it was restarted, and
\* none is there for another reason.
LedgerIsWhatIsDue ==
  \A p \in Peers, t \in Txs :
    Indexed(p, t) <=> \E i \in 1 .. applied[p] : log[i].key = t /\ Due(i)

\* The next entry of the peer's throws, now and after every restart.
AtPoison(p) == HasNext(p) /\ Poison(applied[p] + 1)

\* Every peer gets to the end of the log, through the waits for its MSB replica
\* and through restarts, or to the first entry whose function throws an error
\* that leaves apply, where it stays.  Nothing else stops a peer for good.
KeepsUp ==
  \A p \in Peers, n \in 1 .. MaxLog : Len(log) >= n ~> applied[p] >= n \/ AtPoison(p)

\* TxApply implements Settlement: txi/0.. is the ledger.
Promise == INSTANCE Settlement
  WITH confirmed <- {t \in Txs : confirmedAt[t] # 0}, ledger <- index

\* The ledgers peers build from the log and their replicas behave as Settlement
\* promises: confirmed transactions, each once, in one order.
ImplementsSettlement == Promise!Spec
=============================================================================
