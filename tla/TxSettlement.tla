---------------------------- MODULE TxSettlement ----------------------------
(***************************************************************************)
(* From /tx to the log: one peer, Home, broadcasts transactions to MSB,    *)
(* keeps them in its pool until its MSB replica confirms them, and appends *)
(* the `tx' entries that TxApply applies.                                  *)
(*                                                                         *)
(* Two kinds of concurrent activities share the pool: the calls of         *)
(* Protocol.broadcastTransaction (terminal, API) and the rounds of the     *)
(* TransactionObserver.  JavaScript runs each of them alone up to its next *)
(* await, so an action is the code between two awaits, and a `pc' says     *)
(* which await an activity is at.  Pool, calls and rounds live in memory:  *)
(* a restart loses them and keeps the log, the views and the MSB replica.  *)
(*                                                                         *)
(* A call is given the transaction it carries; the API lets a client       *)
(* submit one transaction more than once (surrogate), so several calls may *)
(* carry the same one.                                                     *)
(***************************************************************************)
EXTENDS TxApply

CONSTANTS
  Home,      \* the peer that submits
  Calls,     \* calls of broadcastTransaction
  Switches,  \* enableTransactions entries the admin appends in this instance
  PoolMax,   \* config.txPoolMaxSize
  MaxDelay,  \* config.maxTxDelay, in ticks
  MaxTime,   \* bound: the clock
  Faults,    \* which of "restart" and "revoke" may happen, each once
  None       \* not in the pool

ASSUME SettlementAssumption ==
  /\ Home \in Peers
  /\ PoolMax \in Nat /\ MaxDelay \in Nat /\ MaxTime \in Nat
  /\ Faults \subseteq {"restart", "revoke"}
  /\ None \notin Nat
  /\ Switches \subseteq Entries
  /\ \A e \in Switches : e.type # "tx"
  /\ \A t \in Txs, len \in Lengths :
       [type |-> "tx", key |-> t, msbsl |-> len, matches |-> TRUE] \in Entries

VARIABLES
  clock,     \* Date.now() in units of maxTxDelay
  call,      \* per call: where it is and the transaction it carries
  sent,      \* transactions handed to the MSB's validators
  pool,      \* per transaction: entry.ts, or None
  observer,  \* the observer's round
  writable,  \* Home is a writer of the subnet
  faults     \* the faults still to come

submitVars == <<clock, call, sent, pool, observer, writable, faults>>
vars == <<applyVars, submitVars>>

Times == 0 .. MaxTime
Pooled == {t \in Txs : pool[t] # None}

\* Between rounds.
Idle == [pc |-> "idle", ts |-> 0, todo |-> {}, tx |-> None, msbsl |-> 0]

Rounds == [pc : {"idle", "round", "reading", "appending"}, ts : Times, todo : SUBSET Txs,
           tx : Txs \cup {None}, msbsl : Lengths]

\* Type correctness.
TypeOK ==
  /\ ApplyTypeOK
  /\ clock \in Times
  /\ call \in [Calls -> [pc : {"new", "validating", "sending", "done"}, tx : Txs \cup {None}]]
  /\ sent \subseteq Txs
  /\ pool \in [Txs -> Times \cup {None}]
  /\ observer \in Rounds
  /\ writable \in BOOLEAN
  /\ faults \subseteq Faults

Init ==
  /\ ApplyInit
  /\ clock = 0
  /\ call = [c \in Calls |-> [pc |-> "new", tx |-> None]]
  /\ sent = {}
  /\ pool = [t \in Txs |-> None]
  /\ observer = Idle
  /\ writable = TRUE
  /\ faults = Faults

-----------------------------------------------------------------------------
(* broadcastTransaction. *)

Proceed(c, pc, t) == call' = [call EXCEPT ![c] = [pc |-> pc, tx |-> t]]

\* The checks at the start: transactions enabled in Home's view, Home a writer
\* (the callers look).  Then the call prepares and validates its payload, which
\* takes several awaits.
BeginCall(c, t) ==
  /\ call[c].pc = "new"
  /\ txen[Home]
  /\ writable
  /\ Proceed(c, "validating", t)
  /\ UNCHANGED <<applyVars, clock, sent, pool, observer, writable, faults>>

\* The MSB's validation throws.
RejectCall(c) ==
  /\ call[c].pc = "validating"
  /\ Proceed(c, "done", None)
  /\ UNCHANGED <<applyVars, clock, sent, pool, observer, writable, faults>>

\* The payload goes out to a validator, and the call awaits the answer.
SendTx(c) ==
  /\ call[c].pc = "validating"
  /\ Proceed(c, "sending", call[c].tx)
  /\ sent' = sent \cup {call[c].tx}
  /\ UNCHANGED <<applyVars, clock, pool, observer, writable, faults>>

\* (Mutant: full only beyond one more.)
IsNotFullByTwo == Cardinality(Pooled) <= PoolMax + 1
IsNotFull == Cardinality(Pooled) <= PoolMax

\* The answer is there, yes or no (it is not looked at, and a transaction whose
\* broadcast "failed" may still be confirmed): the pool takes the transaction
\* if there is room and it is not in it.
ReturnCall(c) ==
  LET t == call[c].tx IN
  /\ call[c].pc = "sending"
  /\ pool' = IF IsNotFull /\ t \notin Pooled THEN [pool EXCEPT ![t] = clock] ELSE pool
  /\ Proceed(c, "done", None)
  /\ UNCHANGED <<applyVars, clock, sent, observer, writable, faults>>

-----------------------------------------------------------------------------
(* The observer. *)

\* The scheduler's timer fires.  A round with an empty pool does nothing.
BeginRound ==
  /\ observer.pc = "idle"
  /\ Pooled # {}
  /\ observer' = [Idle EXCEPT !.pc = "round", !.ts = clock, !.todo = Pooled]
  /\ UNCHANGED <<applyVars, clock, call, sent, pool, writable, faults>>

Expired(t) == observer.ts - pool[t] > MaxDelay

\* The loop visits the transactions that were in the pool when it started and
\* still are.
Visits(t) == observer.pc = "round" /\ t \in observer.todo \cap Pooled

DropExpired(t) ==
  /\ Visits(t)
  /\ Expired(t)
  /\ pool' = [pool EXCEPT ![t] = None]
  /\ observer' = [observer EXCEPT !.todo = observer.todo \ {t}]
  /\ UNCHANGED <<applyVars, clock, call, sent, writable, faults>>

\* The length of the replica is taken before the await.
ReadMsb(t) ==
  /\ Visits(t)
  /\ ~Expired(t)
  /\ observer' = [observer EXCEPT !.pc = "reading", !.todo = observer.todo \ {t},
                                  !.tx = t, !.msbsl = local[Home]]
  /\ UNCHANGED <<applyVars, clock, call, sent, pool, writable, faults>>

\* (Mutants: the newest state of the replica answers, not the one at msbsl; the
\* last entry of the replica is left out.)
FoundNow(t, len) == confirmedAt[t] \in 1 .. local[Home]
FoundLate(t, len) == confirmedAt[t] \in 1 .. len - 1
Found(t, len) == confirmedAt[t] \in 1 .. len

\* (Mutant: what is not confirmed yet leaves the pool as well.)
NotConfirmedDrops ==
  /\ observer.pc = "reading"
  /\ ~Found(observer.tx, observer.msbsl)
  /\ pool' = [pool EXCEPT ![observer.tx] = None]
  /\ observer' = [observer EXCEPT !.pc = "round", !.tx = None, !.msbsl = 0]
  /\ UNCHANGED <<applyVars, clock, call, sent, writable, faults>>

NotConfirmed ==
  /\ observer.pc = "reading"
  /\ ~Found(observer.tx, observer.msbsl)
  /\ observer' = [observer EXCEPT !.pc = "round", !.tx = None, !.msbsl = 0]
  /\ UNCHANGED <<applyVars, clock, call, sent, pool, writable, faults>>

\* The transaction leaves the pool, and then its entry is appended.
TakeConfirmed ==
  /\ observer.pc = "reading"
  /\ Found(observer.tx, observer.msbsl)
  /\ pool' = [pool EXCEPT ![observer.tx] = None]
  /\ observer' = [observer EXCEPT !.pc = "appending"]
  /\ UNCHANGED <<applyVars, clock, call, sent, writable, faults>>

\* The entry of a confirmed transaction; the pool's dispatch is what was sent.
\* (Mutant: an entry without what the handler compares.)
TxEntryBare(t, len) == [type |-> "tx", key |-> t, msbsl |-> len]
TxEntry(t, len) == [type |-> "tx", key |-> t, msbsl |-> len, matches |-> TRUE]

AppendTx ==
  /\ observer.pc = "appending"
  /\ writable
  /\ AppendEntry(TxEntry(observer.tx, observer.msbsl))
  /\ observer' = [observer EXCEPT !.pc = "round", !.tx = None, !.msbsl = 0]
  /\ UNCHANGED <<clock, call, sent, pool, writable, faults>>

\* base.append throws at a peer that is not a writer any more, and may throw at
\* one whose apply failed.  The error ends the round; the scheduler catches it
\* and goes on.
AppendThrows ==
  /\ observer.pc = "appending"
  /\ ~writable \/ failed[Home]
  /\ observer' = Idle
  /\ UNCHANGED <<applyVars, clock, call, sent, pool, writable, faults>>

EndRound ==
  /\ observer.pc = "round"
  /\ observer.todo \cap Pooled = {}
  /\ observer' = Idle
  /\ UNCHANGED <<applyVars, clock, call, sent, pool, writable, faults>>

Observe ==
  \/ BeginRound \/ NotConfirmed \/ TakeConfirmed \/ AppendTx \/ AppendThrows \/ EndRound
  \/ \E t \in Txs : DropExpired(t) \/ ReadMsb(t)

-----------------------------------------------------------------------------
(* What happens around them. *)

Tick ==
  /\ clock < MaxTime
  /\ clock' = clock + 1
  /\ UNCHANGED <<applyVars, call, sent, pool, observer, writable, faults>>

\* (Mutant: the entry that was waited for is taken for applied.)
RestartHomeSkips ==
  /\ "restart" \in faults
  /\ faults' = faults \ {"restart"}
  /\ pool' = [t \in Txs |-> None]
  /\ call' = [c \in Calls |-> IF call[c].pc = "new" THEN call[c] ELSE [pc |-> "done", tx |-> None]]
  /\ observer' = Idle
  /\ applied' = [applied EXCEPT ![Home] = IF waiting[Home] THEN @ + 1 ELSE @]
  /\ waiting' = [waiting EXCEPT ![Home] = FALSE]
  /\ failed' = [failed EXCEPT ![Home] = FALSE]
  /\ UNCHANGED <<msbVars, local, log, index, txen, clock, sent, writable>>

\* The process of Home ends (a crash, or close, which waits for nobody) and is
\* started again.
RestartHome ==
  /\ "restart" \in faults
  /\ faults' = faults \ {"restart"}
  /\ pool' = [t \in Txs |-> None]
  /\ call' = [c \in Calls |-> IF call[c].pc = "new" THEN call[c] ELSE [pc |-> "done", tx |-> None]]
  /\ observer' = Idle
  /\ waiting' = [waiting EXCEPT ![Home] = FALSE]
  /\ failed' = [failed EXCEPT ![Home] = FALSE]
  /\ UNCHANGED <<msbVars, local, log, applied, index, txen, clock, sent, writable>>

\* An admin's removeWriter takes Home's writer role.
Revoke ==
  /\ "revoke" \in faults
  /\ faults' = faults \ {"revoke"}
  /\ writable' = FALSE
  /\ UNCHANGED <<applyVars, clock, call, sent, pool, observer>>

\* Of the transactions here, MSB confirms the ones that were sent.  Other peers
\* stop and come back as Home does, at any time.
Environment ==
  \/ MsbGrows
  \/ \E t \in sent : MsbConfirms(t)
  \/ \E e \in Switches : AppendEntry(e)
  \/ \E p \in Peers : Replicate(p) \/ Handle(p)
  \/ \E p \in Peers \ {Home} : RestartApply(p)

Next ==
  \/ \E c \in Calls : RejectCall(c) \/ SendTx(c) \/ ReturnCall(c) \/ \E t \in Txs : BeginCall(c, t)
  \/ Observe
  \/ Tick \/ RestartHome \/ Revoke
  \/ Environment /\ UNCHANGED submitVars

Spec == Init /\ [][Next]_vars

\* Promises settle, the scheduler's timer fires, replicas catch up and apply
\* goes on as long as there is something it can do.  A peer may be restarted
\* again and again while it waits, but not every time before its wait is over.
\* Nothing makes MSB confirm.
Fairness ==
  /\ \A c \in Calls : WF_vars(ReturnCall(c)) /\ WF_vars(SendTx(c) \/ RejectCall(c))
  /\ WF_vars(Observe)
  /\ \A p \in Peers : WF_vars(Replicate(p) /\ UNCHANGED submitVars)
                      /\ WF_vars(Handle(p) /\ UNCHANGED submitVars)
                      /\ SF_vars(ExecuteTx(p) /\ UNCHANGED submitVars)

FairSpec == Spec /\ Fairness

-----------------------------------------------------------------------------
(* Properties. *)

\* The pool never holds more than one transaction beyond txPoolMaxSize, however
\* many calls return at the same time: the check and the insertion are not
\* separated by an await.
PoolBound == Cardinality(Pooled) <= PoolMax + 1

\* Whatever the observer appends can be verified by every peer from the length
\* in the entry alone: MSB had confirmed the transaction at that length.
AppendedIsConfirmed ==
  \A i \in 1 .. Len(log) :
    log[i].type = "tx" => confirmedAt[log[i].key] \in 1 .. log[i].msbsl

\* Every peer that is past an entry of the observer executed its transaction, if
\* the contract has it, the entry is within the limit and transactions were
\* enabled there: what was confirmed when it was appended is found again by
\* every peer, against its own replica.
AppendedIsExecuted ==
  \A p \in Peers : \A i \in 1 .. applied[p] :
    log[i].type = "tx" /\ log[i].key \in Known /\ log[i].msbsl <= MaxSigned /\ EnabledAt(i)
      => Indexed(p, log[i].key)

\* When MSB confirms a transaction, the subnet appends its entry and every peer
\* executes it, whatever the broadcast answered; but a peer that came to an entry
\* whose function throws executes nothing behind it, at any time.
ConfirmedIsExecuted ==
  \A t \in Txs, p \in Peers : (confirmedAt[t] # 0) ~> Indexed(p, t) \/ AtPoison(p)

\* Home holds a transaction: a call awaits the answer to its broadcast, the pool
\* has it, the observer is about to append its entry, or the entry is in the log.
Appended(t) == \E i \in 1 .. Len(log) : log[i].type = "tx" /\ log[i].key = t
Held(t) ==
  \/ \E c \in Calls : call[c].pc = "sending" /\ call[c].tx = t
  \/ pool[t] # None
  \/ observer.pc = "appending" /\ observer.tx = t
  \/ Appended(t)

\* Home never lets go of a transaction it broadcast but where the code gives up:
\* it expired in the pool, the pool was full when the last call with it
\* returned, the log refused its entry (Home lost its writer role or its apply
\* failed), or its process ended.  In particular the hand-over from call to pool,
\* from pool to observer and from observer to log loses nothing, whatever
\* interleaves with it, and an appended entry is for ever.
TransactionsAreKept ==
  [][\A t \in Txs : Held(t) /\ ~Held(t)' =>
       \/ DropExpired(t) \/ AppendThrows \/ RestartHome
       \/ ~IsNotFull /\ \E c \in Calls : ReturnCall(c)]_vars

\* Home and its calls, pool and observer are a writer TxApply allows for, so
\* what holds there holds here.
ImplementsApply == ApplySpec
=============================================================================
