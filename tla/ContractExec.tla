---------------------------- MODULE ContractExec ----------------------------
(***************************************************************************)
(* Running contract code: the one Contract instance of a peer, which apply *)
(* and the simulations of the API share.                                   *)
(*                                                                         *)
(* Contract.execute puts the operation and its storage into fields of the  *)
(* instance, calls the contract's function and clears the fields when the  *)
(* function returns.  The function reaches them through `this', at every   *)
(* get, put and field access, so after an await it finds what is there by  *)
(* then.  An action is the code between two awaits of a function that      *)
(* reads the entry of its caller and writes it back with one more item     *)
(* (the shape of dev/tuxemonContract.js).                                  *)
(*                                                                         *)
(* apply runs the entries of the log one after the other on a batch that   *)
(* it flushes after some of them; a crash loses the batch.  A simulation   *)
(* runs on a SimStorage over the flushed view.                             *)
(***************************************************************************)
EXTENDS Naturals, Sequences

CONSTANTS
  Users,    \* callers
  Sims,     \* simulations (calls of protocol.simulateTransaction)
  MaxLog,   \* bound: entries of the log
  Overlap,  \* whether a simulation and apply may run contract code at a time
  None      \* null

\* What an operation's function does: write and return, write and fail an
\* assertion, throw another error before it writes, or not exist at all.
Operation == [kind : {"tx", "msg", "feature"}, by : Users,
              runs : {"ok", "assert", "throw", "unknown"}]

Simulated == {op \in Operation : op.kind = "tx"}

Items == 1 .. MaxLog \cup Sims

ASSUME ExecAssumption ==
  /\ MaxLog \in Nat
  /\ Overlap \in BOOLEAN
  /\ Sims \cap Nat = {}
  /\ None \notin Users \cup Items
  /\ "batch" \notin Sims \cup {None}

VARIABLES
  log,      \* the operations in the order of the log
  view,     \* the flushed view: per caller the stored items; booked entries
  flushed,  \* the number of entries in the view
  batch,    \* apply's batch over the view
  done,     \* the number of entries in the batch
  overlay,  \* per simulation its SimStorage, {} where it holds no value
  this,     \* the fields of the Contract instance
  apply,    \* apply's run of the contract
  sim       \* the runs of the simulations

vars == <<log, view, flushed, batch, done, overlay, this, apply, sim>>

State == [items : [Users -> SUBSET Items], booked : SUBSET Nat]

\* Set by execute, or cleared.
Fields == [storage : {"batch"} \cup Sims, address : Users, value : Items]
            \cup [storage : {None}, address : {None}, value : {None}]

\* pc: before, at the await of get, at the await of put, after; apply is
\* "failed" once an error left it.
Run == [pc : {"read", "written"}, op : Operation, got : SUBSET Items]
         \cup [pc : {"idle", "failed", "done"}, op : {None}, got : {{}}]

\* Type correctness.
TypeOK ==
  /\ log \in Seq(Operation) /\ Len(log) <= MaxLog
  /\ view \in State /\ batch \in State
  /\ flushed \in Nat /\ done \in Nat /\ flushed <= done /\ done <= Len(log)
  /\ overlay \in [Sims -> [Users -> SUBSET Items]]
  /\ this \in Fields
  /\ apply \in Run
  /\ sim \in [Sims -> Run]

Empty == [items |-> [u \in Users |-> {}], booked |-> {}]
NoValues == [u \in Users |-> {}]
Idle == [pc |-> "idle", op |-> None, got |-> {}]

\* (Mutant: value is not cleared but removed.)
ClearedDeletes == [storage |-> None, address |-> None]
\* The fields at the beginning and after a run.
Cleared == [storage |-> None, address |-> None, value |-> None]

Init ==
  /\ log = <<>>
  /\ view = Empty /\ flushed = 0
  /\ batch = Empty /\ done = 0
  /\ overlay = [s \in Sims |-> NoValues]
  /\ this = Cleared
  /\ apply = Idle
  /\ sim = [s \in Sims |-> Idle]

-----------------------------------------------------------------------------
Running(run) == run.pc \in {"read", "written"}
ApplyMayRun == Overlap \/ \A s \in Sims : ~Running(sim[s])
SimMayRun == Overlap \/ ~Running(apply)

\* (Mutant: the batch is read as it was flushed.)
BatchGetFlushed(u) == view.items[u]
BatchGet(u) == batch.items[u]

\* A SimStorage answers with its own value or with the view's.
SimGet(s, u) == IF overlay[s][u] = {} THEN view.items[u] ELSE overlay[s][u]

Extended(st, u, items) == [st EXCEPT !.items = [st.items EXCEPT ![u] = items]]

\* (Mutant: a SimStorage that passes writes on.)
PutThrough(items) ==
  /\ batch' = Extended(batch, this.address, items)
  /\ UNCHANGED overlay

\* The write goes to the storage the instance has by now, to the entry of the
\* caller it has by now.
Put(items) ==
  IF this.storage = "batch"
  THEN /\ batch' = Extended(batch, this.address, items)
       /\ UNCHANGED overlay
  ELSE /\ overlay' = [overlay EXCEPT ![this.storage] = [@ EXCEPT ![this.address] = items]]
       /\ UNCHANGED batch

-----------------------------------------------------------------------------
(* apply: the next entry of the log. *)

Entry == log[done + 1]

AppendEntry(op) ==
  /\ Len(log) < MaxLog
  /\ log' = Append(log, op)
  /\ UNCHANGED <<view, flushed, batch, done, overlay, this, apply, sim>>

\* The errors that leave apply: a feature's assertions do, the others are
\* results.
LeavesApply(op) == op.runs = "throw" \/ (op.kind = "feature" /\ op.runs = "assert")

\* What the handlers do with the result: a transaction is indexed with its
\* error, but not if the contract lacks it; a message is posted and its hash
\* kept only without an error; a feature's hash is kept.
Books(op) ==
  /\ op.kind = "tx" => op.runs # "unknown"
  /\ op.kind = "msg" => op.runs # "assert"

Book(n) == batch' = IF Books(log[n]) THEN [batch EXCEPT !.booked = @ \cup {n}] ELSE batch

\* No function, or no schema it satisfies: all of execute without an await.
ApplyUnknown ==
  /\ apply.pc = "idle" /\ done < Len(log)
  /\ ApplyMayRun
  /\ Entry.runs = "unknown"
  /\ this' = Cleared
  /\ Book(done + 1)
  /\ done' = done + 1
  /\ UNCHANGED <<log, view, flushed, overlay, apply, sim>>

\* execute sets the fields, and the function runs up to its first await.
ApplyBegin ==
  /\ apply.pc = "idle" /\ done < Len(log)
  /\ ApplyMayRun
  /\ Entry.runs # "unknown"
  /\ this' = [storage |-> "batch", address |-> Entry.by, value |-> done + 1]
  /\ apply' = [pc |-> "read", op |-> Entry, got |-> BatchGet(Entry.by)]
  /\ UNCHANGED <<log, view, flushed, batch, done, overlay, sim>>

ApplyWrite ==
  /\ apply.pc = "read"
  /\ apply.op.runs # "throw"
  /\ this.storage # None
  /\ Put(apply.got \cup {this.value})
  /\ apply' = [apply EXCEPT !.pc = "written"]
  /\ UNCHANGED <<log, view, flushed, done, this, sim>>

\* (Mutant: the error ends with the entry, and apply goes on behind it.)
ApplyThrowsSkips ==
  /\ \/ apply.pc = "read" /\ (apply.op.runs = "throw" \/ this.storage = None)
     \/ apply.pc = "written" /\ LeavesApply(apply.op)
  /\ apply' = Idle
  /\ done' = done + 1
  /\ UNCHANGED <<log, view, flushed, batch, overlay, this, sim>>

\* An error leaves apply: the function's own, or put's because the storage is
\* gone.  The fields stay as they are.
ApplyThrows ==
  /\ \/ apply.pc = "read" /\ (apply.op.runs = "throw" \/ this.storage = None)
     \/ apply.pc = "written" /\ LeavesApply(apply.op)
  /\ apply' = [Idle EXCEPT !.pc = "failed"]
  /\ UNCHANGED <<log, view, flushed, batch, done, overlay, this, sim>>

ApplyEnd ==
  /\ apply.pc = "written"
  /\ ~LeavesApply(apply.op)
  /\ this' = Cleared
  /\ Book(done + 1)
  /\ done' = done + 1
  /\ apply' = Idle
  /\ UNCHANGED <<log, view, flushed, overlay, sim>>

\* The nodes Autobase handed to this call of apply are through.
Flush ==
  /\ apply.pc = "idle" /\ flushed < done
  /\ view' = batch
  /\ flushed' = done
  /\ UNCHANGED <<log, batch, done, overlay, this, apply, sim>>

-----------------------------------------------------------------------------
(* Simulations. *)

SimUnknown(s, op) ==
  /\ sim[s].pc = "idle"
  /\ SimMayRun
  /\ op.runs = "unknown"
  /\ this' = Cleared
  /\ sim' = [sim EXCEPT ![s] = [Idle EXCEPT !.pc = "done"]]
  /\ UNCHANGED <<log, view, flushed, batch, done, overlay, apply>>

SimBegin(s, op) ==
  /\ sim[s].pc = "idle"
  /\ SimMayRun
  /\ op.runs # "unknown"
  /\ this' = [storage |-> s, address |-> op.by, value |-> s]
  /\ sim' = [sim EXCEPT ![s] = [pc |-> "read", op |-> op, got |-> SimGet(s, op.by)]]
  /\ UNCHANGED <<log, view, flushed, batch, done, overlay, apply>>

SimWrite(s) ==
  /\ sim[s].pc = "read"
  /\ sim[s].op.runs # "throw"
  /\ this.storage # None
  /\ Put(sim[s].got \cup {this.value})
  /\ sim' = [sim EXCEPT ![s].pc = "written"]
  /\ UNCHANGED <<log, view, flushed, done, this, apply>>

SimThrows(s) ==
  /\ sim[s].pc = "read"
  /\ sim[s].op.runs = "throw" \/ this.storage = None
  /\ sim' = [sim EXCEPT ![s] = [Idle EXCEPT !.pc = "done"]]
  /\ UNCHANGED <<log, view, flushed, batch, done, overlay, this, apply>>

SimEnd(s) ==
  /\ sim[s].pc = "written"
  /\ this' = Cleared
  /\ sim' = [sim EXCEPT ![s] = [Idle EXCEPT !.pc = "done"]]
  /\ UNCHANGED <<log, view, flushed, batch, done, overlay, apply>>

SimStep(s) ==
  \/ \E op \in Simulated : SimUnknown(s, op) \/ SimBegin(s, op)
  \/ SimWrite(s) \/ SimThrows(s) \/ SimEnd(s)

-----------------------------------------------------------------------------
\* The process ends, in the middle of anything or because apply failed, and is
\* started again: what was not flushed is gone, and apply begins again there.
Restart ==
  /\ batch' = view
  /\ done' = flushed
  /\ this' = Cleared
  /\ apply' = Idle
  /\ sim' = [s \in Sims |-> IF sim[s].pc = "idle" THEN Idle ELSE [Idle EXCEPT !.pc = "done"]]
  /\ overlay' = [s \in Sims |-> NoValues]
  /\ UNCHANGED <<log, view, flushed>>

ApplyStep == ApplyUnknown \/ ApplyBegin \/ ApplyWrite \/ ApplyThrows \/ ApplyEnd \/ Flush

Next ==
  \/ \E op \in Operation : AppendEntry(op)
  \/ ApplyStep
  \/ \E s \in Sims : SimStep(s)
  \/ Restart

Spec == Init /\ [][Next]_vars

-----------------------------------------------------------------------------
(* Properties. *)

\* What the log says the state is after its first n entries.  An assertion
\* that fails after a write does not take the write back.
Replay(n) ==
  [items  |-> [u \in Users |-> {i \in 1 .. n : log[i].by = u /\ log[i].runs \in {"ok", "assert"}}],
   booked |-> {i \in 1 .. n : Books(log[i])}]

\* The flushed view is what the log prescribes, item by item: no write is lost,
\* made twice, made under another caller's key or made for an entry that threw,
\* wherever batches end, errors leave apply and the process is restarted, and
\* whatever was simulated.  It holds where simulations keep out of apply's way.
StateIsReplay == view = Replay(flushed)

\* What running the log promises, of the flushed view.
Replayed == INSTANCE ContractReplay
  WITH Storing <- {op \in Operation : op.runs \in {"ok", "assert"}},
       Booking <- {op \in Operation : Books(op)},
       Poison  <- {op \in Operation : LeavesApply(op)}

\* The contract's state moves along the log by whole entries and never past an
\* entry whose error leaves apply: apply ends there on every peer and after
\* every restart, and nothing behind it takes effect.
ImplementsReplay == Replayed!Spec

\* Whether or not simulations overlap apply, what one of them can spoil is the
\* entry apply is in the middle of or failed in: a simulation never writes to the
\* view, and between entries it does not reach the batch, since every entry that
\* ends takes the batch out of the fields again.
IsolatedBetweenEntries ==
  [][\A s \in Sims : SimStep(s) =>
       UNCHANGED view /\ (apply.pc = "idle" => UNCHANGED batch)]_vars

\* "executes the contract against an in-memory storage view": no step of a
\* simulation writes to the view or to apply's batch, however simulations
\* interleave with each other.
SimulationLeavesNoTrace ==
  [][\A s \in Sims : SimStep(s) => UNCHANGED <<view, batch>>]_vars
=============================================================================
