------------------------ MODULE ContractExec_proofs -------------------------
(***************************************************************************)
(* Proofs about ContractExec, for any number of callers, entries and       *)
(* simulations: the types, and what simulations cannot reach, wherever     *)
(* they overlap apply; that the flushed view is the replay of the log,     *)
(* where simulations and apply do not run contract code at the same time.  *)
(***************************************************************************)
EXTENDS ContractExec, TLAPS

\* What apply's batch and the fields of the instance are at each of its awaits.
BatchInv ==
  /\ apply.pc \in {"idle", "read"} => batch = Replay(done)
  /\ Running(apply) =>
       /\ done < Len(log)
       /\ apply.op = log[done + 1]
       /\ apply.op.runs # "unknown"
       /\ this = [storage |-> "batch", address |-> apply.op.by, value |-> done + 1]
       /\ \A s \in Sims : ~Running(sim[s])
  /\ apply.pc = "read" => apply.got = batch.items[apply.op.by]
  /\ apply.pc = "written" =>
       /\ apply.op.runs # "throw"
       /\ batch = Extended(Replay(done), apply.op.by,
                           Replay(done).items[apply.op.by] \cup {done + 1})

\* While a simulation runs, the instance does not hold apply's storage.
SimInv == \A s \in Sims : Running(sim[s]) => this.storage # "batch"

-----------------------------------------------------------------------------
(* Types. *)

\* Fields that are set hold a caller and an item.
LEMMA SetFields ==
  ASSUME TypeOK, this.storage # None
  PROVE  /\ this.storage \in {"batch"} \cup Sims
         /\ this.address \in Users /\ this.value \in Items
BY DEF TypeOK, Fields

\* A state with another set of items for a caller.
LEMMA ExtendedType ==
  ASSUME NEW st \in State, NEW u \in Users, NEW items \in SUBSET Items
  PROVE  /\ Extended(st, u, items) \in State
         /\ Extended(st, u, items).booked = st.booked
         /\ Extended(st, u, items).items = [st.items EXCEPT ![u] = items]
BY DEF State, Extended

\* A put writes a set of items for a caller, wherever it goes.
LEMMA PutType ==
  ASSUME TypeOK, this.storage # None, NEW items \in SUBSET Items, Put(items)
  PROVE  batch' \in State /\ overlay' \in [Sims -> [Users -> SUBSET Items]]
<1>1. CASE this.storage = "batch"
  <2>1. this.address \in Users
    BY SetFields
  <2>2. batch' = Extended(batch, this.address, items) /\ overlay' = overlay
    BY <1>1 DEF Put
  <2>3. batch \in State
    BY DEF TypeOK
  <2>4. Extended(batch, this.address, items) \in State
    BY <2>1, <2>3, ExtendedType
  <2> QED
    BY <2>2, <2>4 DEF TypeOK
<1>2. CASE this.storage # "batch"
  <2>1. this.storage \in Sims /\ this.address \in Users
    BY <1>2, SetFields
  <2> DEFINE new == [overlay[this.storage] EXCEPT ![this.address] = items]
  <2>2. new \in [Users -> SUBSET Items]
    BY <2>1 DEF TypeOK
  <2>3. overlay' = [overlay EXCEPT ![this.storage] = new] /\ batch' = batch
    BY <1>2 DEF Put
  <2> HIDE DEF new
  <2> QED
    BY <2>1, <2>2, <2>3 DEF TypeOK
<1> QED
  BY <1>1, <1>2

\* Booking an entry.
LEMMA BookEffect ==
  ASSUME batch \in State, NEW n \in Nat, Book(n)
  PROVE  /\ batch' \in State
         /\ batch'.items = batch.items
         /\ batch'.booked = IF Books(log[n]) THEN batch.booked \cup {n} ELSE batch.booked
<1>1. CASE Books(log[n])
  <2>1. batch' = [batch EXCEPT !.booked = batch.booked \cup {n}]
    BY <1>1 DEF Book
  <2> QED
    BY <1>1, <2>1 DEF State
<1>2. CASE ~Books(log[n])
  BY <1>2 DEF Book
<1> QED
  BY <1>1, <1>2

\* A simulation reads a set of items.
LEMMA SimGetType ==
  ASSUME TypeOK, NEW s \in Sims, NEW u \in Users
  PROVE  SimGet(s, u) \in SUBSET Items
BY DEF TypeOK, SimGet, State

\* Cleared fields and finished runs are typed.
LEMMA ConstantsType ==
  Cleared \in Fields /\ Idle \in Run /\ [Idle EXCEPT !.pc = "done"] \in Run
    /\ [Idle EXCEPT !.pc = "failed"] \in Run
BY DEF Cleared, Fields, Idle, Run

\* The steps of apply keep the types.
LEMMA ApplyStepType ==
  ASSUME TypeOK, ApplyStep, Running(apply) => done < Len(log)
  PROVE  TypeOK'
<1> USE ExecAssumption
<1>1. CASE ApplyUnknown
  <2>1. batch' \in State
    <3>1. batch \in State /\ done + 1 \in Nat /\ Book(done + 1)
      BY <1>1 DEF ApplyUnknown, TypeOK
    <3> QED
      BY <3>1, BookEffect
  <2> QED
    BY <1>1, <2>1, ConstantsType DEF ApplyUnknown, TypeOK
<1>2. CASE ApplyBegin
  <2>1. Entry \in Operation /\ done + 1 \in Items
    BY <1>2 DEF ApplyBegin, Entry, TypeOK, Items
  <2>2. BatchGet(Entry.by) \in SUBSET Items /\ Entry.by \in Users
    BY <2>1 DEF BatchGet, TypeOK, State, Operation
  <2>3. this' \in Fields
    BY <1>2, <2>1, <2>2 DEF ApplyBegin, Fields
  <2>4. apply' \in Run
    BY <1>2, <2>1, <2>2 DEF ApplyBegin, Run
  <2> QED
    BY <1>2, <2>3, <2>4 DEF ApplyBegin, TypeOK
<1>3. CASE ApplyWrite
  <2>1. apply.got \cup {this.value} \in SUBSET Items
    BY <1>3, SetFields DEF ApplyWrite, TypeOK, Run
  <2>2. batch' \in State /\ overlay' \in [Sims -> [Users -> SUBSET Items]]
    BY <1>3, <2>1, PutType DEF ApplyWrite
  <2>3. apply' \in Run
    BY <1>3 DEF ApplyWrite, TypeOK, Run
  <2> QED
    BY <1>3, <2>2, <2>3 DEF ApplyWrite, TypeOK
<1>4. CASE ApplyThrows
  BY <1>4, ConstantsType DEF ApplyThrows, TypeOK
<1>5. CASE ApplyEnd
  <2>1. batch' \in State
    <3>1. batch \in State /\ done + 1 \in Nat /\ Book(done + 1)
      BY <1>5 DEF ApplyEnd, TypeOK
    <3> QED
      BY <3>1, BookEffect
  <2> QED
    BY <1>5, <2>1, ConstantsType DEF ApplyEnd, Running, TypeOK
<1>6. CASE Flush
  BY <1>6 DEF Flush, TypeOK
<1> QED
  BY <1>1, <1>2, <1>3, <1>4, <1>5, <1>6 DEF ApplyStep

\* The steps of a simulation keep the types.
LEMMA SimStepType ==
  ASSUME TypeOK, NEW s \in Sims, SimStep(s)
  PROVE  TypeOK'
<1> USE ExecAssumption
<1>1. ASSUME NEW op \in Simulated, SimUnknown(s, op)
      PROVE  TypeOK'
  BY <1>1, ConstantsType DEF SimUnknown, TypeOK
<1>2. ASSUME NEW op \in Simulated, SimBegin(s, op)
      PROVE  TypeOK'
  <2>1. op \in Operation /\ op.by \in Users /\ s \in Items
    BY DEF Simulated, Operation, Items
  <2>2. SimGet(s, op.by) \in SUBSET Items
    BY <2>1, SimGetType
  <2>3. this' \in Fields
    BY <1>2, <2>1 DEF SimBegin, Fields
  <2>4. [pc |-> "read", op |-> op, got |-> SimGet(s, op.by)] \in Run
    BY <2>1, <2>2 DEF Run
  <2> QED
    BY <1>2, <2>3, <2>4 DEF SimBegin, TypeOK
<1>3. CASE SimWrite(s)
  <2>1. sim[s].got \cup {this.value} \in SUBSET Items
    BY <1>3, SetFields DEF SimWrite, TypeOK, Run
  <2>2. batch' \in State /\ overlay' \in [Sims -> [Users -> SUBSET Items]]
    BY <1>3, <2>1, PutType DEF SimWrite
  <2>3. [sim[s] EXCEPT !.pc = "written"] \in Run
    BY <1>3 DEF SimWrite, TypeOK, Run
  <2>4. sim' = [sim EXCEPT ![s] = [sim[s] EXCEPT !.pc = "written"]]
    BY <1>3 DEF SimWrite
  <2> QED
    BY <1>3, <2>2, <2>3, <2>4 DEF SimWrite, TypeOK
<1>4. CASE SimThrows(s)
  BY <1>4, ConstantsType DEF SimThrows, TypeOK
<1>5. CASE SimEnd(s)
  BY <1>5, ConstantsType DEF SimEnd, TypeOK
<1> QED
  BY <1>1, <1>2, <1>3, <1>4, <1>5 DEF SimStep

\* A restart keeps the types.
LEMMA RestartType ==
  ASSUME TypeOK, Restart
  PROVE  TypeOK'
<1>1. NoValues \in [Users -> SUBSET Items]
  BY DEF NoValues
<1>2. overlay' \in [Sims -> [Users -> SUBSET Items]]
  BY <1>1 DEF Restart
<1>3. sim' \in [Sims -> Run]
  BY ConstantsType DEF Restart
<1> QED
  BY <1>2, <1>3, ConstantsType DEF Restart, TypeOK

\* So does an entry that comes to the log.
LEMMA AppendType ==
  ASSUME TypeOK, NEW op \in Operation, AppendEntry(op)
  PROVE  /\ TypeOK'
         /\ Len(log') = Len(log) + 1
         /\ \A i \in 1 .. Len(log) : log'[i] = log[i]
<1>1. /\ log' \in Seq(Operation) /\ Len(log') = Len(log) + 1
      /\ \A i \in 1 .. Len(log) : log'[i] = log[i]
  BY DEF AppendEntry, TypeOK
<1> QED
  BY <1>1, ExecAssumption DEF AppendEntry, TypeOK

-----------------------------------------------------------------------------
(* The replay of the log. *)

\* One entry more.
LEMMA ReplayNext ==
  ASSUME NEW n \in Nat, n < Len(log), log \in Seq(Operation)
  PROVE  /\ log[n + 1].runs \in {"ok", "assert"} =>
              Replay(n + 1).items =
                [Replay(n).items EXCEPT
                   ![log[n + 1].by] = Replay(n).items[log[n + 1].by] \cup {n + 1}]
         /\ log[n + 1].runs \notin {"ok", "assert"} => Replay(n + 1).items = Replay(n).items
         /\ Replay(n + 1).booked =
              IF Books(log[n + 1]) THEN Replay(n).booked \cup {n + 1} ELSE Replay(n).booked
<1>1. 1 .. n + 1 = 1 .. n \cup {n + 1} /\ n + 1 \in 1 .. Len(log) /\ n + 1 \notin 1 .. n
  OBVIOUS
<1>2. log[n + 1] \in Operation
  BY <1>1
<1> DEFINE E(k, u) == {i \in 1 .. k : log[i].by = u /\ log[i].runs \in {"ok", "assert"}}
<1> DEFINE In(k) == [u \in Users |-> E(k, u)]
<1>3. Replay(n).items = In(n) /\ Replay(n + 1).items = In(n + 1)
  BY DEF Replay
<1>4. ASSUME log[n + 1].runs \in {"ok", "assert"}
      PROVE  Replay(n + 1).items =
               [Replay(n).items EXCEPT
                  ![log[n + 1].by] = Replay(n).items[log[n + 1].by] \cup {n + 1}]
  <2>1. \A u \in Users : E(n + 1, u) = IF u = log[n + 1].by THEN E(n, u) \cup {n + 1} ELSE E(n, u)
    BY <1>1, <1>4
  <2>2. log[n + 1].by \in Users
    BY <1>2 DEF Operation
  <2> HIDE DEF E
  <2>3. In(n + 1) = [In(n) EXCEPT ![log[n + 1].by] = In(n)[log[n + 1].by] \cup {n + 1}]
    BY <2>1, <2>2
  <2> QED
    BY <1>3, <2>3
<1>5. ASSUME log[n + 1].runs \notin {"ok", "assert"}
      PROVE  Replay(n + 1).items = Replay(n).items
  <2>1. \A u \in Users : E(n + 1, u) = E(n, u)
    BY <1>1, <1>5
  <2> HIDE DEF E
  <2>2. In(n + 1) = In(n)
    BY <2>1
  <2> QED
    BY <1>3, <2>2
<1>6. Replay(n + 1).booked =
        IF Books(log[n + 1]) THEN Replay(n).booked \cup {n + 1} ELSE Replay(n).booked
  BY <1>1 DEF Replay
<1> QED
  BY <1>4, <1>5, <1>6

\* It is typed.
LEMMA ReplayType ==
  ASSUME NEW n \in Nat, n <= Len(log), log \in Seq(Operation), Len(log) <= MaxLog
  PROVE  Replay(n) \in State
<1>1. 1 .. n \subseteq Items /\ 1 .. n \subseteq Nat
  BY ExecAssumption DEF Items
<1> QED
  BY <1>1 DEF Replay, State

\* States with the same parts are the same.
LEMMA SameState ==
  ASSUME NEW r \in State, NEW t \in State, r.items = t.items, r.booked = t.booked
  PROVE  r = t
BY DEF State

-----------------------------------------------------------------------------
\* The inductive invariant: the flushed view is the replay, and what apply's
\* batch holds on the way to the next flush.
EInv == TypeOK /\ StateIsReplay /\ BatchInv /\ SimInv

\* While the log stays, so does its replay.
LEMMA ReplayFrame ==
  ASSUME log' = log
  PROVE  Replay(done)' = Replay(done') /\ Replay(flushed)' = Replay(flushed')
BY DEF Replay

\* The steps of apply keep the replay.
LEMMA ApplyStepInv ==
  ASSUME EInv, ~Overlap, ApplyStep
  PROVE  StateIsReplay' /\ BatchInv' /\ SimInv'
<1>0. /\ log' = log
      /\ Replay(done)' = Replay(done') /\ Replay(flushed)' = Replay(flushed')
  <2>1. log' = log
    BY DEF ApplyStep, ApplyUnknown, ApplyBegin, ApplyWrite, ApplyThrows, ApplyEnd, Flush
  <2> QED
    BY <2>1, ReplayFrame
<1>t. /\ log \in Seq(Operation) /\ Len(log) <= MaxLog /\ done \in Nat /\ batch \in State
      /\ flushed \in Nat /\ done <= Len(log)
  BY DEF EInv, TypeOK
<1>p. Replay(done) \in State
  BY <1>t, ReplayType
<1>1. CASE ApplyUnknown
  <2>1. done + 1 \in Nat /\ done + 1 <= Len(log) /\ Book(done + 1) /\ batch = Replay(done)
    BY <1>1, <1>t DEF ApplyUnknown, EInv, BatchInv
  <2>2. log[done + 1].runs \notin {"ok", "assert"}
    BY <1>1 DEF ApplyUnknown, Entry
  <2>3. Replay(done + 1) \in State
    BY <1>t, <2>1, ReplayType
  <2>4. /\ Replay(done + 1).items = batch.items
        /\ Replay(done + 1).booked =
             IF Books(log[done + 1]) THEN batch.booked \cup {done + 1} ELSE batch.booked
    BY <1>1, <1>t, <2>1, <2>2, ReplayNext DEF ApplyUnknown
  <2>5. /\ batch' \in State /\ batch'.items = batch.items
        /\ batch'.booked =
             IF Books(log[done + 1]) THEN batch.booked \cup {done + 1} ELSE batch.booked
    BY <1>t, <2>1, BookEffect
  <2>6. batch' = Replay(done + 1)
    BY <2>3, <2>4, <2>5, SameState
  <2>7. this'.storage # "batch"
    BY <1>1, ExecAssumption DEF ApplyUnknown, Cleared
  <2>8. /\ UNCHANGED <<view, flushed, apply, sim>> /\ done' = done + 1 /\ apply.pc = "idle"
    BY <1>1 DEF ApplyUnknown
  <2> QED
    BY <1>0, <2>6, <2>7, <2>8 DEF EInv, StateIsReplay, BatchInv, SimInv, Running
<1>2. CASE ApplyBegin
  <2>1. apply' = [pc |-> "read", op |-> Entry, got |-> batch.items[Entry.by]]
    BY <1>2 DEF ApplyBegin, BatchGet
  <2>2. \A s \in Sims : ~Running(sim[s])
    BY <1>2 DEF ApplyBegin, ApplyMayRun
  <2>3. /\ batch = Replay(done) /\ done < Len(log) /\ Entry.runs # "unknown"
        /\ this' = [storage |-> "batch", address |-> Entry.by, value |-> done + 1]
        /\ UNCHANGED <<view, flushed, batch, done, sim>>
    BY <1>2 DEF ApplyBegin, EInv, BatchInv
  <2> QED
    BY <1>0, <2>1, <2>2, <2>3 DEF EInv, StateIsReplay, BatchInv, SimInv, Running, Entry
<1>3. CASE ApplyWrite
  <2>1. /\ this = [storage |-> "batch", address |-> apply.op.by, value |-> done + 1]
        /\ apply.got = batch.items[apply.op.by] /\ batch = Replay(done)
        /\ apply.op = log[done + 1] /\ done < Len(log)
    BY <1>3 DEF ApplyWrite, EInv, BatchInv, Running
  <2>2. batch' = Extended(batch, apply.op.by, apply.got \cup {done + 1})
    BY <1>3, <2>1 DEF ApplyWrite, Put
  <2>3. /\ apply'.pc = "written" /\ apply'.op = apply.op /\ apply.op.runs # "throw"
        /\ UNCHANGED <<view, flushed, done, this, sim>>
    BY <1>3 DEF ApplyWrite, EInv, TypeOK, Run
  <2>4. /\ \A s \in Sims : ~Running(sim[s])
        /\ apply.op.runs # "unknown"
    BY <1>3 DEF ApplyWrite, EInv, BatchInv, Running
  <2> QED
    BY <1>0, <2>1, <2>2, <2>3, <2>4 DEF EInv, StateIsReplay, BatchInv, SimInv, Running
<1>4. CASE ApplyThrows
  BY <1>0, <1>4 DEF ApplyThrows, EInv, StateIsReplay, BatchInv, SimInv, Running, Idle
<1>5. CASE ApplyEnd
  <2>1. /\ done < Len(log) /\ apply.op = log[done + 1] /\ Book(done + 1)
        /\ apply.op.runs \notin {"unknown", "throw"}
        /\ batch = Extended(Replay(done), apply.op.by,
                            Replay(done).items[apply.op.by] \cup {done + 1})
    BY <1>5 DEF ApplyEnd, EInv, BatchInv, Running
  <2>2. log[done + 1] \in Operation
    BY <1>t, <2>1
  <2>3. log[done + 1].runs \in {"ok", "assert"} /\ apply.op.by \in Users
    BY <2>1, <2>2 DEF Operation
  <2>4. done + 1 \in Nat /\ done + 1 <= Len(log) /\ done + 1 \in Items
    BY <1>t, <2>1, ExecAssumption DEF Items
  <2>5. Replay(done).items[apply.op.by] \cup {done + 1} \in SUBSET Items
    BY <1>p, <2>3, <2>4 DEF State
  <2>6. /\ batch.items = Replay(done + 1).items
        /\ batch.booked = Replay(done).booked
    <3>1. /\ batch.booked = Replay(done).booked
          /\ batch.items = [Replay(done).items EXCEPT
                              ![apply.op.by] = Replay(done).items[apply.op.by] \cup {done + 1}]
      BY <1>p, <2>1, <2>3, <2>5, ExtendedType
    <3>2. Replay(done + 1).items =
            [Replay(done).items EXCEPT
               ![log[done + 1].by] = Replay(done).items[log[done + 1].by] \cup {done + 1}]
      BY <1>t, <2>1, <2>3, ReplayNext
    <3> QED
      BY <2>1, <3>1, <3>2
  <2>7. Replay(done + 1) \in State
    BY <1>t, <2>4, ReplayType
  <2>8. batch' = Replay(done + 1)
    <3>1. Replay(done + 1).booked =
            IF Books(log[done + 1]) THEN batch.booked \cup {done + 1} ELSE batch.booked
      BY <1>t, <2>1, <2>6, ReplayNext
    <3>2. /\ batch' \in State /\ batch'.items = batch.items
          /\ batch'.booked =
               IF Books(log[done + 1]) THEN batch.booked \cup {done + 1} ELSE batch.booked
      BY <1>t, <2>1, <2>4, BookEffect
    <3> QED
      BY <2>6, <2>7, <3>1, <3>2, SameState
  <2> QED
    BY <1>0, <1>5, <2>8 DEF ApplyEnd, EInv, StateIsReplay, BatchInv, SimInv, Running, Cleared, Idle
<1>6. CASE Flush
  <2>1. batch = Replay(done)
    BY <1>6 DEF Flush, EInv, BatchInv
  <2> QED
    BY <1>0, <1>6, <2>1 DEF Flush, EInv, StateIsReplay, BatchInv, SimInv, Running
<1> QED
  BY <1>1, <1>2, <1>3, <1>4, <1>5, <1>6 DEF ApplyStep

\* A simulation's step leaves view and batch alone.
LEMMA SimStepTraceless ==
  ASSUME EInv, ~Overlap, NEW s \in Sims, SimStep(s)
  PROVE  UNCHANGED <<log, view, flushed, batch, done, apply>>
<1>1. CASE SimWrite(s)
  <2>1. this.storage # "batch"
    BY <1>1 DEF SimWrite, EInv, SimInv, Running
  <2> QED
    BY <1>1, <2>1 DEF SimWrite, Put
<1> QED
  BY <1>1 DEF SimStep, SimUnknown, SimBegin, SimThrows, SimEnd

\* The steps of a simulation keep the replay.
LEMMA SimStepInv ==
  ASSUME EInv, ~Overlap, NEW s \in Sims, SimStep(s)
  PROVE  StateIsReplay' /\ BatchInv' /\ SimInv'
<1>0. UNCHANGED <<log, view, flushed, batch, done, apply>>
  BY SimStepTraceless
<1>1. Replay(done)' = Replay(done) /\ Replay(flushed)' = Replay(flushed)
  BY <1>0, ReplayFrame
<1>2. ~Running(apply)
  BY DEF SimStep, SimUnknown, SimBegin, SimWrite, SimThrows, SimEnd, SimMayRun, EInv,
         BatchInv, Running
<1>3. StateIsReplay' /\ BatchInv'
  BY <1>0, <1>1, <1>2 DEF EInv, StateIsReplay, BatchInv, Running
<1>4. sim \in [Sims -> Run] /\ \A r \in Sims : r # s => sim'[r] = sim[r]
  BY DEF SimStep, SimUnknown, SimBegin, SimWrite, SimThrows, SimEnd, EInv, TypeOK
<1>5. SimInv'
  <2>1. this'.storage \in {None, s} \/ (this' = this /\ Running(sim[s]))
    BY DEF SimStep, SimUnknown, SimBegin, SimWrite, SimThrows, SimEnd, Cleared, Running
  <2> QED
    BY <1>4, <2>1, ExecAssumption DEF EInv, SimInv
<1> QED
  BY <1>3, <1>5

\* The invariant holds initially.
LEMMA InitEInv ==
  Init => EInv
<1> SUFFICES ASSUME Init PROVE EInv
  OBVIOUS
<1>1. /\ log = <<>> /\ flushed = 0 /\ done = 0 /\ view = Empty /\ batch = Empty
      /\ apply = Idle /\ this = Cleared
  BY DEF Init
<1>2. Empty \in State
  BY DEF Empty, State
<1>3. NoValues \in [Users -> SUBSET Items]
  BY DEF NoValues
<1>4. TypeOK
  BY <1>1, <1>2, <1>3, ConstantsType, ExecAssumption DEF Init, TypeOK
<1>5. Replay(0) = Empty
  BY DEF Replay, Empty
<1>6. StateIsReplay /\ BatchInv /\ SimInv
  BY <1>1, <1>5, ExecAssumption DEF Init, StateIsReplay, BatchInv, SimInv, Running, Idle, Cleared
<1> QED
  BY <1>4, <1>6 DEF EInv

\* A restart and a new entry of the log keep the replay.
LEMMA OtherStepInv ==
  ASSUME EInv, Restart \/ \E op \in Operation : AppendEntry(op)
  PROVE  StateIsReplay' /\ BatchInv' /\ SimInv'
<1>1. CASE Restart
  <2>1. /\ UNCHANGED <<log, view, flushed>> /\ batch' = view /\ done' = flushed
        /\ apply' = Idle /\ this' = Cleared
    BY <1>1 DEF Restart
  <2>2. Replay(done)' = Replay(flushed) /\ Replay(flushed)' = Replay(flushed)
    BY <2>1, ReplayFrame
  <2> QED
    BY <2>1, <2>2, ExecAssumption DEF EInv, StateIsReplay, BatchInv, SimInv, Running, Idle, Cleared
<1>2. ASSUME NEW op \in Operation, AppendEntry(op)
      PROVE  StateIsReplay' /\ BatchInv' /\ SimInv'
  <2>1. UNCHANGED <<view, flushed, batch, done, overlay, this, apply, sim>>
    BY <1>2 DEF AppendEntry
  <2>2. /\ Len(log') = Len(log) + 1 /\ Len(log) \in Nat
        /\ \A i \in 1 .. Len(log) : log'[i] = log[i]
    BY <1>2, AppendType DEF EInv, TypeOK
  <2>3. flushed \in Nat /\ done \in Nat /\ flushed <= done /\ done <= Len(log)
    BY DEF EInv, TypeOK
  <2>4. (\A i \in 1 .. done : log'[i] = log[i]) /\ (\A i \in 1 .. flushed : log'[i] = log[i])
    BY <2>2, <2>3
  <2>5. Replay(done)' = Replay(done) /\ Replay(flushed)' = Replay(flushed)
    BY <2>1, <2>4 DEF Replay
  <2>6. Running(apply) => done < Len(log') /\ log'[done + 1] = log[done + 1]
    BY <2>2, <2>3 DEF EInv, BatchInv
  <2> QED
    BY <2>1, <2>5, <2>6 DEF EInv, StateIsReplay, BatchInv, SimInv, Running
<1> QED
  BY <1>1, <1>2

\* Every step keeps the invariant.
LEMMA NextEInv ==
  ASSUME EInv, ~Overlap, [Next]_vars
  PROVE  EInv'
<1>1. CASE ApplyStep
  <2>1. TypeOK'
    BY <1>1, ApplyStepType DEF EInv, BatchInv
  <2> QED
    BY <1>1, <2>1, ApplyStepInv DEF EInv
<1>2. ASSUME NEW s \in Sims, SimStep(s)
      PROVE  EInv'
  <2>1. TypeOK'
    BY <1>2, SimStepType DEF EInv
  <2> QED
    BY <1>2, <2>1, SimStepInv DEF EInv
<1>3. CASE Restart \/ \E op \in Operation : AppendEntry(op)
  <2>1. TypeOK'
    BY <1>3, RestartType, AppendType DEF EInv
  <2> QED
    BY <1>3, <2>1, OtherStepInv DEF EInv
<1>4. CASE UNCHANGED vars
  <2>1. Replay(done)' = Replay(done) /\ Replay(flushed)' = Replay(flushed)
    BY <1>4, ReplayFrame DEF vars
  <2> QED
    BY <1>4, <2>1 DEF vars, EInv, TypeOK, StateIsReplay, BatchInv, SimInv, Running
<1> QED
  BY <1>1, <1>2, <1>3, <1>4 DEF Next

\* What the types rest on: apply runs an entry of the log.
RunsAnEntry == Running(apply) => done < Len(log)

\* No simulation, wherever it overlaps, moves apply's place in the log.
LEMMA NextRunsAnEntry ==
  ASSUME TypeOK, RunsAnEntry, [Next]_vars
  PROVE  RunsAnEntry'
<1>1. CASE ApplyStep
  BY <1>1 DEF ApplyStep, ApplyUnknown, ApplyBegin, ApplyWrite, ApplyThrows, ApplyEnd, Flush,
              RunsAnEntry, Running, Idle, TypeOK
<1>2. ASSUME NEW s \in Sims, SimStep(s) PROVE RunsAnEntry'
  <2>1. UNCHANGED <<log, done, apply>>
    BY <1>2 DEF SimStep, SimUnknown, SimBegin, SimWrite, SimThrows, SimEnd
  <2> QED BY <2>1 DEF RunsAnEntry, Running
<1>3. CASE Restart
  BY <1>3 DEF Restart, RunsAnEntry, Running, Idle
<1>4. ASSUME NEW op \in Operation, AppendEntry(op) PROVE RunsAnEntry'
  <2>1. Len(log') = Len(log) + 1 /\ UNCHANGED <<done, apply>>
    BY <1>4, AppendType DEF AppendEntry
  <2>2. Len(log) \in Nat /\ done \in Nat
    BY DEF TypeOK
  <2> QED BY <2>1, <2>2 DEF RunsAnEntry, Running
<1>5. CASE UNCHANGED vars
  BY <1>5 DEF vars, RunsAnEntry, Running
<1> QED BY <1>1, <1>2, <1>3, <1>4, <1>5 DEF Next

\* The types hold, whether or not simulations and apply overlap.
THEOREM ExecTypeCorrect == Spec => []TypeOK
<1>1. Init => TypeOK /\ RunsAnEntry
  BY InitEInv DEF Init, EInv, RunsAnEntry, Running, Idle
<1>2. TypeOK /\ RunsAnEntry /\ [Next]_vars => TypeOK'
  BY ApplyStepType, SimStepType, RestartType, AppendType DEF Next, RunsAnEntry, vars, TypeOK
<1>3. TypeOK /\ RunsAnEntry /\ [Next]_vars => RunsAnEntry'
  BY NextRunsAnEntry
<1> QED BY <1>1, <1>2, <1>3, PTL DEF Spec

\* Where simulations and apply do not overlap, the flushed view is exactly what
\* the log prescribes, through batches, errors and restarts.
THEOREM FlushedStateIsReplay ==
  ASSUME ~Overlap
  PROVE  Spec => []StateIsReplay
<1>1. EInv /\ [Next]_vars => EInv'
  BY NextEInv
<1>2. EInv => StateIsReplay
  BY DEF EInv
<1> QED
  BY InitEInv, <1>1, <1>2, PTL DEF Spec

\* The fields name the batch only while apply is in an entry or failed in it.
BatchInEntriesOnly == this.storage = "batch" => apply.pc # "idle"

\* Every step, of simulations that overlap apply too, keeps it so.
LEMMA NextBatchInEntriesOnly ==
  ASSUME TypeOK, BatchInEntriesOnly, [Next]_vars
  PROVE  BatchInEntriesOnly'
<1> USE ExecAssumption
<1>1. CASE ApplyStep
  BY <1>1 DEF ApplyStep, ApplyUnknown, ApplyBegin, ApplyWrite, ApplyThrows, ApplyEnd, Flush,
              BatchInEntriesOnly, Cleared, Idle, TypeOK, Run
<1>2. ASSUME NEW s \in Sims, SimStep(s) PROVE BatchInEntriesOnly'
  <2>1. apply' = apply /\ this'.storage \in {this.storage, None, s}
    BY <1>2 DEF SimStep, SimUnknown, SimBegin, SimWrite, SimThrows, SimEnd, Cleared
  <2> QED BY <2>1 DEF BatchInEntriesOnly
<1>3. CASE Restart \/ (\E op \in Operation : AppendEntry(op)) \/ UNCHANGED vars
  BY <1>3 DEF Restart, AppendEntry, BatchInEntriesOnly, Cleared, vars
<1> QED BY <1>1, <1>2, <1>3 DEF Next

\* A step of a simulation writes to the batch only if the fields name it.
LEMMA SimStepIsolated ==
  ASSUME BatchInEntriesOnly, NEW s \in Sims, SimStep(s)
  PROVE  UNCHANGED view /\ (apply.pc = "idle" => UNCHANGED batch)
BY DEF SimStep, SimUnknown, SimBegin, SimWrite, SimThrows, SimEnd, Put, BatchInEntriesOnly

\* No simulation, wherever it overlaps apply or another simulation, writes to the
\* view, or to the batch between two entries.
THEOREM SimulationsMissWhatIsDone == Spec => IsolatedBetweenEntries
<1>1. Init => BatchInEntriesOnly
  BY ExecAssumption DEF Init, BatchInEntriesOnly, Cleared
<1>2. TypeOK /\ BatchInEntriesOnly /\ [Next]_vars => BatchInEntriesOnly'
  BY NextBatchInEntriesOnly
<1>3. BatchInEntriesOnly =>
        [\A s \in Sims : SimStep(s) =>
           UNCHANGED view /\ (apply.pc = "idle" => UNCHANGED batch)]_vars
  BY SimStepIsolated
<1> QED BY <1>1, <1>2, <1>3, ExecTypeCorrect, PTL DEF Spec, IsolatedBetweenEntries

-----------------------------------------------------------------------------
(* The promise ContractReplay makes. *)

\* Apply's place in the log is never behind an entry whose error leaves apply.
NothingSkipped == \A i \in 1 .. done : ~LeavesApply(log[i])

\* An entry is done only by a run that returned.
LEMMA NextNothingSkipped ==
  ASSUME EInv, NothingSkipped, [Next]_vars
  PROVE  NothingSkipped'
<1>t. /\ done \in Nat /\ flushed \in Nat /\ flushed <= done /\ done <= Len(log)
      /\ Len(log) \in Nat
  BY DEF EInv, TypeOK
<1>1. CASE ApplyUnknown
  <2>1. ~LeavesApply(log[done + 1])
    BY <1>1 DEF ApplyUnknown, Entry, LeavesApply
  <2>2. log' = log /\ done' = done + 1
    BY <1>1 DEF ApplyUnknown
  <2> QED BY <1>t, <2>1, <2>2 DEF NothingSkipped, LeavesApply
<1>2. CASE ApplyEnd
  <2>1. ~LeavesApply(log[done + 1])
    BY <1>2 DEF ApplyEnd, EInv, BatchInv, Running
  <2>2. log' = log /\ done' = done + 1
    BY <1>2 DEF ApplyEnd
  <2> QED BY <1>t, <2>1, <2>2 DEF NothingSkipped, LeavesApply
<1>3. CASE Restart
  BY <1>t, <1>3 DEF Restart, NothingSkipped, LeavesApply
<1>4. ASSUME NEW op \in Operation, AppendEntry(op) PROVE NothingSkipped'
  <2>1. (\A i \in 1 .. Len(log) : log'[i] = log[i]) /\ done' = done
    BY <1>4, AppendType DEF AppendEntry, EInv
  <2> QED BY <1>t, <2>1 DEF NothingSkipped, LeavesApply
<1>5. CASE UNCHANGED <<log, done>>
  BY <1>5 DEF NothingSkipped, LeavesApply
<1> QED
  BY <1>1, <1>2, <1>3, <1>4, <1>5
  DEF Next, vars, ApplyStep, ApplyBegin, ApplyWrite, ApplyThrows, Flush, SimStep, SimUnknown,
      SimBegin, SimWrite, SimThrows, SimEnd

\* The replay of a longer prefix is the replay of a shorter one, moved along.
LEMMA ReplayMoves ==
  ASSUME log \in Seq(Operation), NEW n \in Nat, flushed \in Nat, flushed <= n, n <= Len(log),
         view = Replay(flushed)
  PROVE  Replayed!Moved(n) = Replay(n)
<1>1. 1 .. n = 1 .. flushed \cup (flushed + 1 .. n)
  OBVIOUS
<1>2. \A i \in 1 .. n : log[i] \in Operation
  OBVIOUS
<1> DEFINE E(u) == {i \in 1 .. flushed : log[i].by = u /\ log[i].runs \in {"ok", "assert"}}
<1> DEFINE F(u) == {i \in flushed + 1 .. n : log[i].by = u
                      /\ log[i] \in {op \in Operation : op.runs \in {"ok", "assert"}}}
<1> DEFINE G(u) == {i \in 1 .. n : log[i].by = u /\ log[i].runs \in {"ok", "assert"}}
<1> DEFINE B == {i \in flushed + 1 .. n : log[i] \in {op \in Operation : Books(op)}}
<1>3. \A u \in Users : E(u) \cup F(u) = G(u)
  BY <1>1, <1>2
<1>4. {i \in 1 .. flushed : Books(log[i])} \cup B = {i \in 1 .. n : Books(log[i])}
  BY <1>1, <1>2
<1>5. /\ \A u \in Users : view.items[u] = E(u)
      /\ view.booked = {i \in 1 .. flushed : Books(log[i])}
  BY DEF Replay
<1>6. Replayed!Moved(n) = [items |-> [u \in Users |-> view.items[u] \cup F(u)],
                          booked |-> view.booked \cup B]
  BY DEF Replayed!Moved
<1>7. Replay(n) = [items |-> [u \in Users |-> G(u)], booked |-> {i \in 1 .. n : Books(log[i])}]
  BY DEF Replay
<1> HIDE DEF E, F, G, B
<1>8. [u \in Users |-> view.items[u] \cup F(u)] = [u \in Users |-> G(u)]
  BY <1>3, <1>5
<1> QED BY <1>4, <1>5, <1>6, <1>7, <1>8

\* Every step is a step of ContractReplay or leaves log and view alone.
LEMMA StepReplays ==
  ASSUME EInv, NothingSkipped, ~Overlap, [Next]_vars
  PROVE  [Replayed!Next]_<<log, view, flushed>>
<1>t. /\ done \in Nat /\ flushed \in Nat /\ done <= Len(log) /\ log \in Seq(Operation)
      /\ view = Replay(flushed)
  BY DEF EInv, TypeOK, StateIsReplay
<1>1. CASE Flush
  <2>1. batch = Replay(done) /\ flushed < done
    BY <1>1 DEF Flush, EInv, BatchInv
  <2>2. view' = Replayed!Moved(done)
    BY <1>t, <1>1, <2>1, ReplayMoves DEF Flush
  <2>3. \A i \in flushed + 1 .. done : log[i] \notin {op \in Operation : LeavesApply(op)}
    BY <1>t DEF NothingSkipped
  <2>4. Replayed!Commit(done) /\ done \in flushed + 1 .. Len(log)
    BY <1>t, <1>1, <2>1, <2>2, <2>3 DEF Flush, Replayed!Commit
  <2> QED BY <2>4 DEF Replayed!Next
<1>2. ASSUME NEW op \in Operation, AppendEntry(op) PROVE Replayed!Next
  BY <1>2 DEF AppendEntry, Replayed!Next, Replayed!AppendEntry
<1>3. CASE UNCHANGED <<log, view, flushed>>
  BY <1>3
<1> QED
  BY <1>1, <1>2, <1>3, SimStepTraceless
  DEF Next, vars, ApplyStep, ApplyUnknown, ApplyBegin, ApplyWrite, ApplyThrows, ApplyEnd, Restart

\* Where simulations and apply do not overlap, running contract code awaits,
\* errors, batches and crashes included implements ContractReplay.
THEOREM ExecImplementsReplay ==
  ASSUME ~Overlap
  PROVE  Spec => ImplementsReplay
<1>1. Init => EInv /\ NothingSkipped /\ Replayed!Init
  BY InitEInv DEF Init, NothingSkipped, Replayed!Init, Empty
<1>2. EInv /\ [Next]_vars => EInv'
  BY NextEInv
<1>3. EInv /\ NothingSkipped /\ [Next]_vars => NothingSkipped'
  BY NextNothingSkipped
<1>4. EInv /\ NothingSkipped /\ [Next]_vars => [Replayed!Next]_<<log, view, flushed>>
  BY StepReplays
<1> QED
  BY <1>1, <1>2, <1>3, <1>4, PTL DEF Spec, ImplementsReplay, Replayed!Spec
=============================================================================
