------------------------ MODULE TxSettlement_proofs -------------------------
(***************************************************************************)
(* Proofs about TxSettlement, for any peers, transactions, calls and       *)
(* bounds.  Home is one of the writers TxApply allows for, so the theorems *)
(* about TxApply hold here; what is new is what Home appends and how full  *)
(* its pool gets.                                                          *)
(***************************************************************************)
EXTENDS TxSettlement, TxApply_proofs, FiniteSetTheorems

\* A call that is under way carries a transaction.
CallsCarryTx == \A c \in Calls : call[c].pc \in {"validating", "sending"} => call[c].tx \in Txs

\* While it reads, the observer holds a transaction and a length that MSB has;
\* when it appends, MSB had confirmed the one at the other.
ObserverOK ==
  /\ observer.msbsl <= msbLen
  /\ observer.pc \in {"reading", "appending"} => observer.tx \in Txs
  /\ observer.pc = "appending" => confirmedAt[observer.tx] \in 1 .. observer.msbsl

SInv == TInv /\ TypeOK /\ CallsCarryTx /\ ObserverOK /\ AppendedIsConfirmed

-----------------------------------------------------------------------------
(* Home's steps are steps of TxApply, or leave its state alone. *)

\* Every step of TxSettlement is one of TxApply or changes nothing of it.
LEMMA StepImplementsApply ==
  ASSUME TypeOK, ObserverOK, [Next]_vars
  PROVE  [ApplyNext]_applyVars
<1>1. CASE Environment /\ UNCHANGED submitVars
  <2>1. \A t \in sent : t \in Txs
    BY DEF TypeOK
  <2>2. \A e \in Switches : e \in Entries
    BY SettlementAssumption
  <2> QED BY <1>1, <2>1, <2>2 DEF Environment, ApplyNext
<1>2. CASE AppendTx
  <2>1. observer.tx \in Txs /\ observer.msbsl \in Lengths
    BY <1>2 DEF AppendTx, ObserverOK, TypeOK, Rounds
  <2>2. TxEntry(observer.tx, observer.msbsl) \in Entries
    BY <2>1, SettlementAssumption DEF TxEntry
  <2> QED BY <1>2, <2>2 DEF AppendTx, ApplyNext
<1>3. CASE RestartHome
  <2>1. CASE waiting[Home] \/ failed[Home]
    BY <1>3, <2>1, SettlementAssumption DEF RestartHome, RestartApply, ApplyNext
  <2>2. CASE ~waiting[Home] /\ ~failed[Home]
    <3>1. /\ waiting \in [Peers -> BOOLEAN] /\ waiting[Home] = FALSE
          /\ failed \in [Peers -> BOOLEAN] /\ failed[Home] = FALSE
      BY <2>2, SettlementAssumption DEF TypeOK, ApplyTypeOK
    <3>2. waiting' = waiting /\ failed' = failed
      BY <1>3, <3>1 DEF RestartHome
    <3> QED BY <1>3, <3>2 DEF RestartHome, applyVars, msbVars, peerVars
  <2> QED BY <2>1, <2>2
<1>4. ASSUME NEW c \in Calls, NEW t \in Txs,
             RejectCall(c) \/ SendTx(c) \/ ReturnCall(c) \/ BeginCall(c, t)
      PROVE  UNCHANGED applyVars
  BY <1>4 DEF RejectCall, SendTx, ReturnCall, BeginCall
<1>5. ASSUME NEW c \in Calls, RejectCall(c) \/ SendTx(c) \/ ReturnCall(c)
      PROVE  UNCHANGED applyVars
  BY <1>5 DEF RejectCall, SendTx, ReturnCall
<1>6. CASE BeginRound \/ NotConfirmed \/ TakeConfirmed \/ AppendThrows \/ EndRound \/ Tick \/ Revoke
  BY <1>6 DEF BeginRound, NotConfirmed, TakeConfirmed, AppendThrows, EndRound, Tick, Revoke
<1>7. ASSUME NEW t \in Txs, DropExpired(t) \/ ReadMsb(t)
      PROVE  UNCHANGED applyVars
  BY <1>7 DEF DropExpired, Rounds, ReadMsb
<1>8. CASE UNCHANGED vars
  BY <1>8 DEF vars
<1> QED BY <1>1, <1>2, <1>3, <1>4, <1>5, <1>6, <1>7, <1>8 DEF Next, Observe

-----------------------------------------------------------------------------
(* The invariant. *)

\* The observer between rounds is typed.
LEMMA IdleType ==
  /\ Idle \in Rounds
  /\ 0 \in Times /\ 0 \in Lengths
  /\ Idle.msbsl = 0 /\ Idle.pc = "idle"
BY SettlementAssumption, ApplyAssumption DEF Idle, Rounds, Times, Lengths

\* The inductive invariant holds initially.
LEMMA InitSInv == Init => SInv
<1> SUFFICES ASSUME Init PROVE SInv
  OBVIOUS
<1>1. TInv
  BY InitTInv DEF Init
<1>2. TypeOK
  BY <1>1, IdleType, SettlementAssumption DEF Init, TInv, TypeOK
<1>3. CallsCarryTx /\ ObserverOK
  BY <1>1 DEF Init, ApplyInit, CallsCarryTx, ObserverOK, Idle
<1>4. AppendedIsConfirmed
  BY DEF Init, ApplyInit, AppendedIsConfirmed
<1> QED BY <1>1, <1>2, <1>3, <1>4 DEF SInv

\* What MSB and its replicas do takes nothing back: lengths grow, confirmations
\* stay, and the log changes by appending.
LEMMA NothingTakenBack ==
  ASSUME TInv, [ApplyNext]_applyVars
  PROVE  /\ msbLen \in Nat /\ msbLen' \in Nat /\ msbLen <= msbLen'
         /\ \A t \in Txs : confirmedAt[t] # 0 => confirmedAt'[t] = confirmedAt[t]
<1>1. msbLen \in Nat /\ confirmedAt \in [Txs -> Lengths]
  BY DEF TInv, ApplyTypeOK, Lengths
<1>2. CASE MsbGrows
  BY <1>1, <1>2 DEF MsbGrows
<1>3. ASSUME NEW t \in Txs, MsbConfirms(t)
      PROVE  /\ msbLen' = msbLen + 1
             /\ \A x \in Txs : confirmedAt[x] # 0 => confirmedAt'[x] = confirmedAt[x]
  BY <1>1, <1>3 DEF MsbConfirms
<1>4. ASSUME NEW e \in Entries, AppendEntry(e) PROVE UNCHANGED msbVars
  BY <1>4 DEF AppendEntry
<1>5. ASSUME NEW p \in Peers, Replicate(p) \/ Handle(p) \/ RestartApply(p) PROVE UNCHANGED msbVars
  BY <1>5 DEF Replicate, Handle, SkipTx, WaitForMsb, ExecuteTx, ThrowTx, SwitchTx, RestartApply
<1>6. CASE UNCHANGED applyVars
  BY <1>1, <1>6 DEF applyVars, msbVars
<1> QED BY <1>1, <1>2, <1>3, <1>4, <1>5, <1>6 DEF ApplyNext, msbVars

\* Every step keeps the types.
LEMMA NextType ==
  ASSUME SInv, TInv', [Next]_vars
  PROVE  TypeOK' /\ CallsCarryTx' /\ ObserverOK'
<1> USE SettlementAssumption DEF SInv
<1>0. /\ ApplyTypeOK'
      /\ msbLen \in Nat /\ msbLen' \in Nat /\ msbLen <= msbLen'
      /\ \A t \in Txs : confirmedAt[t] # 0 => confirmedAt'[t] = confirmedAt[t]
      /\ observer.msbsl \in Nat
      /\ 0 \in Lengths /\ 0 \in Times
  BY IdleType, StepImplementsApply, NothingTakenBack DEF TInv, TypeOK, Rounds, Lengths
<1>1. CASE UNCHANGED submitVars
  BY <1>0, <1>1 DEF TypeOK, CallsCarryTx, ObserverOK, submitVars
<1>2. ASSUME NEW c \in Calls, NEW t \in Txs, BeginCall(c, t)
      PROVE  TypeOK' /\ CallsCarryTx' /\ ObserverOK'
  BY <1>0, <1>2 DEF BeginCall, Proceed, TypeOK, CallsCarryTx, ObserverOK, applyVars, msbVars
<1>3. ASSUME NEW c \in Calls, RejectCall(c)
      PROVE  TypeOK' /\ CallsCarryTx' /\ ObserverOK'
  BY <1>0, <1>3 DEF RejectCall, Proceed, TypeOK, CallsCarryTx, ObserverOK, applyVars, msbVars
<1>4. ASSUME NEW c \in Calls, SendTx(c)
      PROVE  TypeOK' /\ CallsCarryTx' /\ ObserverOK'
  BY <1>0, <1>4 DEF SendTx, Proceed, TypeOK, CallsCarryTx, ObserverOK, applyVars, msbVars
<1>5. ASSUME NEW c \in Calls, ReturnCall(c)
      PROVE  TypeOK' /\ CallsCarryTx' /\ ObserverOK'
  BY <1>0, <1>5 DEF ReturnCall, Proceed, TypeOK, CallsCarryTx, ObserverOK, applyVars, msbVars
<1>6. CASE BeginRound
  <2>1. observer'.msbsl = 0 /\ observer'.pc = "round"
    BY <1>6 DEF BeginRound, Idle
  <2>2. observer' \in Rounds
    BY <1>6, <1>0 DEF BeginRound, Idle, Pooled, TypeOK, Rounds
  <2> QED BY <1>0, <1>6, <2>1, <2>2 DEF BeginRound, TypeOK, CallsCarryTx, ObserverOK, applyVars, msbVars
<1>7. ASSUME NEW t \in Txs, DropExpired(t)
      PROVE  TypeOK' /\ CallsCarryTx' /\ ObserverOK'
  BY <1>0, <1>7 DEF DropExpired, Rounds, TypeOK, CallsCarryTx, ObserverOK, applyVars, msbVars
<1>8. ASSUME NEW t \in Txs, ReadMsb(t)
      PROVE  TypeOK' /\ CallsCarryTx' /\ ObserverOK'
  BY <1>0, <1>8 DEF ReadMsb, Rounds, TypeOK, ApplyTypeOK, CallsCarryTx, ObserverOK, applyVars, msbVars
<1>9. CASE NotConfirmed
  <2>1. observer' \in Rounds /\ observer'.msbsl = 0 /\ observer'.pc = "round"
    BY <1>0, <1>9 DEF NotConfirmed, TypeOK, Rounds
  <2>2. ObserverOK'
    BY <1>0, <2>1 DEF ObserverOK
  <2> QED BY <1>0, <1>9, <2>1, <2>2 DEF NotConfirmed, TypeOK, CallsCarryTx, applyVars, msbVars
<1>10. CASE TakeConfirmed
  BY <1>0, <1>10 DEF TakeConfirmed, Found, Rounds, TypeOK, CallsCarryTx, ObserverOK, applyVars, msbVars
<1>11. CASE AppendTx
  <2>1. observer' \in Rounds /\ observer'.msbsl = 0 /\ observer'.pc = "round"
    BY <1>0, <1>11 DEF AppendTx, TypeOK, Rounds
  <2>2. ObserverOK'
    BY <1>0, <2>1 DEF ObserverOK
  <2> QED BY <1>0, <1>11, <2>1, <2>2 DEF AppendTx, TypeOK, CallsCarryTx
<1>12. CASE AppendThrows \/ EndRound
  <2>1. observer' = Idle /\ UNCHANGED <<clock, call, sent, pool, writable, faults>>
    BY <1>12 DEF AppendThrows, EndRound
  <2>2. ObserverOK'
    BY <1>0, <2>1, IdleType DEF ObserverOK
  <2> QED BY <1>0, <2>1, <2>2, IdleType DEF TypeOK, CallsCarryTx
<1>13. CASE Tick
  BY <1>0, <1>13 DEF Tick, Times, TypeOK, CallsCarryTx, ObserverOK, applyVars, msbVars
<1>14. CASE RestartHome
  <2>1. call' \in [Calls -> [pc : {"new", "validating", "sending", "done"}, tx : Txs \cup {None}]]
    BY <1>14 DEF RestartHome, TypeOK
  <2>2. CallsCarryTx'
    BY <1>14 DEF RestartHome, CallsCarryTx
  <2>3. pool' \in [Txs -> Times \cup {None}] /\ observer' = Idle
    BY <1>14 DEF RestartHome
  <2>4. ObserverOK'
    BY <1>0, <2>3, IdleType DEF ObserverOK
  <2> QED BY <1>0, <1>14, <2>1, <2>2, <2>3, <2>4, IdleType DEF RestartHome, TypeOK
<1>15. CASE Revoke
  BY <1>0, <1>15 DEF Revoke, TypeOK, CallsCarryTx, ObserverOK, applyVars, msbVars
<1>16. CASE UNCHANGED vars
  BY <1>1, <1>16 DEF vars
<1> QED BY <1>1, <1>2, <1>3, <1>4, <1>5, <1>6, <1>7, <1>8, <1>9, <1>10, <1>11, <1>12,
           <1>13, <1>14, <1>15, <1>16 DEF Next, Observe

\* A confirmation in the log's entries stays what it is.
LEMMA KeepsAppended ==
  ASSUME SInv, [ApplyNext]_applyVars, log' = log
  PROVE  AppendedIsConfirmed'
<1> SUFFICES ASSUME NEW i \in 1 .. Len(log), log[i].type = "tx"
             PROVE  confirmedAt'[log[i].key] \in 1 .. log[i].msbsl
  BY DEF AppendedIsConfirmed
<1>1. log[i].key \in Txs
  BY LogEntryType DEF SInv, TInv, Entry
<1>2. confirmedAt[log[i].key] \in 1 .. log[i].msbsl
  BY DEF SInv, AppendedIsConfirmed
<1> QED BY <1>1, <1>2, NothingTakenBack DEF SInv

\* Every step keeps what is appended confirmed at its length.
LEMMA NextAppended ==
  ASSUME SInv, [Next]_vars
  PROVE  AppendedIsConfirmed'
<1>1. [ApplyNext]_applyVars
  BY StepImplementsApply DEF SInv
<1>2. ASSUME NEW e \in Entries, AppendEntry(e),
             e.type = "tx" => confirmedAt[e.key] \in 1 .. e.msbsl
      PROVE  AppendedIsConfirmed'
  <2>1. /\ Len(log') = Len(log) + 1 /\ Len(log) \in Nat
        /\ \A i \in 1 .. Len(log) : log'[i] = log[i]
        /\ log'[Len(log) + 1] = e
        /\ confirmedAt' = confirmedAt
    BY <1>2, EntriesAssumption DEF AppendEntry, SInv, TInv, ApplyTypeOK, msbVars
  <2> QED BY <1>2, <2>1 DEF SInv, AppendedIsConfirmed
<1>3. CASE AppendTx
  <2>1. TxEntry(observer.tx, observer.msbsl) \in Entries
    BY <1>3, SettlementAssumption DEF AppendTx, TxEntry, SInv, ObserverOK, TypeOK, Rounds
  <2>2. confirmedAt[observer.tx] \in 1 .. observer.msbsl
    BY <1>3 DEF AppendTx, SInv, ObserverOK
  <2> QED BY <1>2, <1>3, <2>1, <2>2 DEF AppendTx, TxEntry
<1>4. ASSUME NEW e \in Switches, AppendEntry(e) PROVE AppendedIsConfirmed'
  BY <1>2, <1>4, SettlementAssumption
<1>5. CASE log' = log
  BY <1>1, <1>5, KeepsAppended
<1>6. CASE \/ \E c \in Calls : RejectCall(c) \/ SendTx(c) \/ ReturnCall(c) \/ \E t \in Txs : BeginCall(c, t)
           \/ BeginRound \/ NotConfirmed \/ TakeConfirmed \/ AppendThrows \/ EndRound
           \/ \E t \in Txs : DropExpired(t) \/ ReadMsb(t)
           \/ Tick \/ RestartHome \/ Revoke \/ UNCHANGED vars
  BY <1>5, <1>6 DEF RejectCall, SendTx, ReturnCall, BeginCall, BeginRound, NotConfirmed, TakeConfirmed,
     AppendThrows, EndRound, DropExpired, ReadMsb, Tick, RestartHome, Revoke, vars, applyVars
<1>7. CASE \/ MsbGrows \/ \E t \in sent : MsbConfirms(t)
           \/ \E p \in Peers : Replicate(p) \/ Handle(p) \/ RestartApply(p)
  BY <1>5, <1>7
  DEF MsbGrows, MsbConfirms, Replicate, Handle, SkipTx, WaitForMsb, ExecuteTx, ThrowTx, SwitchTx, RestartApply
<1> QED BY <1>3, <1>4, <1>6, <1>7 DEF Next, Observe, Environment

\* Every step keeps the inductive invariant.
LEMMA NextSInv == SInv /\ [Next]_vars => SInv'
<1> SUFFICES ASSUME SInv, [Next]_vars PROVE SInv'
  OBVIOUS
<1>1. TInv'
  BY StepImplementsApply, NextTInv DEF SInv
<1> QED BY <1>1, NextType, NextAppended DEF SInv

\* The inductive invariant holds always.
LEMMA AlwaysSInv == Spec => []SInv
BY InitSInv, NextSInv, PTL DEF Spec

-----------------------------------------------------------------------------

\* Every reachable state of the submitting peer is well typed.
THEOREM SettlementTypeCorrect == Spec => []TypeOK
<1>1. SInv => TypeOK
  BY DEF SInv
<1> QED BY <1>1, AlwaysSInv, PTL

\* Every entry the observer appends can be verified from the length in it,
\* however MSB, its replica, the clock and restarts interleave with the round.
THEOREM AppendsOnlyConfirmed == Spec => []AppendedIsConfirmed
<1>1. SInv => AppendedIsConfirmed
  BY DEF SInv
<1> QED BY <1>1, AlwaysSInv, PTL

\* The submitting peer, with its calls, pool, observer and restarts, is a writer
\* as TxApply has them: the theorems about TxApply hold for the whole.
THEOREM SettlementImplementsApply == Spec => ImplementsApply
<1>1. Init => ApplyInit
  BY DEF Init
<1>2. SInv => TypeOK /\ ObserverOK
  BY DEF SInv
<1> QED BY <1>1, <1>2, AlwaysSInv, StepImplementsApply, PTL DEF Spec, ImplementsApply, ApplySpec

-----------------------------------------------------------------------------
(* From the observer to every peer's ledger. *)

\* The settlement of the whole subnet keeps to one ledger of confirmed
\* transactions, each once: Home's concurrency, faults and restarts included.
THEOREM SubnetSettles ==
  /\ Spec => []OnlySettledOnce
  /\ Spec /\ []WithinDelta =>
       []Agreement /\ []LedgerIsWhatIsDue /\ []NonePassesPoison /\ ImplementsSettlement
<1>1. Spec => ApplySpec
  BY SettlementImplementsApply DEF ImplementsApply
<1> QED BY <1>1, ExecutedOnceWhenSettled, PeersAgree, ExecutesWhatIsDue, ThrowsStopEveryPeer,
           ApplyImplementsSettlement, PTL

\* The tx entries are Home's, and Home builds them from what it sent.
EntriesMatch == \A i \in 1 .. Len(log) : log[i].type = "tx" => log[i].matches

\* Every step keeps that.
LEMMA NextEntriesMatch ==
  ASSUME SInv, EntriesMatch, [Next]_vars
  PROVE  EntriesMatch'
<1>1. ASSUME NEW e \in Entries, AppendEntry(e), e.type = "tx" => e.matches
      PROVE  EntriesMatch'
  <2>1. /\ Len(log') = Len(log) + 1 /\ Len(log) \in Nat
        /\ \A i \in 1 .. Len(log) : log'[i] = log[i]
        /\ log'[Len(log) + 1] = e
    BY <1>1, EntriesAssumption DEF AppendEntry, SInv, TInv, ApplyTypeOK
  <2> QED BY <1>1, <2>1 DEF EntriesMatch
<1>2. CASE AppendTx
  <2>1. TxEntry(observer.tx, observer.msbsl) \in Entries /\ TxEntry(observer.tx, observer.msbsl).matches
    BY <1>2, SettlementAssumption DEF AppendTx, TxEntry, SInv, ObserverOK, TypeOK, Rounds
  <2> QED BY <1>1, <1>2, <2>1 DEF AppendTx
<1>3. ASSUME NEW e \in Switches, AppendEntry(e) PROVE EntriesMatch'
  BY <1>1, <1>3, SettlementAssumption
<1>4. CASE log' = log
  BY <1>4 DEF EntriesMatch
<1>5. CASE \/ \E c \in Calls : RejectCall(c) \/ SendTx(c) \/ ReturnCall(c) \/ \E t \in Txs : BeginCall(c, t)
           \/ BeginRound \/ NotConfirmed \/ TakeConfirmed \/ AppendThrows \/ EndRound
           \/ \E t \in Txs : DropExpired(t) \/ ReadMsb(t)
           \/ Tick \/ RestartHome \/ Revoke \/ UNCHANGED vars
  BY <1>4, <1>5 DEF RejectCall, SendTx, ReturnCall, BeginCall, BeginRound, NotConfirmed, TakeConfirmed,
     AppendThrows, EndRound, DropExpired, ReadMsb, Tick, RestartHome, Revoke, vars, applyVars
<1>6. CASE \/ MsbGrows \/ \E t \in sent : MsbConfirms(t)
           \/ \E p \in Peers : Replicate(p) \/ Handle(p) \/ RestartApply(p)
  BY <1>4, <1>6
  DEF MsbGrows, MsbConfirms, Replicate, Handle, SkipTx, WaitForMsb, ExecuteTx, ThrowTx, SwitchTx, RestartApply
<1> QED BY <1>2, <1>3, <1>5, <1>6 DEF Next, Observe, Environment

\* An entry of the observer is due wherever it is within the limit and enabled.
LEMMA DueFromObserver ==
  SInv /\ EntriesMatch /\ LedgerIsWhatIsDue => AppendedIsExecuted
<1> SUFFICES ASSUME SInv, EntriesMatch, LedgerIsWhatIsDue,
                    NEW p \in Peers, NEW i \in 1 .. applied[p],
                    log[i].type = "tx", log[i].key \in Known, log[i].msbsl <= MaxSigned, EnabledAt(i)
             PROVE  Indexed(p, log[i].key)
  BY DEF AppendedIsExecuted
<1>1. i \in 1 .. Len(log)
  BY DEF SInv, TInv, ApplyTypeOK
<1>2. log[i].key \in Txs
  BY ApplyAssumption
<1>3. Due(i)
  BY <1>1 DEF Due, SInv, AppendedIsConfirmed, EntriesMatch
<1> QED BY <1>2, <1>3 DEF LedgerIsWhatIsDue

\* While no replica lags by more than Delta, what the observer appends is executed
\* by every peer that gets past it.
THEOREM WhatIsAppendedIsExecuted == Spec /\ []WithinDelta => []AppendedIsExecuted
<1>1. Init => EntriesMatch
  BY DEF Init, ApplyInit, EntriesMatch
<1>2. SInv /\ EntriesMatch /\ [Next]_vars => EntriesMatch'
  BY NextEntriesMatch
<1> QED BY <1>1, <1>2, AlwaysSInv, SubnetSettles, DueFromObserver, PTL DEF Spec

-----------------------------------------------------------------------------
(* Nothing that was broadcast gets lost between call, pool, observer and log. *)

\* An entry in the log stays there.
LEMMA AppendedStays ==
  ASSUME TInv, [ApplyNext]_applyVars, NEW t, Appended(t)
  PROVE  Appended(t)'
BY LogKept DEF Appended

\* A transaction that one step lets go of was given up for a reason.
LEMMA NextKeeps ==
  ASSUME SInv, [Next]_vars, NEW t \in Txs, Held(t), ~Held(t)'
  PROVE  \/ DropExpired(t) \/ AppendThrows \/ RestartHome
         \/ ~IsNotFull /\ \E c \in Calls : ReturnCall(c)
<1>1. ~Appended(t) /\ ~Appended(t)'
  BY AppendedStays, StepImplementsApply DEF SInv, Held
<1>2. /\ \A c \in Calls : ~(call'[c].pc = "sending" /\ call'[c].tx = t)
      /\ pool'[t] = None
      /\ ~(observer'.pc = "appending" /\ observer'.tx = t)
  BY DEF Held
<1>3. /\ call \in [Calls -> [pc : {"new", "validating", "sending", "done"}, tx : Txs \cup {None}]]
      /\ pool \in [Txs -> Times \cup {None}]
      /\ observer \in Rounds
      /\ clock \in Times /\ None \notin Times
  BY SettlementAssumption DEF SInv, TypeOK, Times
<1>4. ~(UNCHANGED <<call, pool, observer>>)
  BY <1>1, <1>2 DEF Held
<1>5. ASSUME NEW c \in Calls, NEW x \in Txs, BeginCall(c, x) \/ RejectCall(c) \/ SendTx(c) PROVE FALSE
  <2>1. call'[c] # call[c] /\ call[c].pc \in {"new", "validating"} /\ \A d \in Calls \ {c} : call'[d] = call[d]
    BY <1>3, <1>5 DEF BeginCall, RejectCall, SendTx, Proceed
  <2>2. pool' = pool /\ observer' = observer
    BY <1>5 DEF BeginCall, RejectCall, SendTx
  <2> QED BY <1>1, <1>2, <2>1, <2>2 DEF Held
<1>6. ASSUME NEW c \in Calls, ReturnCall(c), IsNotFull PROVE FALSE
  <2>1. \A d \in Calls \ {c} : call'[d] = call[d]
    BY <1>3, <1>6 DEF ReturnCall, Proceed
  <2>2. observer' = observer
    BY <1>6 DEF ReturnCall
  <2>3. \A x \in Txs : pool[x] # None => pool'[x] # None
    BY <1>3, <1>6 DEF ReturnCall, Pooled
  <2>4. call[c].tx = t => pool'[t] # None
    BY <1>3, <1>6 DEF ReturnCall, Pooled
  <2> QED BY <1>1, <1>2, <2>1, <2>2, <2>3, <2>4 DEF Held
<1>7. ASSUME BeginRound \/ EndRound \/ NotConfirmed \/ \E x \in Txs : ReadMsb(x) PROVE FALSE
  <2>1. call' = call /\ pool' = pool /\ observer.pc # "appending"
    BY <1>7 DEF BeginRound, EndRound, NotConfirmed, ReadMsb, Visits
  <2> QED BY <1>1, <1>2, <2>1 DEF Held
<1>8. ASSUME NEW x \in Txs, DropExpired(x) PROVE x = t
  <2>1. call' = call /\ observer.pc # "appending" /\ \A y \in Txs \ {x} : pool'[y] = pool[y]
    BY <1>3, <1>8 DEF DropExpired, Visits
  <2> QED BY <1>1, <1>2, <2>1 DEF Held
<1>9. ASSUME TakeConfirmed PROVE FALSE
  <2>1. /\ call' = call /\ observer.pc = "reading"
        /\ observer'.pc = "appending" /\ observer'.tx = observer.tx
        /\ \A y \in Txs : y # observer.tx => pool'[y] = pool[y]
    BY <1>3, <1>9 DEF TakeConfirmed, Rounds
  <2> QED BY <1>1, <1>2, <2>1 DEF Held
<1>10. ASSUME AppendTx PROVE FALSE
  <2>1. call' = call /\ pool' = pool /\ log' = Append(log, TxEntry(observer.tx, observer.msbsl))
    BY <1>10 DEF AppendTx, AppendEntry
  <2>2. observer.tx = t
    BY <1>1, <1>2, <2>1 DEF Held
  <2>3. Len(log) \in Nat /\ Len(log') = Len(log) + 1 /\ log'[Len(log) + 1] = TxEntry(t, observer.msbsl)
    BY <1>10, <2>1, <2>2, SettlementAssumption, EntriesAssumption
    DEF SInv, TInv, ApplyTypeOK, TypeOK, Rounds, TxEntry
  <2>4. Appended(t)'
    BY <2>3 DEF Appended, TxEntry
  <2> QED BY <1>1, <2>4
<1>11. CASE Tick \/ Revoke \/ UNCHANGED vars \/ UNCHANGED submitVars
  BY <1>4, <1>11 DEF Tick, Revoke, vars, submitVars
<1> QED BY <1>5, <1>6, <1>7, <1>8, <1>9, <1>10, <1>11 DEF Next, Observe

\* Home lets go of a transaction it broadcast only where the code gives up.
THEOREM NothingIsLost == Spec => TransactionsAreKept
<1>1. SInv /\ [Next]_vars =>
        [\A t \in Txs : Held(t) /\ ~Held(t)' =>
           \/ DropExpired(t) \/ AppendThrows \/ RestartHome
           \/ ~IsNotFull /\ \E c \in Calls : ReturnCall(c)]_vars
  BY NextKeeps
<1> QED BY <1>1, AlwaysSInv, PTL DEF Spec, TransactionsAreKept

-----------------------------------------------------------------------------
(* The pool. *)

\* A pool that gained at most one transaction while it was not full.
LEMMA GainsAtMostOne ==
  ASSUME IsFiniteSet(Txs), PoolBound, NEW t, Pooled' \subseteq Pooled \cup {t}, IsNotFull
  PROVE  PoolBound'
<1>1. IsFiniteSet(Pooled)
  BY FS_Subset DEF Pooled
<1>2. IsFiniteSet(Pooled \cup {t}) /\ Cardinality(Pooled \cup {t}) <= Cardinality(Pooled) + 1
  <2>1. Cardinality(Pooled) \in Nat
    BY <1>1, FS_CardinalityType
  <2>2. /\ IsFiniteSet(Pooled \cup {t})
        /\ Cardinality(Pooled \cup {t}) = IF t \in Pooled THEN Cardinality(Pooled) ELSE Cardinality(Pooled) + 1
    BY <1>1, FS_AddElement, Zenon
  <2> QED BY <2>1, <2>2
<1>3. Cardinality(Pooled') <= Cardinality(Pooled \cup {t})
  BY <1>2, FS_Subset
<1>4. Cardinality(Pooled) \in Nat /\ Cardinality(Pooled \cup {t}) \in Nat /\ Cardinality(Pooled') \in Nat
  BY <1>1, <1>2, FS_CardinalityType, FS_Subset
<1> QED BY <1>2, <1>3, <1>4, SettlementAssumption DEF PoolBound, IsNotFull

\* A pool that gained nothing.
LEMMA GainsNothing ==
  ASSUME IsFiniteSet(Txs), PoolBound, Pooled' \subseteq Pooled
  PROVE  PoolBound'
<1>1. IsFiniteSet(Pooled) /\ IsFiniteSet(Pooled')
  BY FS_Subset DEF Pooled
<1>2. Cardinality(Pooled') <= Cardinality(Pooled)
  BY <1>1, FS_Subset
<1>3. Cardinality(Pooled) \in Nat /\ Cardinality(Pooled') \in Nat
  BY <1>1, FS_CardinalityType
<1> QED BY <1>2, <1>3, SettlementAssumption DEF PoolBound

\* Every step keeps the pool within its bound.
LEMMA NextPoolBound ==
  ASSUME IsFiniteSet(Txs), TypeOK, PoolBound, [Next]_vars
  PROVE  PoolBound'
<1>1. CASE UNCHANGED pool
  BY <1>1, GainsNothing DEF Pooled
<1>2. ASSUME NEW c \in Calls, ReturnCall(c) PROVE PoolBound'
  <2>1. PICK t : t = call[c].tx
    OBVIOUS
  <2>2. CASE IsNotFull /\ t \notin Pooled
    <3>1. Pooled' \subseteq Pooled \cup {t}
      BY <1>2, <2>1, <2>2 DEF ReturnCall, Pooled, TypeOK
    <3> QED BY <2>2, <3>1, GainsAtMostOne
  <2>3. CASE ~(IsNotFull /\ t \notin Pooled)
    BY <1>1, <1>2, <2>1, <2>3 DEF ReturnCall
  <2> QED BY <2>2, <2>3
<1>3. ASSUME NEW t, pool' = [pool EXCEPT ![t] = None] PROVE PoolBound'
  <2>1. Pooled' \subseteq Pooled
    BY <1>3 DEF Pooled, TypeOK
  <2> QED BY <2>1, GainsNothing
<1>4. ASSUME NEW t \in Txs, DropExpired(t) PROVE PoolBound'
  BY <1>3, <1>4 DEF DropExpired
<1>5. CASE TakeConfirmed
  BY <1>3, <1>5 DEF TakeConfirmed
<1>6. CASE RestartHome
  <2>1. Pooled' \subseteq Pooled
    BY <1>6 DEF RestartHome, Pooled
  <2> QED BY <2>1, GainsNothing
<1>7. CASE \/ \E c \in Calls : RejectCall(c) \/ SendTx(c) \/ \E t \in Txs : BeginCall(c, t)
           \/ BeginRound \/ NotConfirmed \/ AppendTx \/ AppendThrows \/ EndRound
           \/ \E t \in Txs : ReadMsb(t)
           \/ Tick \/ Revoke \/ UNCHANGED vars \/ UNCHANGED submitVars
  BY <1>1, <1>7 DEF RejectCall, SendTx, BeginCall, BeginRound, NotConfirmed, AppendTx, AppendThrows,
     EndRound, ReadMsb, Tick, Revoke, vars, submitVars
<1> QED BY <1>2, <1>4, <1>5, <1>6, <1>7 DEF Next, Observe

\* The pool exceeds its limit by at most one, for any number of calls and any
\* order in which they return.
THEOREM PoolNeverOverflows ==
  ASSUME IsFiniteSet(Txs)
  PROVE  Spec => []PoolBound
<1>1. Init => PoolBound
  <2> SUFFICES ASSUME Init PROVE PoolBound
    OBVIOUS
  <2>1. Pooled = {}
    BY DEF Init, Pooled
  <2> QED BY <2>1, FS_EmptySet, SettlementAssumption DEF PoolBound
<1>2. TypeOK /\ PoolBound /\ [Next]_vars => PoolBound'
  BY NextPoolBound
<1> QED BY <1>1, <1>2, SettlementTypeCorrect, PTL DEF Spec
=============================================================================
