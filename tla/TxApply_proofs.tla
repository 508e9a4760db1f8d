--------------------------- MODULE TxApply_proofs ---------------------------
(***************************************************************************)
(* Proofs about TxApply, for any peers, transactions and bounds.           *)
(*                                                                         *)
(* Agreement cannot be proved from what two peers hold: a peer that is     *)
(* behind will execute entries under its own replica of the MSB.  The      *)
(* argument is that the log alone determines a history of ledgers, one for *)
(* each of its prefixes, and that every peer is somewhere on it.           *)
(***************************************************************************)
EXTENDS TxApply, TLAPS

-----------------------------------------------------------------------------
(* Type correctness. *)

\* A peer that waits waits at a tx entry that it may reach.
WaitsAtTx ==
  \A p \in Peers : waiting[p] =>
    HasNext(p) /\ NextEntry(p).type = "tx" /\ NextEntry(p).msbsl <= MaxSigned

\* Writers refer to lengths the MSB has.
RefersToPast == \A i \in 1 .. Len(log) : log[i].msbsl <= msbLen

TInv == ApplyTypeOK /\ WaitsAtTx /\ RefersToPast

\* The handler's actions change the state of one peer only; what they say of the
\* next entry is typed.
LEMMA NextEntryType ==
  ASSUME ApplyTypeOK, NEW p \in Peers, HasNext(p)
  PROVE  NextEntry(p) \in Entry /\ applied[p] + 1 \in 1 .. Len(log)
BY DEF ApplyTypeOK, HasNext, NextEntry

\* What a log entry is.
LEMMA LogEntryType ==
  ASSUME ApplyTypeOK, NEW i \in 1 .. Len(log)
  PROVE  log[i] \in Entry /\ log[i].msbsl \in Lengths
<1>1. log[i] \in Entry
  BY DEF ApplyTypeOK
<1> QED BY <1>1 DEF Entry

\* The type invariant holds initially.
LEMMA InitTInv == ApplyInit => TInv
BY ApplyAssumption DEF ApplyInit, TInv, ApplyTypeOK, WaitsAtTx, RefersToPast, Lengths, Entry

\* The type invariant is inductive.
LEMMA NextTInv == TInv /\ [ApplyNext]_applyVars => TInv'
<1> SUFFICES ASSUME TInv, [ApplyNext]_applyVars PROVE TInv'
  OBVIOUS
<1> USE ApplyAssumption, EntriesAssumption
<1>1. CASE MsbGrows
  <2>1. msbLen \in Nat /\ msbLen' \in Lengths /\ msbLen' = msbLen + 1
    BY <1>1 DEF TInv, ApplyTypeOK, MsbGrows, Lengths
  <2>2. \A n \in Lengths : n <= msbLen => n <= msbLen'
    BY <2>1 DEF Lengths
  <2>3. ApplyTypeOK'
    BY <1>1, <2>1, <2>2 DEF TInv, ApplyTypeOK, MsbGrows, peerVars
  <2>4. WaitsAtTx'
    BY <1>1 DEF TInv, WaitsAtTx, MsbGrows, peerVars, HasNext, NextEntry
  <2>5. RefersToPast'
    BY <1>1, <2>2, LogEntryType DEF TInv, RefersToPast, MsbGrows
  <2> QED BY <2>3, <2>4, <2>5 DEF TInv
<1>2. ASSUME NEW t \in Txs, MsbConfirms(t) PROVE TInv'
  <2>1. msbLen \in Nat /\ msbLen' \in Lengths /\ msbLen' = msbLen + 1
    BY <1>2 DEF TInv, ApplyTypeOK, MsbConfirms, Lengths
  <2>2. \A n \in Lengths : n <= msbLen => n <= msbLen'
    BY <2>1 DEF Lengths
  <2>3. ApplyTypeOK'
    <3>1. \A x \in Txs : confirmedAt'[x] \in Lengths /\ confirmedAt'[x] <= msbLen'
      BY <1>2, <2>1, <2>2 DEF TInv, ApplyTypeOK, MsbConfirms, Lengths
    <3>2. confirmedAt' \in [Txs -> Lengths]
      BY <1>2, <2>1 DEF TInv, ApplyTypeOK, MsbConfirms
    <3> QED BY <1>2, <2>1, <2>2, <3>1, <3>2 DEF TInv, ApplyTypeOK, MsbConfirms, peerVars
  <2>4. WaitsAtTx'
    BY <1>2 DEF TInv, WaitsAtTx, MsbConfirms, peerVars, HasNext, NextEntry
  <2>5. RefersToPast'
    BY <1>2, <2>2, LogEntryType DEF TInv, RefersToPast, MsbConfirms
  <2> QED BY <2>3, <2>4, <2>5 DEF TInv
<1>3. ASSUME NEW e \in Entries, AppendEntry(e) PROVE TInv'
  <2>1. e \in Entry
    BY <1>3
  <2>2. /\ log' \in Seq(Entry)
        /\ Len(log') = Len(log) + 1
        /\ \A i \in 1 .. Len(log) : log'[i] = log[i]
        /\ log'[Len(log) + 1] = e
    BY <1>3, <2>1 DEF AppendEntry, TInv, ApplyTypeOK
  <2>3. ApplyTypeOK'
    BY <1>3, <2>2 DEF TInv, ApplyTypeOK, AppendEntry, msbVars, peerVars
  <2>4. WaitsAtTx'
    BY <1>3, <2>2, NextEntryType DEF TInv, ApplyTypeOK, WaitsAtTx, AppendEntry, msbVars, peerVars, HasNext, NextEntry
  <2>5. RefersToPast'
    BY <1>3, <2>1, <2>2 DEF TInv, ApplyTypeOK, RefersToPast, AppendEntry, msbVars, Entry
  <2> QED BY <2>3, <2>4, <2>5 DEF TInv
<1>4. ASSUME NEW p \in Peers, Replicate(p) PROVE TInv'
  BY <1>4 DEF TInv, ApplyTypeOK, WaitsAtTx, RefersToPast, Replicate, msbVars, peerVars, Lengths, HasNext, NextEntry, Entry
<1>5. ASSUME NEW p \in Peers, SkipTx(p) PROVE TInv'
  BY <1>5 DEF TInv, ApplyTypeOK, WaitsAtTx, RefersToPast, SkipTx, AtEntry, msbVars, HasNext, NextEntry
<1>6. ASSUME NEW p \in Peers, WaitForMsb(p) PROVE TInv'
  <2>1. NextEntry(p).msbsl <= MaxSigned
    BY <1>6, NextEntryType DEF TInv, WaitForMsb, AtEntry, TooFar, Entry, Lengths
  <2> QED BY <1>6, <2>1 DEF TInv, ApplyTypeOK, WaitsAtTx, RefersToPast, WaitForMsb, AtEntry, msbVars, HasNext, NextEntry
<1>7. ASSUME NEW p \in Peers, ExecuteTx(p) PROVE TInv'
  <2>1. HasNext(p) /\ NextEntry(p).key \in Txs
    BY <1>7, NextEntryType DEF TInv, WaitsAtTx, ExecuteTx, Entry
  <2>2. index' \in [Peers -> Seq(Txs)]
    BY <1>7, <2>1 DEF TInv, ApplyTypeOK, ExecuteTx
  <2> QED BY <1>7, <2>1, <2>2 DEF TInv, ApplyTypeOK, WaitsAtTx, RefersToPast, ExecuteTx, msbVars, HasNext, NextEntry
<1>8. ASSUME NEW p \in Peers, SwitchTx(p) PROVE TInv'
  <2>1. Switched(NextEntry(p)) \in BOOLEAN
    BY DEF Switched
  <2> QED BY <1>8, <2>1 DEF TInv, ApplyTypeOK, WaitsAtTx, RefersToPast, SwitchTx, AtEntry, msbVars, HasNext, NextEntry
<1>9. ASSUME NEW p \in Peers, RestartApply(p) PROVE TInv'
  BY <1>9 DEF TInv, ApplyTypeOK, WaitsAtTx, RefersToPast, RestartApply, msbVars, HasNext, NextEntry
<1>10. ASSUME NEW p \in Peers, ThrowTx(p) PROVE TInv'
  BY <1>10 DEF TInv, ApplyTypeOK, WaitsAtTx, RefersToPast, ThrowTx, msbVars, HasNext, NextEntry
<1>11. CASE UNCHANGED applyVars
  BY <1>11 DEF TInv, ApplyTypeOK, WaitsAtTx, RefersToPast, applyVars, msbVars, peerVars, HasNext, NextEntry
<1> QED BY <1>1, <1>2, <1>3, <1>4, <1>5, <1>6, <1>7, <1>8, <1>9, <1>10, <1>11 DEF ApplyNext, Handle

\* The type invariant holds always.
LEMMA AlwaysTInv == ApplySpec => []TInv
BY InitTInv, NextTInv, PTL DEF ApplySpec

\* Every reachable state is well typed; a peer never applies more than the log
\* has and its replica never has more than the MSB.
THEOREM ApplyTypeCorrect == ApplySpec => []ApplyTypeOK
<1>1. TInv => ApplyTypeOK
  BY DEF TInv
<1> QED BY <1>1, AlwaysTInv, PTL

-----------------------------------------------------------------------------
(* Only confirmed transactions, each once. *)

\* Every step keeps what was executed confirmed and executed once.
LEMMA NextSettled ==
  TInv /\ OnlySettledOnce /\ [ApplyNext]_applyVars => OnlySettledOnce'
<1> SUFFICES ASSUME TInv, OnlySettledOnce, [ApplyNext]_applyVars PROVE OnlySettledOnce'
  OBVIOUS
<1> USE DEF TInv
<1>1. CASE MsbGrows
  BY <1>1 DEF OnlySettledOnce, MsbGrows, peerVars
<1>2. ASSUME NEW t \in Txs, MsbConfirms(t) PROVE OnlySettledOnce'
  <2>1. \A p \in Peers : \A i \in 1 .. Len(index[p]) : index[p][i] \in Txs /\ index[p][i] # t
    BY <1>2 DEF OnlySettledOnce, MsbConfirms, ApplyTypeOK
  <2> QED BY <1>2, <2>1 DEF OnlySettledOnce, MsbConfirms, peerVars, ApplyTypeOK
<1>3. ASSUME NEW e \in Entries, AppendEntry(e) PROVE OnlySettledOnce'
  BY <1>3 DEF OnlySettledOnce, AppendEntry, msbVars, peerVars
<1>4. ASSUME NEW p \in Peers, Replicate(p) PROVE OnlySettledOnce'
  <2>1. \A q \in Peers : local[q] \in Nat /\ local'[q] \in Nat /\ local[q] <= local'[q]
    BY <1>4 DEF Replicate, ApplyTypeOK, Lengths
  <2>2. \A q \in Peers : \A i \in 1 .. Len(index[q]) : confirmedAt[index[q][i]] \in Nat
    BY DEF ApplyTypeOK, Lengths
  <2> QED BY <1>4, <2>1, <2>2 DEF OnlySettledOnce, Replicate, msbVars, peerVars
<1>5. ASSUME NEW p \in Peers, SkipTx(p) PROVE OnlySettledOnce'
  BY <1>5 DEF OnlySettledOnce, SkipTx, msbVars
<1>6. ASSUME NEW p \in Peers, WaitForMsb(p) PROVE OnlySettledOnce'
  BY <1>6 DEF OnlySettledOnce, WaitForMsb, msbVars
<1>7. ASSUME NEW p \in Peers, ExecuteTx(p) PROVE OnlySettledOnce'
  <2>1. CASE ~Accepts(p, NextEntry(p))
    BY <1>7, <2>1 DEF OnlySettledOnce, ExecuteTx, msbVars
  <2>2. CASE Accepts(p, NextEntry(p))
    <3> DEFINE t == NextEntry(p).key
    <3>1. t \in Txs
      BY <1>7, NextEntryType DEF WaitsAtTx, ExecuteTx, Entry
    <3>2. confirmedAt[t] \in 1 .. local[p] /\ ~Indexed(p, t)
      BY <2>2, <1>7, <3>1, NextEntryType DEF Accepts, ConfirmedIn, ApplyTypeOK, Lengths, Entry, WaitsAtTx, ExecuteTx
    <3>3. /\ Len(index'[p]) = Len(index[p]) + 1
          /\ \A i \in 1 .. Len(index[p]) : index'[p][i] = index[p][i]
          /\ index'[p][Len(index[p]) + 1] = t
          /\ \A q \in Peers \ {p} : index'[q] = index[q]
          /\ Len(index[p]) \in Nat
      BY <1>7, <2>2, <3>1 DEF ExecuteTx, ApplyTypeOK
    <3> HIDE DEF t
    <3>4. \A i \in 1 .. Len(index'[p]) : confirmedAt[index'[p][i]] \in 1 .. local[p]
      BY <3>2, <3>3 DEF OnlySettledOnce
    <3>5. \A i, j \in 1 .. Len(index'[p]) : index'[p][i] = index'[p][j] => i = j
      <4> SUFFICES ASSUME NEW i \in 1 .. Len(index'[p]), NEW j \in 1 .. Len(index'[p]),
                          index'[p][i] = index'[p][j]
                   PROVE  i = j
        OBVIOUS
      <4>1. \A k \in 1 .. Len(index[p]) : index'[p][k] # t
        BY <3>2, <3>3 DEF Indexed
      <4>2. CASE i <= Len(index[p]) /\ j <= Len(index[p])
        BY <3>3, <4>2 DEF OnlySettledOnce
      <4> QED BY <3>3, <4>1, <4>2
    <3> QED BY <1>7, <3>3, <3>4, <3>5 DEF OnlySettledOnce, ExecuteTx, msbVars
  <2> QED BY <2>1, <2>2
<1>8. ASSUME NEW p \in Peers, SwitchTx(p) PROVE OnlySettledOnce'
  BY <1>8 DEF OnlySettledOnce, SwitchTx, msbVars
<1>9. ASSUME NEW p \in Peers, RestartApply(p) PROVE OnlySettledOnce'
  BY <1>9 DEF OnlySettledOnce, RestartApply, msbVars
<1>10. ASSUME NEW p \in Peers, ThrowTx(p) PROVE OnlySettledOnce'
  BY <1>10 DEF OnlySettledOnce, ThrowTx, msbVars
<1>11. CASE UNCHANGED applyVars
  BY <1>11 DEF OnlySettledOnce, applyVars, msbVars, peerVars
<1> QED BY <1>1, <1>2, <1>3, <1>4, <1>5, <1>6, <1>7, <1>8, <1>9, <1>10, <1>11 DEF ApplyNext, Handle

\* No peer executes a transaction its MSB replica does not show as confirmed,
\* or executes one twice, whatever writers append.
THEOREM ExecutedOnceWhenSettled == ApplySpec => []OnlySettledOnce
<1>1. ApplyInit => OnlySettledOnce
  BY DEF ApplyInit, OnlySettledOnce
<1> QED BY <1>1, AlwaysTInv, NextSettled, PTL DEF ApplySpec

-----------------------------------------------------------------------------
(* Agreement.  I[k] and X[k] are the ledger and the switch after the first k   *)
(* entries of the log, whoever applies them.                                   *)

\* What the handler makes of an entry when the ledger is s and the switch is x;
\* no peer is mentioned.
Valid(s, x, e) ==
  /\ e.type = "tx"
  /\ e.msbsl <= MaxSigned
  /\ confirmedAt[e.key] \in 1 .. e.msbsl
  /\ e.matches
  /\ x
  /\ \A i \in 1 .. Len(s) : s[i] # e.key
  /\ e.key \in Known

After(s, x, e) == IF Valid(s, x, e) THEN Append(s, e.key) ELSE s
SwitchAfter(x, e) == IF e.type = "tx" THEN x ELSE Switched(e)

History(I, X) ==
  /\ I \in [0 .. Len(log) -> Seq(Txs)]
  /\ X \in [0 .. Len(log) -> BOOLEAN]
  /\ I[0] = <<>> /\ X[0] = TRUE
  /\ \A k \in 1 .. Len(log) : /\ I[k] = After(I[k - 1], X[k - 1], log[k])
                              /\ X[k] = SwitchAfter(X[k - 1], log[k])
  /\ \A j, k \in 0 .. Len(log) : j <= k => PrefixOf(I[j], I[k])

\* Every peer is on the history.
OnHistory(I, X) ==
  \A p \in Peers : index[p] = I[applied[p]] /\ txen[p] = X[applied[p]]

HInv == TInv /\ \E I, X : History(I, X) /\ OnHistory(I, X)

\* The empty history explains the initial state.
LEMMA InitHInv == ApplyInit => HInv
<1> SUFFICES ASSUME ApplyInit PROVE HInv
  OBVIOUS
<1> DEFINE I == [k \in {0} |-> <<>>]
           X == [k \in {0} |-> TRUE]
<1>1. Len(log) = 0 /\ 0 .. Len(log) = {0} /\ 1 .. Len(log) = {}
  BY DEF ApplyInit
<1>2. <<>> \in Seq(Txs) /\ PrefixOf(<<>>, <<>>)
  BY DEF PrefixOf
<1>3. History(I, X)
  BY <1>1, <1>2 DEF History
<1>4. OnHistory(I, X)
  BY DEF OnHistory, ApplyInit
<1> QED BY <1>3, <1>4, InitTInv DEF HInv

\* Prefixes of prefixes are prefixes.
LEMMA PrefixTransitive ==
  ASSUME NEW r \in Seq(Txs), NEW s \in Seq(Txs), NEW u \in Seq(Txs),
         PrefixOf(r, s), PrefixOf(s, u)
  PROVE  PrefixOf(r, u)
BY DEF PrefixOf

\* An entry extends a ledger or leaves it.
LEMMA AfterExtends ==
  ASSUME NEW s \in Seq(Txs), NEW x \in BOOLEAN, NEW e \in Entry
  PROVE  /\ After(s, x, e) \in Seq(Txs)
         /\ PrefixOf(s, After(s, x, e))
         /\ SwitchAfter(x, e) \in BOOLEAN
<1>1. e.key \in Txs
  BY DEF Entry
<1>2. Append(s, e.key) \in Seq(Txs) /\ PrefixOf(s, Append(s, e.key)) /\ PrefixOf(s, s)
  BY <1>1 DEF PrefixOf
<1>3. After(s, x, e) \in Seq(Txs) /\ PrefixOf(s, After(s, x, e))
  BY <1>2 DEF After
<1>4. SwitchAfter(x, e) \in BOOLEAN
  BY DEF SwitchAfter, Switched
<1> QED BY <1>3, <1>4

\* A transaction MSB confirms now changes no ledger of the history: the entries
\* refer to lengths MSB had before.
LEMMA MsbKeepsHistory ==
  ASSUME TInv, NEW t \in Txs, MsbConfirms(t), NEW I, NEW X, History(I, X)
  PROVE  History(I, X)'
<1>1. ASSUME NEW k \in 1 .. Len(log), NEW s, NEW x
      PROVE  After(s, x, log[k]) = After(s, x, log[k])'
  <2>1. log[k] \in Entry /\ log[k].msbsl \in Nat /\ log[k].msbsl <= msbLen /\ log[k].key \in Txs
    BY LogEntryType DEF TInv, RefersToPast, Entry, Lengths
  <2>2. confirmedAt[log[k].key] \in 1 .. log[k].msbsl <=> confirmedAt'[log[k].key] \in 1 .. log[k].msbsl
    BY <2>1 DEF TInv, ApplyTypeOK, MsbConfirms, Lengths
  <2>3. log' = log
    BY DEF MsbConfirms
  <2> QED BY <2>2, <2>3 DEF After, Valid
<1>2. log' = log
  BY DEF MsbConfirms
<1>3. \A k \in 1 .. Len(log) : I[k] = After(I[k - 1], X[k - 1], log[k])'
  BY <1>1 DEF History
<1>4. \A k \in 1 .. Len(log) : X[k] = SwitchAfter(X[k - 1], log[k])'
  BY <1>2 DEF History, SwitchAfter, Switched
<1> QED BY <1>2, <1>3, <1>4 DEF History

\* An appended entry adds one ledger to the history.
LEMMA AppendExtendsHistory ==
  ASSUME TInv, NEW e \in Entries, AppendEntry(e), NEW I, NEW X, History(I, X), OnHistory(I, X)
  PROVE  \E J, Y : (History(J, Y) /\ OnHistory(J, Y))'
<1>1. PICK n \in Nat : n = Len(log)
  BY DEF TInv, ApplyTypeOK
<1>2. e \in Entry
  BY EntriesAssumption
<1>3. /\ Len(log') = n + 1
      /\ \A k \in 1 .. n : log'[k] = log[k]
      /\ log'[n + 1] = e
      /\ confirmedAt' = confirmedAt /\ index' = index /\ applied' = applied /\ txen' = txen
  BY <1>1, <1>2 DEF AppendEntry, TInv, ApplyTypeOK, msbVars, peerVars
<1>4. /\ \A k \in 0 .. n : I[k] \in Seq(Txs) /\ X[k] \in BOOLEAN
      /\ I[0] = <<>> /\ X[0] = TRUE
      /\ \A k \in 1 .. n : I[k] = After(I[k - 1], X[k - 1], log[k])
      /\ \A k \in 1 .. n : X[k] = SwitchAfter(X[k - 1], log[k])
      /\ \A j, k \in 0 .. n : j <= k => PrefixOf(I[j], I[k])
  BY <1>1 DEF History
<1>5. PICK s : s = After(I[n], X[n], e)
  OBVIOUS
<1>6. PICK x : x = SwitchAfter(X[n], e)
  OBVIOUS
<1>7. s \in Seq(Txs) /\ PrefixOf(I[n], s) /\ x \in BOOLEAN
  <2>1. I[n] \in Seq(Txs) /\ X[n] \in BOOLEAN
    BY <1>4
  <2>2. /\ After(I[n], X[n], e) \in Seq(Txs)
        /\ PrefixOf(I[n], After(I[n], X[n], e))
        /\ SwitchAfter(X[n], e) \in BOOLEAN
    BY <1>2, <2>1, AfterExtends
  <2> QED BY <2>2, <1>5, <1>6
<1>8. PICK J : J = [k \in 0 .. n + 1 |-> IF k = n + 1 THEN s ELSE I[k]]
  OBVIOUS
<1>9. PICK Y : Y = [k \in 0 .. n + 1 |-> IF k = n + 1 THEN x ELSE X[k]]
  OBVIOUS
<1>10. \A k \in 0 .. n + 1 : k = n + 1 \/ k \in 0 .. n
  OBVIOUS
<1>11. \A k \in 0 .. n : J[k] = I[k] /\ Y[k] = X[k]
  BY <1>8, <1>9
<1>12. J[n + 1] = s /\ Y[n + 1] = x
  BY <1>8, <1>9
<1>13. J \in [0 .. n + 1 -> Seq(Txs)]
  BY <1>4, <1>7, <1>8, <1>10
<1>14. Y \in [0 .. n + 1 -> BOOLEAN]
  <2>1. \A k \in 0 .. n + 1 : (IF k = n + 1 THEN x ELSE X[k]) \in BOOLEAN
    BY <1>4, <1>7, <1>10
  <2> QED BY <1>9, <2>1
<1>15. \A r, y, f : After(r, y, f)' = After(r, y, f)
  BY <1>3 DEF After, Valid
<1>16. ASSUME NEW k \in 1 .. n + 1
       PROVE  J[k] = After(J[k - 1], Y[k - 1], log'[k])
  <2>1. k - 1 \in 0 .. n
    OBVIOUS
  <2>2. CASE k = n + 1
    BY <2>1, <2>2, <1>3, <1>5, <1>11, <1>12
  <2>3. CASE k \in 1 .. n
    BY <2>1, <2>3, <1>3, <1>4, <1>11
  <2> QED BY <2>2, <2>3
<1>17. ASSUME NEW k \in 1 .. n + 1
       PROVE  Y[k] = SwitchAfter(Y[k - 1], log'[k])
  <2>1. k - 1 \in 0 .. n
    OBVIOUS
  <2>2. CASE k = n + 1
    BY <2>1, <2>2, <1>3, <1>6, <1>11, <1>12
  <2>3. CASE k \in 1 .. n
    BY <2>1, <2>3, <1>3, <1>4, <1>11
  <2> QED BY <2>2, <2>3
<1>18. ASSUME NEW j \in 0 .. n + 1, NEW k \in 0 .. n + 1, j <= k
       PROVE  PrefixOf(J[j], J[k])
  <2>1. CASE k \in 0 .. n
    <3>1. j \in 0 .. n
      BY <2>1, <1>18
    <3> QED BY <3>1, <2>1, <1>4, <1>11, <1>18
  <2>2. CASE k = n + 1 /\ j \in 0 .. n
    <3>1. PrefixOf(I[j], I[n]) /\ I[j] \in Seq(Txs) /\ I[n] \in Seq(Txs)
      BY <2>2, <1>4
    <3>2. PrefixOf(I[j], s)
      BY <3>1, <1>7, PrefixTransitive
    <3> QED BY <3>2, <2>2, <1>11, <1>12
  <2>3. CASE k = n + 1 /\ j = n + 1
    BY <2>3, <1>7, <1>12 DEF PrefixOf
  <2> QED BY <2>1, <2>2, <2>3, <1>10
<1>19. \A r, f : SwitchAfter(r, f)' = SwitchAfter(r, f)
  BY DEF SwitchAfter, Switched
<1>20. History(J, Y)'
  <2>1. J[0] = <<>> /\ Y[0] = TRUE
    BY <1>4, <1>11
  <2>2. \A k \in 1 .. Len(log') : /\ J[k] = After(J[k - 1], Y[k - 1], log[k])'
                                  /\ Y[k] = SwitchAfter(Y[k - 1], log[k])'
    BY <1>3, <1>15, <1>16, <1>17, <1>19
  <2> QED BY <2>1, <2>2, <1>3, <1>13, <1>14, <1>18 DEF History
<1>21. OnHistory(J, Y)'
  <2>1. \A p \in Peers : applied[p] \in 0 .. n
    BY <1>1 DEF TInv, ApplyTypeOK
  <2> QED BY <2>1, <1>3, <1>11 DEF OnHistory
<1> QED BY <1>20, <1>21

\* A step that keeps the log and MSB's confirmations keeps the history.
LEMMA SameHistory ==
  ASSUME NEW I, NEW X, History(I, X), UNCHANGED <<log, confirmedAt>>
  PROVE  History(I, X)'
BY DEF History, After, Valid, SwitchAfter, Switched

\* A peer skips an entry because its own replica is behind, not because of the
\* absolute limit: the one outcome of the handler that differs between peers.
LagSkip(p) == SkipTx(p) /\ NextEntry(p).msbsl <= MaxSigned
NoLagSkip == \A p \in Peers : ~LagSkip(p)

\* What a peer does with its next entry is what the history says, unless it
\* skips the entry for its lag.
LEMMA HandleStaysOnHistory ==
  ASSUME TInv, NoLagSkip, NEW I, NEW X, History(I, X), OnHistory(I, X),
         NEW p \in Peers, SkipTx(p) \/ ExecuteTx(p) \/ SwitchTx(p)
  PROVE  OnHistory(I, X)'
<1> DEFINE k == applied[p] + 1
           e == log[k]
<1>1. /\ HasNext(p) /\ e = NextEntry(p) /\ e \in Entry
      /\ k \in 1 .. Len(log) /\ k - 1 = applied[p]
  BY NextEntryType DEF TInv, WaitsAtTx, SkipTx, ExecuteTx, SwitchTx, AtEntry, NextEntry, ApplyTypeOK
<1>2. /\ e.msbsl \in Nat /\ e.msbsl <= MaxMsb /\ e.key \in Txs
      /\ local[p] \in Nat /\ confirmedAt[e.key] \in Nat
  BY <1>1, ApplyAssumption DEF Entry, Lengths, TInv, ApplyTypeOK
<1>3. /\ I[k] = After(index[p], txen[p], e)
      /\ X[k] = SwitchAfter(txen[p], e)
  <2>1. index[p] = I[k - 1] /\ txen[p] = X[k - 1]
    BY <1>1 DEF OnHistory
  <2> QED BY <1>1, <2>1 DEF History
<1>4. applied' = [applied EXCEPT ![p] = k]
  BY DEF SkipTx, ExecuteTx, SwitchTx
<1> HIDE DEF k, e
<1>5. ASSUME index' = [index EXCEPT ![p] = After(index[p], txen[p], e)],
             txen' = [txen EXCEPT ![p] = SwitchAfter(txen[p], e)]
      PROVE  OnHistory(I, X)'
  BY <1>3, <1>4, <1>5 DEF OnHistory, TInv, ApplyTypeOK
<1>6. index \in [Peers -> Seq(Txs)] /\ txen \in [Peers -> BOOLEAN]
  BY DEF TInv, ApplyTypeOK
<1>7. CASE SkipTx(p)
  <2>1. e.type = "tx"
    BY <1>1, <1>7 DEF SkipTx
  <2>2. ~(e.msbsl <= MaxSigned)
    BY <1>1, <1>7 DEF NoLagSkip, LagSkip
  <2>3. After(index[p], txen[p], e) = index[p] /\ SwitchAfter(txen[p], e) = txen[p]
    BY <2>1, <2>2 DEF After, Valid, SwitchAfter
  <2> QED BY <1>5, <1>6, <1>7, <2>3 DEF SkipTx
<1>8. CASE ExecuteTx(p)
  <2>1. e.type = "tx" /\ e.msbsl <= MaxSigned /\ local[p] >= e.msbsl
    BY <1>1, <1>8 DEF ExecuteTx, TInv, WaitsAtTx, CaughtUp
  <2>2. ConfirmedIn(p, e) <=> confirmedAt[e.key] \in 1 .. e.msbsl
    BY <2>1, <1>2 DEF ConfirmedIn
  <2>3. Accepts(p, e) <=> Valid(index[p], txen[p], e)
    BY <2>1, <2>2 DEF Accepts, Valid, Indexed
  <2>4. SwitchAfter(txen[p], e) = txen[p]
    BY <2>1 DEF SwitchAfter
  <2>5. index' = [index EXCEPT ![p] = After(index[p], txen[p], e)]
    BY <1>1, <1>6, <1>8, <2>3 DEF ExecuteTx, After
  <2>6. txen' = [txen EXCEPT ![p] = SwitchAfter(txen[p], e)]
    BY <1>6, <1>8, <2>4 DEF ExecuteTx
  <2> QED BY <1>5, <2>5, <2>6
<1>9. CASE SwitchTx(p)
  <2>1. e.type # "tx"
    BY <1>1, <1>9 DEF SwitchTx
  <2>2. After(index[p], txen[p], e) = index[p] /\ SwitchAfter(txen[p], e) = Switched(e)
    BY <2>1 DEF After, Valid, SwitchAfter
  <2> QED BY <1>1, <1>5, <1>6, <1>9, <2>2 DEF SwitchTx
<1> QED BY <1>7, <1>8, <1>9

\* After every step there is a history again.
LEMMA NextHInv ==
  HInv /\ [ApplyNext]_applyVars /\ [NoLagSkip]_applyVars => HInv'
<1> SUFFICES ASSUME HInv, [ApplyNext]_applyVars, [NoLagSkip]_applyVars PROVE HInv'
  OBVIOUS
<1>1. TInv /\ TInv'
  BY NextTInv DEF HInv
<1>2. PICK I, X : History(I, X) /\ OnHistory(I, X)
  BY DEF HInv
<1>3. SUFFICES \E J, Y : (History(J, Y) /\ OnHistory(J, Y))'
  BY <1>1 DEF HInv
<1>4. ASSUME UNCHANGED <<log, confirmedAt, index, applied, txen>>
      PROVE  (History(I, X) /\ OnHistory(I, X))'
  BY <1>2, <1>4, SameHistory DEF OnHistory
<1>5. CASE MsbGrows
  BY <1>4, <1>5 DEF MsbGrows, peerVars
<1>6. ASSUME NEW t \in Txs, MsbConfirms(t)
      PROVE  (History(I, X) /\ OnHistory(I, X))'
  <2>1. History(I, X)'
    BY <1>1, <1>2, <1>6, MsbKeepsHistory
  <2>2. OnHistory(I, X)'
    BY <1>2, <1>6 DEF OnHistory, MsbConfirms, peerVars
  <2> QED BY <2>1, <2>2
<1>7. ASSUME NEW e \in Entries, AppendEntry(e)
      PROVE  \E J, Y : (History(J, Y) /\ OnHistory(J, Y))'
  BY <1>1, <1>2, <1>7, AppendExtendsHistory
<1>8. ASSUME NEW p \in Peers, Replicate(p) \/ WaitForMsb(p) \/ ThrowTx(p) \/ RestartApply(p)
      PROVE  (History(I, X) /\ OnHistory(I, X))'
  BY <1>4, <1>8 DEF Replicate, WaitForMsb, ThrowTx, RestartApply, msbVars, peerVars
<1>9. ASSUME NEW p \in Peers, SkipTx(p) \/ ExecuteTx(p) \/ SwitchTx(p)
      PROVE  (History(I, X) /\ OnHistory(I, X))'
  <2>1. UNCHANGED <<log, confirmedAt>>
    BY <1>9 DEF SkipTx, ExecuteTx, SwitchTx, msbVars
  <2>2. History(I, X)'
    BY <1>2, <2>1, SameHistory
  <2>3. CASE NoLagSkip
    BY <1>1, <1>2, <1>9, <2>2, <2>3, HandleStaysOnHistory
  <2>4. CASE UNCHANGED applyVars
    BY <1>4, <2>4 DEF applyVars, msbVars, peerVars
  <2> QED BY <2>3, <2>4
<1>10. CASE UNCHANGED applyVars
  BY <1>4, <1>10 DEF applyVars, msbVars, peerVars
<1> QED BY <1>5, <1>6, <1>7, <1>8, <1>9, <1>10 DEF ApplyNext, Handle

\* On one history, peers agree.
LEMMA HistoryAgrees == HInv => Agreement
<1> SUFFICES ASSUME HInv, NEW p \in Peers, NEW q \in Peers
             PROVE  /\ applied[p] <= applied[q] => PrefixOf(index[p], index[q])
                    /\ applied[p] = applied[q] => txen[p] = txen[q]
  BY DEF Agreement
<1>1. PICK I, X : History(I, X) /\ OnHistory(I, X)
  BY DEF HInv
<1>2. applied[p] \in 0 .. Len(log) /\ applied[q] \in 0 .. Len(log)
  BY DEF HInv, TInv, ApplyTypeOK
<1> QED BY <1>1, <1>2 DEF History, OnHistory

\* The skip for a lag is the only way to disagree: in a run without it, every
\* peer derives the same ledger and the same switch from the same log, whatever
\* Delta is, in whatever order replicas grow, and through waits and restarts.
THEOREM OnlyLagSkipsDisagree == ApplySpec /\ [][NoLagSkip]_applyVars => []Agreement
BY InitHInv, NextHInv, HistoryAgrees, PTL DEF ApplySpec

\* No replica that MSB has begun to reach is more than Delta behind MSB.
WithinDelta == \A p \in Peers : local[p] > 0 => msbLen <= local[p] + Delta

\* Then no entry is skipped for a lag.
LEMMA WithinDeltaNoLagSkip == TInv /\ WithinDelta => NoLagSkip
<1> SUFFICES ASSUME TInv, WithinDelta, NEW p \in Peers, LagSkip(p) PROVE FALSE
  BY DEF NoLagSkip
<1>1. PICK e : e = NextEntry(p)
  OBVIOUS
<1>2. e.msbsl \in Nat /\ e.msbsl <= msbLen
  BY <1>1, NextEntryType, LogEntryType DEF TInv, RefersToPast, LagSkip, SkipTx, AtEntry, NextEntry, Lengths
<1>3. msbLen \in Nat /\ local[p] \in Nat
  BY DEF TInv, ApplyTypeOK, Lengths
<1>4. local[p] > 0 /\ e.msbsl > local[p] + Delta
  BY <1>1, <1>2, ApplyAssumption DEF LagSkip, SkipTx, TooFar
<1> QED BY <1>2, <1>3, <1>4, ApplyAssumption DEF WithinDelta

\* As long as no replica lags behind MSB by more than Delta, peers agree.
THEOREM PeersAgree == ApplySpec /\ []WithinDelta => []Agreement
BY AlwaysTInv, WithinDeltaNoLagSkip, OnlyLagSkipsDisagree, PTL

\* If no replica can lag by more than Delta, that is always so.
LEMMA NeverBeyondDelta ==
  ASSUME Delta >= MaxMsb
  PROVE  ApplySpec => []WithinDelta
<1>1. TInv => WithinDelta
  BY ApplyAssumption DEF TInv, ApplyTypeOK, Lengths, WithinDelta
<1> QED BY <1>1, AlwaysTInv, PTL

-----------------------------------------------------------------------------
(* The ledger is what the log and MSB make due. *)

\* The switch of a peer is the one the entries it applied leave.
SwitchFollows == \A p \in Peers : txen[p] <=> EnabledAt(applied[p] + 1)

LInv == TInv /\ LedgerIsWhatIsDue /\ SwitchFollows

\* The log only grows at its end.
LEMMA LogKept ==
  ASSUME TInv, [ApplyNext]_applyVars
  PROVE  /\ Len(log) \in Nat /\ Len(log') \in Nat /\ Len(log) <= Len(log')
         /\ \A i \in 1 .. Len(log) : log'[i] = log[i]
<1>1. Len(log) \in Nat
  BY DEF TInv, ApplyTypeOK
<1>2. CASE log' = log
  BY <1>1, <1>2
<1>3. ASSUME NEW e \in Entries, AppendEntry(e)
      PROVE  Len(log') = Len(log) + 1 /\ \A i \in 1 .. Len(log) : log'[i] = log[i]
  BY <1>3, EntriesAssumption DEF AppendEntry, TInv, ApplyTypeOK
<1>4. CASE MsbGrows \/ (\E t \in Txs : MsbConfirms(t)) \/ UNCHANGED applyVars
  BY <1>2, <1>4 DEF MsbGrows, MsbConfirms, applyVars
<1>5. CASE \E p \in Peers : Replicate(p) \/ Handle(p) \/ RestartApply(p)
  BY <1>2, <1>5 DEF Replicate, Handle, SkipTx, WaitForMsb, ExecuteTx, ThrowTx, SwitchTx, RestartApply
<1> QED BY <1>1, <1>3, <1>4, <1>5 DEF ApplyNext

\* Whether an entry finds its transaction confirmed was decided when it was
\* appended: MSB confirms later only beyond the length in it.
LEMMA ConfirmationDecided ==
  ASSUME TInv, [ApplyNext]_applyVars, NEW i \in 1 .. Len(log)
  PROVE  confirmedAt'[log[i].key] \in 1 .. log[i].msbsl <=> confirmedAt[log[i].key] \in 1 .. log[i].msbsl
<1>1. log[i].key \in Txs /\ log[i].msbsl \in Nat /\ log[i].msbsl <= msbLen /\ msbLen \in Nat
  BY LogEntryType DEF TInv, ApplyTypeOK, RefersToPast, Entry, Lengths
<1>2. ASSUME NEW t \in Txs, MsbConfirms(t)
      PROVE  confirmedAt'[log[i].key] \in 1 .. log[i].msbsl <=> confirmedAt[log[i].key] \in 1 .. log[i].msbsl
  BY <1>1, <1>2 DEF MsbConfirms, TInv, ApplyTypeOK
<1>3. CASE MsbGrows \/ (\E e \in Entries : AppendEntry(e)) \/ UNCHANGED applyVars
  BY <1>3 DEF MsbGrows, AppendEntry, applyVars, msbVars
<1>4. CASE \E p \in Peers : Replicate(p) \/ Handle(p) \/ RestartApply(p)
  BY <1>4 DEF Replicate, Handle, SkipTx, WaitForMsb, ExecuteTx, ThrowTx, SwitchTx, RestartApply, msbVars
<1> QED BY <1>2, <1>3, <1>4 DEF ApplyNext

\* What is due stays due, and nothing becomes due later.
LEMMA DueKept ==
  ASSUME TInv, [ApplyNext]_applyVars
  PROVE  /\ \A i \in 1 .. Len(log) + 1 : EnabledAt(i)' <=> EnabledAt(i)
         /\ \A i \in 1 .. Len(log) : Due(i)' <=> Due(i)
<1>1. ASSUME NEW i \in 1 .. Len(log) + 1
      PROVE  EnabledAt(i)' <=> EnabledAt(i)
  <2>1. \A j \in 1 .. i - 1 : log'[j] = log[j]
    BY LogKept
  <2> QED BY <2>1, LogKept DEF EnabledAt
<1>2. ASSUME NEW i \in 1 .. Len(log)
      PROVE  Due(i)' <=> Due(i)
  <2>1. log'[i] = log[i]
    BY LogKept
  <2>2. EnabledAt(i)' <=> EnabledAt(i)
    BY <1>1, LogKept
  <2> QED BY <2>1, <2>2, ConfirmationDecided DEF Due
<1> QED BY <1>1, <1>2

\* A switch entry sets the switch; a tx entry leaves it.
LEMMA EnabledAfter ==
  ASSUME TInv, NEW k \in 1 .. Len(log)
  PROVE  EnabledAt(k + 1) <=> IF log[k].type = "tx" THEN EnabledAt(k) ELSE Switched(log[k])
<1>1. k \in Nat \ {0} /\ k \in 1 .. (k + 1) - 1
  BY DEF TInv, ApplyTypeOK
<1>2. log[k].type \in {"tx", "txenOn", "txenOff"}
  BY LogEntryType DEF TInv, Entry
<1>3. CASE log[k].type = "tx"
  <2>1. EnabledAt(k + 1) => EnabledAt(k)
    BY <1>1, <1>3 DEF EnabledAt
  <2>2. EnabledAt(k) => EnabledAt(k + 1)
    BY <1>1, <1>3 DEF EnabledAt
  <2> QED BY <1>3, <2>1, <2>2
<1>4. CASE log[k].type = "txenOn"
  <2>1. \A j \in 1 .. (k + 1) - 1 : j = k \/ k \in j + 1 .. (k + 1) - 1
    BY <1>1
  <2>2. EnabledAt(k + 1)
    BY <1>4, <2>1 DEF EnabledAt
  <2> QED BY <1>4, <2>2 DEF Switched
<1>5. CASE log[k].type = "txenOff"
  <2>1. k + 1 .. (k + 1) - 1 = {}
    BY <1>1
  <2>2. ~EnabledAt(k + 1)
    BY <1>1, <1>5, <2>1 DEF EnabledAt
  <2> QED BY <1>5, <2>2 DEF Switched
<1> QED BY <1>2, <1>3, <1>4, <1>5

\* A peer that takes its next entry executes the transaction that is due with it.
AdvancesWith(p, k) ==
  /\ k = applied[p] + 1
  /\ applied' = [applied EXCEPT ![p] = k]
  /\ index' \in [Peers -> Seq(Txs)]
  /\ \A q \in Peers \ {p} : index'[q] = index[q]
  /\ \A t \in Txs : Indexed(p, t)' <=> Indexed(p, t) \/ (log[k].key = t /\ Due(k))
  /\ txen' = [txen EXCEPT ![p] = IF log[k].type = "tx" THEN @ ELSE Switched(log[k])]

\* Then the ledger stays what is due.
LEMMA AdvanceKeepsLedger ==
  ASSUME LInv, [ApplyNext]_applyVars, NEW p \in Peers, HasNext(p), AdvancesWith(p, applied[p] + 1)
  PROVE  LedgerIsWhatIsDue' /\ SwitchFollows'
<1> DEFINE k == applied[p] + 1
<1>1. /\ k \in 1 .. Len(log) /\ k \in Nat /\ applied \in [Peers -> Nat] /\ txen \in [Peers -> BOOLEAN]
      /\ \A q \in Peers : applied[q] <= Len(log)
      /\ Len(log) \in Nat
  BY DEF HasNext, LInv, TInv, ApplyTypeOK
<1>2. /\ \A i \in 1 .. Len(log) + 1 : EnabledAt(i)' <=> EnabledAt(i)
      /\ \A i \in 1 .. Len(log) : /\ Due(i)' <=> Due(i)
                                  /\ log'[i] = log[i]
  BY DueKept, LogKept DEF LInv
<1>3. applied'[p] = k /\ \A q \in Peers \ {p} : applied'[q] = applied[q]
  BY <1>1 DEF AdvancesWith
<1>4. ASSUME NEW q \in Peers, q # p, NEW t \in Txs
      PROVE  Indexed(q, t)' <=> \E i \in 1 .. applied'[q] : log'[i].key = t /\ Due(i)'
  <2>1. Indexed(q, t)' <=> Indexed(q, t)
    BY <1>4 DEF AdvancesWith, Indexed
  <2>2. \A i \in 1 .. applied[q] : i \in 1 .. Len(log)
    BY <1>1
  <2> QED BY <1>2, <1>3, <1>4, <2>1, <2>2 DEF LInv, LedgerIsWhatIsDue
<1>5. ASSUME NEW t \in Txs
      PROVE  Indexed(p, t)' <=> \E i \in 1 .. applied'[p] : log'[i].key = t /\ Due(i)'
  <2>1. Indexed(p, t)' <=> Indexed(p, t) \/ (log[k].key = t /\ Due(k))
    BY DEF AdvancesWith
  <2>2. Indexed(p, t) <=> \E i \in 1 .. applied[p] : log[i].key = t /\ Due(i)
    BY DEF LInv, LedgerIsWhatIsDue
  <2>3. \A i : i \in 1 .. k <=> i \in 1 .. applied[p] \/ i = k
    BY <1>1
  <2>4. \A i \in 1 .. k : i \in 1 .. Len(log)
    BY <1>1
  <2> HIDE DEF k
  <2> QED BY <1>2, <1>3, <2>1, <2>2, <2>3, <2>4
<1>6. LedgerIsWhatIsDue'
  BY <1>4, <1>5 DEF LedgerIsWhatIsDue
<1>7. ASSUME NEW q \in Peers PROVE (txen[q] <=> EnabledAt(applied[q] + 1))'
  <2>1. CASE q # p
    <3>1. PICK n : n = applied[q] + 1
      OBVIOUS
    <3>2. txen'[q] = txen[q] /\ applied'[q] + 1 = n /\ n \in 1 .. Len(log) + 1
      BY <1>1, <1>3, <2>1, <3>1 DEF AdvancesWith
    <3>3. EnabledAt(n)' <=> EnabledAt(n)
      BY <1>2, <3>2
    <3>4. EnabledAt(applied[q] + 1)' <=> EnabledAt(n)'
      BY <3>2 DEF EnabledAt
    <3>5. txen[q] <=> EnabledAt(n)
      BY <3>1 DEF LInv, SwitchFollows
    <3> QED BY <3>2, <3>3, <3>4, <3>5
  <2>2. CASE q = p
    <3>1. PICK n : n = k
      OBVIOUS
    <3>2. txen'[p] = IF log[n].type = "tx" THEN txen[p] ELSE Switched(log[n])
      BY <1>1, <3>1 DEF AdvancesWith
    <3>3. txen[p] <=> EnabledAt(n)
      BY <3>1 DEF LInv, SwitchFollows
    <3>4. EnabledAt(n + 1) <=> IF log[n].type = "tx" THEN EnabledAt(n) ELSE Switched(log[n])
      BY <1>1, <3>1, EnabledAfter DEF LInv
    <3>5. n + 1 \in 1 .. Len(log) + 1
      BY <1>1, <3>1
    <3>6. EnabledAt(n + 1)' <=> EnabledAt(n + 1)
      BY <1>2, <3>5
    <3>7. EnabledAt(applied[p] + 1)' <=> EnabledAt(n + 1)'
      BY <1>3, <3>1 DEF EnabledAt
    <3> QED BY <2>2, <3>2, <3>3, <3>4, <3>6, <3>7
  <2> QED BY <2>1, <2>2
<1>8. SwitchFollows'
  BY <1>7 DEF SwitchFollows
<1> QED BY <1>6, <1>8

\* A step that moves no peer keeps the ledgers what is due.
LEMMA StayKeepsLedger ==
  ASSUME LInv, [ApplyNext]_applyVars, UNCHANGED <<applied, index, txen>>
  PROVE  LedgerIsWhatIsDue' /\ SwitchFollows'
<1>1. \A q \in Peers : applied[q] \in Nat /\ applied[q] <= Len(log) /\ Len(log) \in Nat
  BY DEF LInv, TInv, ApplyTypeOK
<1>2. /\ \A i \in 1 .. Len(log) + 1 : EnabledAt(i)' <=> EnabledAt(i)
      /\ \A i \in 1 .. Len(log) : Due(i)' <=> Due(i)
      /\ \A i \in 1 .. Len(log) : log'[i] = log[i]
  BY DueKept, LogKept DEF LInv
<1>3. \A q \in Peers : \A i \in 1 .. applied[q] : i \in 1 .. Len(log)
  BY <1>1
<1>4. \A q \in Peers : applied[q] + 1 \in 1 .. Len(log) + 1
  BY <1>1
<1>5. SwitchFollows'
  BY <1>2, <1>4 DEF LInv, SwitchFollows
<1>6. ASSUME NEW q \in Peers, NEW t \in Txs
      PROVE  Indexed(q, t)' <=> \E i \in 1 .. applied'[q] : log'[i].key = t /\ Due(i)'
  <2>1. Indexed(q, t)' <=> Indexed(q, t)
    BY DEF Indexed
  <2>2. Indexed(q, t) <=> \E i \in 1 .. applied[q] : log[i].key = t /\ Due(i)
    BY DEF LInv, LedgerIsWhatIsDue
  <2> QED BY <1>2, <1>3, <2>1, <2>2
<1> QED BY <1>5, <1>6 DEF LedgerIsWhatIsDue

\* The handler executes exactly what is due.
LEMMA HandleKeepsLedger ==
  ASSUME LInv, [ApplyNext]_applyVars, NoLagSkip,
         NEW p \in Peers, SkipTx(p) \/ ExecuteTx(p) \/ SwitchTx(p)
  PROVE  HasNext(p) /\ AdvancesWith(p, applied[p] + 1)
<1> DEFINE k == applied[p] + 1
           e == log[k]
<1>1. HasNext(p) /\ e = NextEntry(p) /\ e \in Entry
  BY NextEntryType DEF LInv, TInv, WaitsAtTx, SkipTx, ExecuteTx, SwitchTx, AtEntry, NextEntry
<1>2. /\ e.msbsl \in Nat /\ e.key \in Txs
      /\ local[p] \in Nat /\ confirmedAt[e.key] \in Nat
      /\ index \in [Peers -> Seq(Txs)] /\ txen \in [Peers -> BOOLEAN]
  BY <1>1 DEF Entry, Lengths, LInv, TInv, ApplyTypeOK
<1>3. txen[p] <=> EnabledAt(k)
  BY DEF LInv, SwitchFollows
<1>4. applied' = [applied EXCEPT ![p] = k]
  BY DEF SkipTx, ExecuteTx, SwitchTx
<1>5. CASE SkipTx(p)
  <2>1. e.type = "tx" /\ ~(e.msbsl <= MaxSigned) /\ index' = index /\ txen' = txen
    BY <1>1, <1>5 DEF SkipTx, NoLagSkip, LagSkip
  <2>2. ~Due(k)
    BY <2>1 DEF Due
  <2>3. \A t \in Txs : Indexed(p, t)' <=> Indexed(p, t)
    BY <2>1 DEF Indexed
  <2>4. txen' = [txen EXCEPT ![p] = IF e.type = "tx" THEN @ ELSE Switched(e)]
    BY <1>2, <2>1
  <2> HIDE DEF e
  <2> QED BY <1>1, <1>2, <1>4, <2>1, <2>2, <2>3, <2>4 DEF AdvancesWith, e
<1>6. CASE SwitchTx(p)
  <2>1. e.type # "tx" /\ index' = index /\ txen' = [txen EXCEPT ![p] = Switched(e)]
    BY <1>1, <1>6 DEF SwitchTx
  <2>2. ~Due(k)
    BY <2>1 DEF Due
  <2>3. \A t \in Txs : Indexed(p, t)' <=> Indexed(p, t)
    BY <2>1 DEF Indexed
  <2>4. txen' = [txen EXCEPT ![p] = IF e.type = "tx" THEN @ ELSE Switched(e)]
    BY <1>2, <2>1
  <2> QED BY <1>1, <1>2, <1>4, <2>1, <2>2, <2>3, <2>4 DEF AdvancesWith
<1>7. CASE ExecuteTx(p)
  <2>1. e.type = "tx" /\ e.msbsl <= MaxSigned /\ local[p] >= e.msbsl
    BY <1>1, <1>7 DEF ExecuteTx, LInv, TInv, WaitsAtTx, CaughtUp
  <2>2. ConfirmedIn(p, e) <=> confirmedAt[e.key] \in 1 .. e.msbsl
    BY <2>1, <1>2 DEF ConfirmedIn
  <2>3. Accepts(p, e) <=> Due(k) /\ ~Indexed(p, e.key)
    BY <1>3, <2>1, <2>2 DEF Accepts, Due
  <2>4. txen' = [txen EXCEPT ![p] = IF e.type = "tx" THEN @ ELSE Switched(e)]
    BY <1>2, <1>7, <2>1 DEF ExecuteTx
  <2>5. CASE Accepts(p, e)
    <3>1. index' = [index EXCEPT ![p] = Append(index[p], e.key)]
      BY <1>1, <1>7, <2>5 DEF ExecuteTx
    <3>2. /\ index'[p] = Append(index[p], e.key)
          /\ index' \in [Peers -> Seq(Txs)]
          /\ \A q \in Peers \ {p} : index'[q] = index[q]
      BY <1>2, <3>1
    <3>3. /\ Len(index[p]) \in Nat /\ Len(index'[p]) = Len(index[p]) + 1
          /\ \A i \in 1 .. Len(index[p]) : index'[p][i] = index[p][i]
          /\ index'[p][Len(index[p]) + 1] = e.key
      BY <1>2, <3>2
    <3>4. \A t \in Txs : Indexed(p, t)' <=> Indexed(p, t) \/ e.key = t
      BY <3>3 DEF Indexed
    <3>5. \A t \in Txs : Indexed(p, t)' <=> Indexed(p, t) \/ (e.key = t /\ Due(k))
      BY <2>3, <2>5, <3>4
    <3> QED BY <1>1, <1>4, <2>4, <3>2, <3>5 DEF AdvancesWith
  <2>6. CASE ~Accepts(p, e)
    <3>1. index' = index
      BY <1>1, <1>7, <2>6 DEF ExecuteTx
    <3>2. Due(k) => Indexed(p, e.key)
      BY <2>3, <2>6
    <3>3. \A t \in Txs : Indexed(p, t)' <=> Indexed(p, t) \/ (e.key = t /\ Due(k))
      BY <3>1, <3>2 DEF Indexed
    <3> QED BY <1>1, <1>2, <1>4, <2>4, <3>1, <3>3 DEF AdvancesWith
  <2> QED BY <2>5, <2>6
<1> QED BY <1>5, <1>6, <1>7

\* Every step but a skip for a lag keeps the ledgers what is due.
LEMMA NextLInv == LInv /\ [ApplyNext]_applyVars /\ [NoLagSkip]_applyVars => LInv'
<1> SUFFICES ASSUME LInv, [ApplyNext]_applyVars, [NoLagSkip]_applyVars PROVE LInv'
  OBVIOUS
<1>1. TInv'
  BY NextTInv DEF LInv
<1>2. CASE UNCHANGED <<applied, index, txen>>
  BY <1>1, <1>2, StayKeepsLedger DEF LInv
<1>3. ASSUME NEW p \in Peers, SkipTx(p) \/ ExecuteTx(p) \/ SwitchTx(p), NoLagSkip
      PROVE  LInv'
  BY <1>1, <1>3, HandleKeepsLedger, AdvanceKeepsLedger DEF LInv
<1>4. CASE UNCHANGED applyVars
  BY <1>2, <1>4 DEF applyVars, peerVars
<1>5. CASE MsbGrows \/ (\E t \in Txs : MsbConfirms(t)) \/ \E e \in Entries : AppendEntry(e)
  BY <1>2, <1>5 DEF MsbGrows, MsbConfirms, AppendEntry, peerVars
<1>6. ASSUME NEW p \in Peers, Replicate(p) \/ WaitForMsb(p) \/ ThrowTx(p) \/ RestartApply(p)
      PROVE  UNCHANGED <<applied, index, txen>>
  BY <1>6 DEF Replicate, WaitForMsb, ThrowTx, RestartApply, peerVars
<1> QED BY <1>2, <1>3, <1>4, <1>5, <1>6 DEF ApplyNext, Handle

\* The ledgers are what is due initially.
LEMMA InitLInv == ApplyInit => LInv
<1> SUFFICES ASSUME ApplyInit PROVE LInv
  OBVIOUS
<1>1. \A p \in Peers : applied[p] = 0 /\ Len(index[p]) = 0 /\ txen[p] = TRUE
  BY DEF ApplyInit
<1>2. LedgerIsWhatIsDue /\ SwitchFollows
  BY <1>1 DEF LedgerIsWhatIsDue, SwitchFollows, Indexed, EnabledAt
<1> QED BY <1>2, InitTInv DEF LInv

\* While no replica lags by more than Delta, a peer has executed exactly what the
\* entries it applied settle by the log and MSB alone.
THEOREM ExecutesWhatIsDue == ApplySpec /\ []WithinDelta => []LedgerIsWhatIsDue
<1>1. LInv => LedgerIsWhatIsDue
  BY DEF LInv
<1> QED BY <1>1, InitLInv, AlwaysTInv, WithinDeltaNoLagSkip, NextLInv, PTL DEF ApplySpec

\* No peer is past an entry whose function throws: its transaction is due, so it
\* would be in the ledger, where an error that leaves apply puts nothing.
NonePassesPoison == \A p \in Peers : \A i \in 1 .. applied[p] : ~Poison(i)

\* Every step but a skip for a lag keeps peers from passing such an entry.
LEMMA NextNonePasses ==
  ASSUME LInv, NonePassesPoison, [ApplyNext]_applyVars, [NoLagSkip]_applyVars
  PROVE  NonePassesPoison'
<1>1. /\ applied \in [Peers -> Nat] /\ Len(log) \in Nat
      /\ \A q \in Peers : applied[q] <= Len(log)
  BY DEF LInv, TInv, ApplyTypeOK
<1>2. \A i \in 1 .. Len(log) : Poison(i)' <=> Poison(i)
  BY DueKept, LogKept DEF LInv, Poison
<1>3. \A q \in Peers : \A i \in 1 .. applied[q] : i \in 1 .. Len(log)
  BY <1>1
<1>4. CASE applied' = applied
  BY <1>2, <1>3, <1>4 DEF NonePassesPoison
<1>5. ASSUME NEW p \in Peers, applied' = [applied EXCEPT ![p] = applied[p] + 1],
             applied[p] + 1 <= Len(log), ~Poison(applied[p] + 1)
      PROVE  NonePassesPoison'
  <2>1. \A q \in Peers : \A i \in 1 .. applied'[q] : i \in 1 .. applied[q] \/ (q = p /\ i = applied[p] + 1)
    BY <1>1, <1>5
  <2>2. \A q \in Peers : \A i \in 1 .. applied'[q] : i \in 1 .. Len(log) /\ ~Poison(i)
    BY <1>1, <1>3, <1>5, <2>1 DEF NonePassesPoison
  <2> QED BY <1>2, <2>2 DEF NonePassesPoison
<1>6. ASSUME NEW p \in Peers, SkipTx(p) \/ ExecuteTx(p) \/ SwitchTx(p), NoLagSkip
      PROVE  ~Poison(applied[p] + 1)
  <2> DEFINE k == applied[p] + 1
             e == log[k]
  <2>1. e = NextEntry(p) /\ e \in Entry
    BY <1>6, NextEntryType DEF LInv, TInv, WaitsAtTx, SkipTx, ExecuteTx, SwitchTx, AtEntry, NextEntry
  <2>2. /\ e.msbsl \in Nat /\ e.key \in Txs
        /\ local[p] \in Nat /\ confirmedAt[e.key] \in Nat
    BY <2>1 DEF Entry, Lengths, LInv, TInv, ApplyTypeOK
  <2>3. CASE SkipTx(p)
    BY <1>6, <2>1, <2>3 DEF SkipTx, NoLagSkip, LagSkip, Poison, Due
  <2>4. CASE SwitchTx(p)
    BY <2>1, <2>4 DEF SwitchTx, Poison, Due
  <2>5. CASE ExecuteTx(p)
    <3> SUFFICES ASSUME Poison(k) PROVE FALSE
      OBVIOUS
    <3>1. Due(k) /\ e.key \in Throwing
      BY DEF Poison
    <3>2. ~Accepts(p, e)
      BY <2>1, <2>5, <3>1 DEF ExecuteTx, Throws
    <3>3. local[p] >= e.msbsl /\ (txen[p] <=> EnabledAt(k))
      BY <2>1, <2>5 DEF ExecuteTx, CaughtUp, LInv, SwitchFollows
    <3>4. Indexed(p, e.key)
      BY <2>2, <3>1, <3>2, <3>3 DEF Accepts, ConfirmedIn, Due
    <3>5. \E i \in 1 .. applied[p] : log[i].key = e.key /\ Due(i)
      BY <2>2, <3>4 DEF LInv, LedgerIsWhatIsDue
    <3> QED BY <3>1, <3>5 DEF NonePassesPoison, Poison
  <2> QED BY <1>6, <2>3, <2>4, <2>5
<1>7. ASSUME NEW p \in Peers, SkipTx(p) \/ ExecuteTx(p) \/ SwitchTx(p), NoLagSkip
      PROVE  NonePassesPoison'
  <2>1. HasNext(p)
    BY <1>7 DEF LInv, TInv, WaitsAtTx, SkipTx, ExecuteTx, SwitchTx, AtEntry
  <2>2. applied' = [applied EXCEPT ![p] = applied[p] + 1]
    BY <1>7 DEF SkipTx, ExecuteTx, SwitchTx
  <2>3. applied[p] + 1 <= Len(log)
    BY <1>1, <2>1 DEF HasNext
  <2> QED BY <1>5, <1>6, <1>7, <2>2, <2>3
<1>8. CASE \/ MsbGrows \/ (\E t \in Txs : MsbConfirms(t)) \/ (\E e \in Entries : AppendEntry(e))
           \/ \E p \in Peers : Replicate(p) \/ WaitForMsb(p) \/ ThrowTx(p) \/ RestartApply(p)
           \/ UNCHANGED applyVars
  BY <1>4, <1>8 DEF MsbGrows, MsbConfirms, AppendEntry, Replicate, WaitForMsb, ThrowTx, RestartApply,
                    applyVars, peerVars
<1> QED BY <1>7, <1>8 DEF ApplyNext, Handle

\* While no replica lags by more than Delta, an error that leaves apply stops every
\* peer at the same entry: none passes it, however often it is restarted.
THEOREM ThrowsStopEveryPeer == ApplySpec /\ []WithinDelta => []NonePassesPoison
<1>1. ApplyInit => LInv /\ NonePassesPoison
  BY InitLInv DEF ApplyInit, NonePassesPoison
<1>2. LInv /\ NonePassesPoison /\ [ApplyNext]_applyVars /\ [NoLagSkip]_applyVars => NonePassesPoison'
  BY NextNonePasses
<1> QED BY <1>1, <1>2, AlwaysTInv, WithinDeltaNoLagSkip, NextLInv, PTL DEF ApplySpec

-----------------------------------------------------------------------------
(* Implementation of Settlement. *)

\* A step of TxApply confirms one transaction, executes one at one peer, or is
\* invisible.
LEMMA StepImplements ==
  ASSUME TInv, OnlySettledOnce, Agreement, Agreement', [ApplyNext]_applyVars
  PROVE  [Promise!Next]_<<{t \in Txs : confirmedAt[t] # 0}, index>>
<1> DEFINE C == {t \in Txs : confirmedAt[t] # 0}
<1>1. ASSUME UNCHANGED <<confirmedAt, index>>
      PROVE  UNCHANGED <<C, index>>
  BY <1>1
<1>2. ASSUME NEW t \in Txs, MsbConfirms(t) PROVE Promise!Next
  <2>1. C' = C \cup {t}
    BY <1>2 DEF MsbConfirms, TInv, ApplyTypeOK, Lengths
  <2>2. index' = index
    BY <1>2 DEF MsbConfirms, peerVars
  <2>3. Promise!Confirm(t)
    BY <2>1, <2>2 DEF Promise!Confirm
  <2> QED BY <2>3 DEF Promise!Next
<1>3. ASSUME NEW p \in Peers, ExecuteTx(p), Accepts(p, NextEntry(p))
      PROVE  Promise!Next
  <2>1. PICK t : t = NextEntry(p).key
    OBVIOUS
  <2>2. t \in Txs
    BY <1>3, <2>1, NextEntryType DEF TInv, WaitsAtTx, ExecuteTx, Entry
  <2>3. t \in C
    BY <1>3, <2>1, <2>2 DEF Accepts, ConfirmedIn
  <2>4. C' = C
    BY <1>3 DEF ExecuteTx, msbVars
  <2>5. index' = [index EXCEPT ![p] = Append(@, t)]
    BY <1>3, <2>1 DEF ExecuteTx, TInv, ApplyTypeOK
  <2>6. Promise!Fresh(p, t)
    BY <1>3, <2>1 DEF Accepts, Indexed, Promise!Fresh
  <2>7. ASSUME NEW q \in Peers, Len(index[q]) > Len(index[p])
        PROVE  index[q][Len(index[p]) + 1] = t
    <3>1. /\ Len(index[p]) \in Nat /\ Len(index[q]) \in Nat
          /\ applied[p] \in Nat /\ applied[q] \in Nat
          /\ index \in [Peers -> Seq(Txs)]
      BY DEF TInv, ApplyTypeOK
    <3>2. applied[q] > applied[p]
      BY <2>7, <3>1 DEF Agreement, PrefixOf
    <3>3. q # p
      BY <2>7, <3>1
    <3>4. index'[q] = index[q] /\ index'[p] = Append(index[p], t)
      BY <2>5, <3>1, <3>3
    <3>5. applied'[p] = applied[p] + 1 /\ applied'[q] = applied[q]
      BY <1>3, <3>1, <3>3 DEF ExecuteTx, TInv, ApplyTypeOK
    <3>6. PrefixOf(index'[p], index'[q])
      BY <3>1, <3>2, <3>5 DEF Agreement
    <3>7. Len(index'[p]) = Len(index[p]) + 1 /\ index'[p][Len(index[p]) + 1] = t
      BY <2>2, <3>1, <3>4
    <3> QED BY <3>1, <3>4, <3>6, <3>7 DEF PrefixOf
  <2>8. Promise!SameOrder(p, t)
    BY <2>7 DEF Promise!SameOrder
  <2>9. Promise!Execute(p, t)
    BY <2>3, <2>4, <2>5, <2>6, <2>8 DEF Promise!Execute
  <2> QED BY <2>2, <2>9 DEF Promise!Next
<1>4. ASSUME NEW p \in Peers, ExecuteTx(p), ~Accepts(p, NextEntry(p))
      PROVE  UNCHANGED <<confirmedAt, index>>
  BY <1>4 DEF ExecuteTx, msbVars
<1>5. CASE MsbGrows
  BY <1>1, <1>5 DEF MsbGrows, peerVars
<1>6. ASSUME NEW e \in Entries, AppendEntry(e) PROVE UNCHANGED <<confirmedAt, index>>
  BY <1>6 DEF AppendEntry, msbVars, peerVars
<1>7. ASSUME NEW p \in Peers,
             \/ Replicate(p) \/ SkipTx(p) \/ WaitForMsb(p) \/ ThrowTx(p)
             \/ SwitchTx(p) \/ RestartApply(p)
      PROVE  UNCHANGED <<confirmedAt, index>>
  BY <1>7 DEF Replicate, SkipTx, WaitForMsb, ThrowTx, SwitchTx, RestartApply, msbVars, peerVars
<1>8. CASE UNCHANGED applyVars
  BY <1>1, <1>8 DEF applyVars, msbVars, peerVars
<1> QED BY <1>1, <1>2, <1>3, <1>4, <1>5, <1>6, <1>7, <1>8 DEF ApplyNext, Handle

\* While no replica lags by more than Delta, the handler implements what
\* Settlement promises: one common ledger of confirmed transactions, each once.
THEOREM ApplyImplementsSettlement == ApplySpec /\ []WithinDelta => ImplementsSettlement
<1>1. ApplyInit => Promise!Init
  BY DEF ApplyInit, Promise!Init
<1> QED BY <1>1, AlwaysTInv, ExecutedOnceWhenSettled, PeersAgree, StepImplements, PTL
        DEF ApplySpec, ImplementsSettlement, Promise!Spec

\* What is proved of Settlement, of the ledgers peers build here.
Ledger == INSTANCE Settlement_proofs
  WITH confirmed <- {t \in Txs : confirmedAt[t] # 0}, ledger <- index

\* Peers keep one ledger, place by place, and nothing in it is ever taken back.
THEOREM PeersKeepOneLedger ==
  ApplySpec /\ []WithinDelta => []Ledger!OneLedger /\ Ledger!Final
<1>1. ImplementsSettlement <=> Ledger!Spec
  BY DEF ImplementsSettlement, Promise!Spec, Ledger!Spec, Promise!Init, Ledger!Init, Promise!Next, Ledger!Next,
         Promise!Confirm, Ledger!Confirm, Promise!Execute, Ledger!Execute, Promise!Fresh, Ledger!Fresh,
         Promise!SameOrder, Ledger!SameOrder
<1> QED BY <1>1, ApplyImplementsSettlement, Ledger!SettlementKeepsOneLedger, Ledger!SettlementIsFinal, PTL

\* In particular with a Delta beyond the length MSB ever reaches, as the runs
\* that check the three properties have it.
THEOREM WithLargeDelta ==
  ASSUME Delta >= MaxMsb
  PROVE  ApplySpec => []Agreement /\ []LedgerIsWhatIsDue /\ ImplementsSettlement
BY NeverBeyondDelta, PeersAgree, ExecutesWhatIsDue, ApplyImplementsSettlement, PTL
=============================================================================
