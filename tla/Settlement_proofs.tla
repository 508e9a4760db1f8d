-------------------------- MODULE Settlement_proofs --------------------------
(***************************************************************************)
(* What a user of the settlement may rely on, from Settlement alone: the   *)
(* abstract specification does say that there is one ledger.  TxApply and  *)
(* TxSettlement inherit it through their refinements.                      *)
(***************************************************************************)
EXTENDS Settlement, TLAPS

TypeOK ==
  /\ confirmed \subseteq Txs
  /\ ledger \in [Peers -> Seq(Txs)]

\* A ledger lists confirmed transactions only.
ConfirmedOnly == \A p \in Peers : \A i \in 1 .. Len(ledger[p]) : ledger[p][i] \in confirmed

\* A ledger lists a transaction once.
EachOnce ==
  \A p \in Peers : \A i, j \in 1 .. Len(ledger[p]) : ledger[p][i] = ledger[p][j] => i = j

\* Two ledgers are the same as far as the shorter one goes: the i-th transaction
\* is one and the same wherever there is one.
OneOrder ==
  \A p, q \in Peers : \A i \in 1 .. Len(ledger[p]) : i <= Len(ledger[q]) => ledger[p][i] = ledger[q][i]

OneLedger == ConfirmedOnly /\ EachOnce /\ OneOrder

\* What an execution does to the ledgers.
LEMMA ExecuteEffect ==
  ASSUME TypeOK, NEW p \in Peers, NEW t \in Txs, Execute(p, t)
  PROVE  /\ Len(ledger[p]) \in Nat /\ Len(ledger'[p]) = Len(ledger[p]) + 1
         /\ \A i \in 1 .. Len(ledger[p]) : ledger'[p][i] = ledger[p][i]
         /\ ledger'[p][Len(ledger[p]) + 1] = t
         /\ \A q \in Peers \ {p} : ledger'[q] = ledger[q]
         /\ ledger' \in [Peers -> Seq(Txs)]
BY DEF TypeOK, Execute

\* Every step keeps the types and the one ledger.
LEMMA NextOneLedger ==
  TypeOK /\ OneLedger /\ [Next]_<<confirmed, ledger>> => (TypeOK /\ OneLedger)'
<1> SUFFICES ASSUME TypeOK, OneLedger, [Next]_<<confirmed, ledger>> PROVE (TypeOK /\ OneLedger)'
  OBVIOUS
<1>1. CASE UNCHANGED <<confirmed, ledger>>
  BY <1>1 DEF TypeOK, OneLedger, ConfirmedOnly, EachOnce, OneOrder
<1>2. ASSUME NEW t \in Txs, Confirm(t) PROVE (TypeOK /\ OneLedger)'
  BY <1>2 DEF Confirm, TypeOK, OneLedger, ConfirmedOnly, EachOnce, OneOrder
<1>3. ASSUME NEW p \in Peers, NEW t \in Txs, Execute(p, t) PROVE (TypeOK /\ OneLedger)'
  <2>1. /\ Len(ledger[p]) \in Nat /\ Len(ledger'[p]) = Len(ledger[p]) + 1
        /\ \A i \in 1 .. Len(ledger[p]) : ledger'[p][i] = ledger[p][i]
        /\ ledger'[p][Len(ledger[p]) + 1] = t
        /\ \A q \in Peers \ {p} : ledger'[q] = ledger[q]
        /\ ledger' \in [Peers -> Seq(Txs)]
    BY <1>3, ExecuteEffect
  <2>2. t \in confirmed /\ confirmed' = confirmed
    BY <1>3 DEF Execute
  <2>3. \A i \in 1 .. Len(ledger'[p]) : i \in 1 .. Len(ledger[p]) \/ i = Len(ledger[p]) + 1
    BY <2>1
  <2>4. TypeOK'
    BY <2>1, <2>2 DEF TypeOK
  <2>5. ConfirmedOnly'
    BY <2>1, <2>2, <2>3 DEF OneLedger, ConfirmedOnly
  <2>6. EachOnce'
    <3>1. \A i \in 1 .. Len(ledger[p]) : ledger[p][i] # t
      BY <1>3 DEF Execute, Fresh
    <3>2. \A i, j \in 1 .. Len(ledger'[p]) : ledger'[p][i] = ledger'[p][j] => i = j
      BY <2>1, <2>3, <3>1 DEF OneLedger, EachOnce
    <3> QED BY <2>1, <3>2 DEF OneLedger, EachOnce
  <2>7. ASSUME NEW q \in Peers, q # p
        PROVE  /\ \A i \in 1 .. Len(ledger'[p]) : i <= Len(ledger[q]) => ledger'[p][i] = ledger[q][i]
               /\ \A i \in 1 .. Len(ledger[q]) : i <= Len(ledger'[p]) => ledger[q][i] = ledger'[p][i]
    <3>1. Len(ledger[q]) \in Nat
      BY DEF TypeOK
    <3>2. Len(ledger[q]) > Len(ledger[p]) => ledger[q][Len(ledger[p]) + 1] = t
      BY <1>3 DEF Execute, SameOrder
    <3>3. \A i \in 1 .. Len(ledger[p]) : i <= Len(ledger[q]) => ledger[p][i] = ledger[q][i]
      BY DEF OneLedger, OneOrder
    <3>4. \A i \in 1 .. Len(ledger'[p]) : i <= Len(ledger[q]) => ledger'[p][i] = ledger[q][i]
      BY <2>1, <2>3, <3>1, <3>2, <3>3
    <3>5. \A i \in 1 .. Len(ledger[q]) : i <= Len(ledger'[p]) => i \in 1 .. Len(ledger'[p])
      BY <2>1
    <3> QED BY <3>1, <3>4, <3>5
  <2>8. OneOrder'
    <3> SUFFICES ASSUME NEW q \in Peers, NEW r \in Peers, NEW i \in 1 .. Len(ledger'[q]),
                        i <= Len(ledger'[r])
                 PROVE  ledger'[q][i] = ledger'[r][i]
      BY DEF OneOrder
    <3>1. CASE q = r
      BY <3>1
    <3>2. CASE q = p /\ r # p
      BY <2>1, <2>7, <3>2
    <3>3. CASE q # p /\ r = p
      BY <2>1, <2>7, <3>3
    <3>4. CASE q # p /\ r # p
      BY <2>1, <3>4 DEF OneLedger, OneOrder
    <3> QED BY <3>1, <3>2, <3>3, <3>4
  <2> QED BY <2>4, <2>5, <2>6, <2>8 DEF OneLedger
<1> QED BY <1>1, <1>2, <1>3 DEF Next

\* The settlement keeps one ledger: whatever it executes is confirmed, is
\* executed once and stands at one place in every peer's ledger.
THEOREM SettlementKeepsOneLedger == Spec => []OneLedger
<1>1. Init => TypeOK /\ OneLedger
  <2> SUFFICES ASSUME Init PROVE TypeOK /\ OneLedger
    OBVIOUS
  <2>1. \A p \in Peers : Len(ledger[p]) = 0
    BY DEF Init
  <2> QED BY <2>1 DEF Init, TypeOK, OneLedger, ConfirmedOnly, EachOnce, OneOrder
<1> QED BY <1>1, NextOneLedger, PTL DEF Spec

-----------------------------------------------------------------------------
\* The settlement takes nothing back: confirmations and ledgers only grow, the
\* ledgers at their ends.
Final ==
  [][/\ confirmed \subseteq confirmed'
     /\ \A p \in Peers : /\ Len(ledger[p]) <= Len(ledger'[p])
                         /\ \A i \in 1 .. Len(ledger[p]) : ledger'[p][i] = ledger[p][i]]_<<confirmed, ledger>>

\* An executed transaction is executed for good.
THEOREM SettlementIsFinal == Spec => Final
<1> DEFINE Grows == /\ confirmed \subseteq confirmed'
                    /\ \A p \in Peers : /\ Len(ledger[p]) <= Len(ledger'[p])
                                        /\ \A i \in 1 .. Len(ledger[p]) : ledger'[p][i] = ledger[p][i]
<1>1. TypeOK /\ [Next]_<<confirmed, ledger>> => [Grows]_<<confirmed, ledger>>
  <2> SUFFICES ASSUME TypeOK, Next PROVE Grows
    OBVIOUS
  <2>0. \A p \in Peers : Len(ledger[p]) \in Nat
    BY DEF TypeOK
  <2>1. ASSUME NEW t \in Txs, Confirm(t) PROVE Grows
    BY <2>0, <2>1 DEF Confirm
  <2>2. ASSUME NEW p \in Peers, NEW t \in Txs, Execute(p, t) PROVE Grows
    <3>1. confirmed' = confirmed
      BY <2>2 DEF Execute
    <3>2. ASSUME NEW q \in Peers
          PROVE  /\ Len(ledger[q]) <= Len(ledger'[q])
                 /\ \A i \in 1 .. Len(ledger[q]) : ledger'[q][i] = ledger[q][i]
      <4>1. CASE q = p
        BY <2>2, <4>1, ExecuteEffect
      <4>2. CASE q # p
        BY <2>0, <2>2, <4>2, ExecuteEffect
      <4> QED BY <4>1, <4>2
    <3> QED BY <3>1, <3>2
  <2> QED BY <2>1, <2>2 DEF Next
<1>2. Init => TypeOK /\ OneLedger
  BY DEF Init, TypeOK, OneLedger, ConfirmedOnly, EachOnce, OneOrder
<1> QED BY <1>1, <1>2, NextOneLedger, PTL DEF Spec, Final
=============================================================================
