----------------------------- MODULE Settlement -----------------------------
(***************************************************************************)
(* What the settlement of transactions promises the users of a subnet,     *)
(* without a word on how: MSB confirms transactions; every peer keeps a    *)
(* ledger of the transactions it executed; a ledger lists confirmed        *)
(* transactions only, each once, and all ledgers list them in one order,   *)
(* some being ahead of others.  TxApply implements it.                     *)
(***************************************************************************)
EXTENDS Naturals, Sequences

CONSTANTS
  Txs,    \* transactions
  Peers   \* the peers of the subnet

VARIABLES
  confirmed,  \* the transactions MSB confirmed
  ledger      \* per peer, the transactions it executed

Init ==
  /\ confirmed = {}
  /\ ledger = [p \in Peers |-> <<>>]

Confirm(t) ==
  /\ confirmed' = confirmed \cup {t}
  /\ UNCHANGED ledger

Fresh(p, t) == \A i \in 1 .. Len(ledger[p]) : ledger[p][i] # t

\* Whoever is ahead of p executed t at this place.
SameOrder(p, t) ==
  \A q \in Peers : Len(ledger[q]) > Len(ledger[p]) => ledger[q][Len(ledger[p]) + 1] = t

Execute(p, t) ==
  /\ t \in confirmed
  /\ Fresh(p, t)
  /\ SameOrder(p, t)
  /\ ledger' = [ledger EXCEPT ![p] = Append(@, t)]
  /\ UNCHANGED confirmed

Next == \E t \in Txs : Confirm(t) \/ \E p \in Peers : Execute(p, t)

Spec == Init /\ [][Next]_<<confirmed, ledger>>
=============================================================================
