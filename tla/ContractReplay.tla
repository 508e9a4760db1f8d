--------------------------- MODULE ContractReplay ---------------------------
(***************************************************************************)
(* What running a log of contract operations promises, without a word on   *)
(* instances, batches, awaits or crashes: the view moves along the log by  *)
(* whole entries, each of which leaves its item under its caller's key and *)
(* is booked, or not, by what it is; it never moves past an entry whose    *)
(* error leaves apply.  ContractExec implements it where simulations keep  *)
(* out of apply's way.                                                     *)
(***************************************************************************)
EXTENDS Naturals, Sequences

CONSTANTS
  Users,      \* callers
  Operation,  \* records with the caller in their field by
  Storing,    \* the operations that leave an item
  Booking,    \* the operations that are booked
  Poison      \* the operations whose error leaves apply

VARIABLES
  log,      \* the operations in the order of the log
  view,     \* per caller the stored items; booked entries
  flushed   \* the number of entries in the view

Init ==
  /\ log = <<>>
  /\ view = [items |-> [u \in Users |-> {}], booked |-> {}]
  /\ flushed = 0

AppendEntry(op) ==
  /\ log' = Append(log, op)
  /\ UNCHANGED <<view, flushed>>

\* The view after the entries up to n.
Moved(n) ==
  LET next == flushed + 1 .. n IN
  [items  |-> [u \in Users |-> view.items[u]
                 \cup {i \in next : log[i].by = u /\ log[i] \in Storing}],
   booked |-> view.booked \cup {i \in next : log[i] \in Booking}]

Commit(n) ==
  /\ \A i \in flushed + 1 .. n : log[i] \notin Poison
  /\ view' = Moved(n)
  /\ flushed' = n
  /\ UNCHANGED log

Next ==
  \/ \E op \in Operation : AppendEntry(op)
  \/ \E n \in flushed + 1 .. Len(log) : Commit(n)

Spec == Init /\ [][Next]_<<log, view, flushed>>
=============================================================================
