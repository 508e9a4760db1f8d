-------------------------- MODULE WriterMembership --------------------------
(***************************************************************************)
(* Who may write to the subnet: the admin's addWriter, addIndexer and      *)
(* removeWriter, and the way in when auto_add_writers is on.  There, a     *)
(* peer that cannot write asks over each connection it opens (tryInvite),  *)
(* the peer at the other end appends an autoAddWriter entry for it         *)
(* (onmessage), and every peer applies that entry.                         *)
(*                                                                         *)
(* Each of the three looks at the setting for itself, in its own view and  *)
(* at its own time, and awaits the answer: `saw' is the value a read found *)
(* when it was called, which the code acts on when the await is over.  A   *)
(* view moves between the two.                                             *)
(*                                                                         *)
(* Entries are applied alike everywhere, so the view after n entries is    *)
(* computed once, when the entry is appended, and a peer is a number of    *)
(* entries applied.  Autobase and the swarm are external: `log' is the     *)
(* order of the entries, a connection is one that Hyperswarm opened.       *)
(***************************************************************************)
EXTENDS Naturals, Sequences

CONSTANTS
  Peers,     \* peers; a peer stands for its wallet and its writer key
  Home,      \* the admin's peer, an indexer from the start
  Conns,     \* connections, one for each direction
  Asker,     \* per connection, the peer that might ask
  Host,      \* per connection, the peer that is asked
  Signed,    \* what the admin signs in this instance
  MaxLog,    \* bound: entries of the log
  Deadlines  \* the 15 seconds of tryInvite may run out

Roles == {"reader", "writer", "indexer"}

\* An entry the admin signed, told from others like it by its nonce, stands for
\* its own hash.  "other" is any entry that writes keys and has nothing to do
\* with membership.
AdminEntry ==
  [type : {"addWriter", "addIndexer", "removeWriter", "autoOn", "autoOff", "other"},
   key : Peers, nonce : Nat]

AutoEntry == [type : {"autoAddWriter"}, key : Peers]

\* The admin does not remove his own peer.
ASSUME MembershipAssumption ==
  /\ Home \in Peers
  /\ Asker \in [Conns -> Peers] /\ Host \in [Conns -> Peers]
  /\ Signed \subseteq AdminEntry
  /\ \A e \in Signed : e.key = Home => e.type # "removeWriter"
  /\ MaxLog \in Nat
  /\ Deadlines \in BOOLEAN

VARIABLES
  log,      \* the entries in Autobase's order
  views,    \* views[n + 1]: what n entries make of the writers and the setting
  applied,  \* per peer, the number of entries applied
  conn,     \* per connection: not yet open, open, closed
  ask,      \* per connection, tryInvite at its asker
  invite    \* per connection, the invitation and onmessage at its host

vars == <<log, views, applied, conn, ask, invite>>

\* auto: auto_add_writers reads "on"; sh: the hashes of accepted entries.
Views == [role : [Peers -> Roles], auto : BOOLEAN, sh : SUBSET AdminEntry]

\* Type correctness.
TypeOK ==
  /\ log \in Seq(AdminEntry \cup AutoEntry)
  /\ views \in Seq(Views) /\ Len(views) = Len(log) + 1
  /\ applied \in [Peers -> 0 .. Len(log)]
  /\ conn \in [Conns -> {"new", "open", "closed"}]
  /\ ask \in [Conns -> [pc : {"none", "checking", "waiting", "rechecking", "done"},
                        saw : BOOLEAN, late : BOOLEAN]]
  /\ invite \in [Conns -> [pc : {"none", "sent", "checking", "done"}, saw : BOOLEAN]]

\* A promise that has settled, on either side, and left nothing behind.
AskDone == [pc |-> "done", saw |-> FALSE, late |-> FALSE]
InviteDone == [pc |-> "done", saw |-> FALSE]

Init ==
  /\ log = <<>>
  /\ views = << [role |-> [p \in Peers |-> IF p = Home THEN "indexer" ELSE "reader"],
                 auto |-> FALSE, sh |-> {}] >>
  /\ applied = [p \in Peers |-> 0]
  /\ conn = [c \in Conns |-> "new"]
  /\ ask = [c \in Conns |-> [pc |-> "none", saw |-> FALSE, late |-> FALSE]]
  /\ invite = [c \in Conns |-> [pc |-> "none", saw |-> FALSE]]

Newest == views[Len(views)]
View(p) == views[applied[p] + 1]
Writable(p) == View(p).role[p] # "reader"

-----------------------------------------------------------------------------
(* The handlers: what an entry makes of a view. *)

\* Autobase's addWriter and removeWriter.
WithRole(v, k, r) == [v EXCEPT !.role[k] = r]

\* autoAddWriter reads the setting again.
\* (Mutant: it trusts the peer that appended the entry.)
AutoAddedUnchecked(v, e) == WithRole(v, e.key, "writer")
AutoAdded(v, e) == IF v.auto THEN WithRole(v, e.key, "writer") ELSE v

\* What a signed entry does, once its signature is verified.  removeWriter makes
\* a reader of an indexer too.
AddWriter(v, k) == WithRole(v, k, "writer")
AddIndexer(v, k) == WithRole(v, k, "indexer")
RemoveWriter(v, k) == WithRole(v, k, "reader")
SetAutoAddWriters(v, on) == [v EXCEPT !.auto = on]

Effect(v, e) ==
  CASE e.type = "addWriter"    -> AddWriter(v, e.key)
    [] e.type = "addIndexer"   -> AddIndexer(v, e.key)
    [] e.type = "removeWriter" -> RemoveWriter(v, e.key)
    [] e.type = "autoOn"       -> SetAutoAddWriters(v, TRUE)
    [] e.type = "autoOff"      -> SetAutoAddWriters(v, FALSE)
    [] OTHER                   -> v

\* sh/<hash> keeps an entry from taking effect again.
\* (Mutant: the hash is stored and not looked at.)
AcceptedAgain(v, e) == [Effect(v, e) EXCEPT !.sh = v.sh \cup {e}]
Accepted(v, e) == IF e \in v.sh THEN v ELSE [Effect(v, e) EXCEPT !.sh = v.sh \cup {e}]

Result(v, e) == IF e.type = "autoAddWriter" THEN AutoAdded(v, e) ELSE Accepted(v, e)

\* (Mutant: an append that is tried again leaves a second copy.)
AppendEntryTwice(e) ==
  /\ Len(log) < MaxLog
  /\ log' = log \o <<e, e>>
  /\ views' = Append(views, Result(Newest, e))
AppendEntry(e) ==
  /\ Len(log) < MaxLog
  /\ log' = Append(log, e)
  /\ views' = Append(views, Result(Newest, e))

\* The admin's terminal signs an entry and appends it, or a signed entry is
\* appended a second time.
AppendSigned(e) ==
  /\ Writable(Home)
  /\ AppendEntry(e)
  /\ UNCHANGED <<applied, conn, ask, invite>>

-----------------------------------------------------------------------------
(* tryInvite, at the asker. *)

\* The first read of the setting is called when the connection opens.
Connect(c) ==
  /\ conn[c] = "new"
  /\ conn' = [conn EXCEPT ![c] = "open"]
  /\ ask' = IF Writable(Asker[c]) THEN ask
            ELSE [ask EXCEPT ![c].pc = "checking", ![c].saw = View(Asker[c]).auto]
  /\ UNCHANGED <<log, views, applied, invite>>

\* A message on a closed channel goes nowhere.
Sent(c) == [invite EXCEPT ![c].pc = IF conn[c] = "open" THEN "sent" ELSE "done"]

\* A read has returned "on": the peer sends its writer key.
SendInvite(c) ==
  /\ ask[c].pc \in {"checking", "rechecking"}
  /\ ask[c].saw
  /\ ask' = [ask EXCEPT ![c] = AskDone]
  /\ invite' = Sent(c)
  /\ UNCHANGED <<log, views, applied, conn>>

\* A read has returned anything else.  The loop looks at the deadline, which is
\* set after the first read, and then listens for the next append.
Listen(c) ==
  /\ ask[c].pc \in {"checking", "rechecking"}
  /\ ~ask[c].saw
  /\ ask' = [ask EXCEPT ![c] = IF ask[c].late THEN AskDone ELSE [ask[c] EXCEPT !.pc = "waiting"]]
  /\ UNCHANGED <<log, views, applied, conn, invite>>

\* The deadline passes, which nobody notices until the next append.
Expire(c) ==
  /\ Deadlines
  /\ ask[c].pc \in {"waiting", "rechecking"}
  /\ ~ask[c].late
  /\ ask' = [ask EXCEPT ![c].late = TRUE]
  /\ UNCHANGED <<log, views, applied, conn, invite>>

\* A peer applies a batch of entries.  If one of them wrote a key, the core of
\* the view emits `append', and whoever listens reads the setting again.
Apply(p, n) ==
  /\ applied[p] < n
  /\ applied' = [applied EXCEPT ![p] = n]
  /\ ask' = [c \in Conns |->
       IF Asker[c] = p /\ ask[c].pc = "waiting" /\ views[n + 1].sh # View(p).sh
       THEN [ask[c] EXCEPT !.pc = "rechecking", !.saw = views[n + 1].auto]
       ELSE ask[c]]
  /\ UNCHANGED <<log, views, conn, invite>>

-----------------------------------------------------------------------------
(* onmessage, at the host. *)

\* The invitation arrives; a host that cannot write ignores it.
Receive(c) ==
  /\ invite[c].pc = "sent"
  /\ invite' = IF Writable(Host[c])
               THEN [invite EXCEPT ![c] = [pc |-> "checking", saw |-> View(Host[c]).auto]]
               ELSE [invite EXCEPT ![c] = InviteDone]
  /\ UNCHANGED <<log, views, applied, conn, ask>>

\* (Mutants: the host appends without having looked; it appends its own key.)
AddAskerUnchecked(c) ==
  /\ invite[c].pc = "checking"
  /\ Writable(Host[c])
  /\ AppendEntry([type |-> "autoAddWriter", key |-> Asker[c]])
  /\ invite' = [invite EXCEPT ![c] = InviteDone]
  /\ UNCHANGED <<applied, conn, ask>>
AddHost(c) ==
  /\ invite[c].pc = "checking"
  /\ invite[c].saw
  /\ Writable(Host[c])
  /\ AppendEntry([type |-> "autoAddWriter", key |-> Host[c]])
  /\ invite' = [invite EXCEPT ![c] = InviteDone]
  /\ UNCHANGED <<applied, conn, ask>>

\* The host's read has returned "on".
AddAsker(c) ==
  /\ invite[c].pc = "checking"
  /\ invite[c].saw
  /\ Writable(Host[c])
  /\ AppendEntry([type |-> "autoAddWriter", key |-> Asker[c]])
  /\ invite' = [invite EXCEPT ![c] = InviteDone]
  /\ UNCHANGED <<applied, conn, ask>>

\* The host's read has returned anything else, or the append throws because the
\* host lost its role during the read.  Nobody tells the asker.
Refuse(c) ==
  /\ invite[c].pc = "checking"
  /\ ~invite[c].saw \/ ~Writable(Host[c])
  /\ invite' = [invite EXCEPT ![c] = InviteDone]
  /\ UNCHANGED <<log, views, applied, conn, ask>>

\* A connection closes; an invitation under way on it is lost.
Disconnect(c) ==
  /\ conn[c] = "open"
  /\ conn' = [conn EXCEPT ![c] = "closed"]
  /\ invite' = IF invite[c].pc = "sent" THEN [invite EXCEPT ![c] = InviteDone] ELSE invite
  /\ UNCHANGED <<log, views, applied, ask>>

-----------------------------------------------------------------------------
Handshake(c) ==
  SendInvite(c) \/ Listen(c) \/ Receive(c) \/ AddAsker(c) \/ Refuse(c)

Next ==
  \/ \E e \in Signed : AppendSigned(e)
  \/ \E c \in Conns : Connect(c) \/ Handshake(c) \/ Expire(c) \/ Disconnect(c)
  \/ \E p \in Peers, n \in 1 .. Len(log) : Apply(p, n)

Spec == Init /\ [][Next]_vars

\* Replication and apply go on, promises settle and messages on an open
\* connection arrive.
Fairness ==
  /\ \A c \in Conns : WF_vars(Handshake(c))
  /\ \A p \in Peers : WF_vars(\E n \in 1 .. Len(log) : Apply(p, n))

FairSpec == Spec /\ Fairness

-----------------------------------------------------------------------------
(* Properties. *)

\* A peer that could not write gets in by a signature of the admin that was
\* never used before, or while the setting is on: neither the second copy of an
\* entry nor an invitation from the time before the setting was switched off
\* brings a removed peer back.
JoinsAreGranted ==
  [][\A k \in Peers :
       Newest.role[k] = "reader" /\ Newest'.role[k] # "reader" =>
         \/ Newest.auto
         \/ \E e \in Newest'.sh \ Newest.sh :
              e.type \in {"addWriter", "addIndexer"} /\ e.key = k]_vars

\* Nobody is proposed as a writer who has not asked over a connection, and
\* asker and host had each seen the setting on by then, although each read it
\* before an await.
SeenOn(p) == \E n \in 1 .. applied[p] + 1 : views[n].auto

OnlyAskersAreProposed ==
  \A i \in 1 .. Len(log) : log[i].type = "autoAddWriter" =>
    \E c \in Conns : /\ Asker[c] = log[i].key
                     /\ invite[c].pc = "done"
                     /\ SeenOn(Asker[c]) /\ SeenOn(Host[c])

\* What the first i entries of a log l say by themselves.  An entry counts where
\* it stands for the first time.
Counts(l, i, types) == l[i].type \in types /\ \A j \in 1 .. i - 1 : l[j] # l[i]

\* The setting is on where the i-th entry stands.
OnAt(l, i) ==
  \E j \in 1 .. i - 1 : /\ Counts(l, j, {"autoOn"})
                       /\ \A m \in j + 1 .. i - 1 : ~Counts(l, m, {"autoOff"})

Grants(l, i, k) ==
  /\ l[i].key = k
  /\ \/ Counts(l, i, {"addWriter", "addIndexer"})
     \/ l[i].type = "autoAddWriter" /\ OnAt(l, i)

Removes(l, i, k) == l[i].key = k /\ Counts(l, i, {"removeWriter"})

MayWriteAfter(l, n, k) ==
  \/ k = Home
  \/ \E i \in 1 .. n : Grants(l, i, k) /\ \A j \in i + 1 .. n : ~Removes(l, j, k)

\* In every view of every prefix of the log, the peers that can write are the
\* admin's and those with a grant that no later removal took back: a signature
\* grants or removes once, at its first place, and an autoAddWriter entry grants
\* only where the setting is on.
WritersAreJustified ==
  \A n \in 0 .. Len(log), k \in Peers :
    views[n + 1].role[k] # "reader" <=> MayWriteAfter(log, n, k)

OnEverywhere == Newest.auto /\ \A p \in Peers : View(p).auto

\* A peer whose first read finds the setting on is let in by the writer it
\* connected to, if that one sees the setting on as well: through the read, the
\* message, the host's own read and its append.  Excused if the connection
\* closes, the setting is switched off or the host loses its role.
\* (Bound: or if the log is full.)
ConnectingPeersJoin ==
  \A c \in Conns :
    (ask[c].pc = "checking" /\ ask[c].saw /\ OnEverywhere) ~>
      \/ Newest.role[Asker[c]] # "reader"
      \/ conn[c] = "closed" \/ ~Writable(Host[c]) \/ ~OnEverywhere
      \/ Len(log) = MaxLog

\* The setting lets "any peer ... join as writer automatically": a peer that is
\* connected to a writer for good while the setting is on for good becomes a
\* writer.  It fails for a peer that misses the append it waits for.
ConnectedPeersJoin ==
  \A c \in Conns :
    <>[](conn[c] = "open" /\ OnEverywhere /\ Writable(Host[c]) /\ Len(log) < MaxLog)
      => <>Writable(Asker[c])
=============================================================================
