----------------------- MODULE WriterMembership_proofs ----------------------
(* Types, and the two safety properties of WriterMembership, for any peers,  *)
(* connections and entries.                                                  *)
EXTENDS WriterMembership, TLAPS

Entry == AdminEntry \cup AutoEntry

\* What a signed entry does makes a view of a view.
LEMMA EffectType ==
  ASSUME NEW v \in Views, NEW e \in AdminEntry
  PROVE  Effect(v, e) \in Views
<1>1. \A k \in Peers, x \in Roles : WithRole(v, k, x) \in Views
  BY DEF Views, WithRole
<1>2. e.key \in Peers
  BY DEF AdminEntry
<1>3. [v EXCEPT !.auto = TRUE] \in Views /\ [v EXCEPT !.auto = FALSE] \in Views
  BY DEF Views
<1> QED BY <1>1, <1>2, <1>3 DEF Effect, AddWriter, AddIndexer, RemoveWriter, SetAutoAddWriters, Roles

\* What an entry makes of a view is a view.
LEMMA ResultType ==
  ASSUME NEW v \in Views, NEW e \in Entry
  PROVE  Result(v, e) \in Views
<1>1. \A k \in Peers, x \in Roles : WithRole(v, k, x) \in Views
  BY DEF Views, WithRole
<1>2. CASE e \in AutoEntry
  BY <1>1, <1>2 DEF AutoEntry, Result, AutoAdded, Roles
<1>3. CASE e \in AdminEntry
  <2>1. Effect(v, e) \in Views
    BY <1>3, EffectType
  <2>2. \A w \in Views : [w EXCEPT !.sh = v.sh \cup {e}] \in Views
    BY <1>3 DEF Views
  <2>3. e.type # "autoAddWriter"
    BY <1>3 DEF AdminEntry
  <2> QED BY <2>1, <2>2, <2>3 DEF Result, Accepted
<1> QED BY <1>2, <1>3 DEF Entry

\* Entry n + 1 of `views' is the newest view when the log has n entries.
LEMMA NewestType ==
  ASSUME TypeOK
  PROVE  /\ Newest \in Views
         /\ \A p \in Peers : applied[p] \in Nat /\ applied[p] + 1 \in 1 .. Len(views)
         /\ \A p \in Peers : View(p) \in Views
<1>1. Len(views) = Len(log) + 1 /\ Len(log) \in Nat /\ views \in Seq(Views)
  BY DEF TypeOK
<1>2. \A p \in Peers : applied[p] \in 0 .. Len(log)
  BY DEF TypeOK
<1>3. ASSUME NEW p \in Peers PROVE applied[p] \in Nat /\ applied[p] + 1 \in 1 .. Len(views)
  <2> DEFINE n == Len(log)
            k == applied[p]
  <2>1. n \in Nat /\ k \in 0 .. n /\ Len(views) = n + 1
    BY <1>1, <1>2
  <2> HIDE DEF n, k
  <2>2. k \in Nat /\ k + 1 \in 1 .. n + 1
    BY <2>1
  <2> QED BY <2>1, <2>2 DEF k
<1>4. \A n \in 1 .. Len(views) : views[n] \in Views
  BY <1>1
<1>5. Len(views) \in 1 .. Len(views)
  BY <1>1
<1> QED BY <1>3, <1>4, <1>5 DEF Newest, View

\* The initial state is well-typed.
LEMMA InitType == Init => TypeOK
<1> SUFFICES ASSUME Init PROVE TypeOK
  OBVIOUS
<1> DEFINE v0 == [role |-> [p \in Peers |-> IF p = Home THEN "indexer" ELSE "reader"],
                  auto |-> FALSE, sh |-> {}]
<1>1. v0 \in Views
  BY DEF Views, Roles
<1>2. views = <<v0>>
  BY DEF Init
<1>3. views \in Seq(Views) /\ Len(views) = 1
  BY <1>1, <1>2
<1>4. log \in Seq(AdminEntry \cup AutoEntry) /\ Len(log) = 0
  BY DEF Init
<1>5. applied \in [Peers -> 0 .. Len(log)]
  BY <1>4 DEF Init
<1> QED BY <1>3, <1>4, <1>5 DEF Init, TypeOK

\* An append lengthens the log and the views by one and keeps what they hold.
LEMMA AppendKeeps ==
  ASSUME TypeOK, NEW e \in Entry, AppendEntry(e)
  PROVE  /\ log' \in Seq(Entry) /\ Len(log') = Len(log) + 1
         /\ views' \in Seq(Views) /\ Len(views') = Len(views) + 1
         /\ \A n \in 1 .. Len(views) : views'[n] = views[n]
         /\ \A n \in 1 .. Len(log) : log'[n] = log[n]
         /\ log'[Len(log')] = e
         /\ Newest' = Result(Newest, e)
<1>1. log \in Seq(Entry) /\ views \in Seq(Views)
  BY DEF TypeOK, Entry
<1>2. Result(Newest, e) \in Views
  BY NewestType, ResultType
<1>3. log' = Append(log, e) /\ views' = Append(views, Result(Newest, e))
  BY DEF AppendEntry
<1>4. Len(views') = Len(views) + 1 /\ views'[Len(views) + 1] = Result(Newest, e)
  BY <1>1, <1>2, <1>3
<1>5. Newest' = Result(Newest, e)
  BY <1>4 DEF Newest
<1> QED BY <1>1, <1>2, <1>3, <1>4, <1>5

-----------------------------------------------------------------------------
(* Types. *)

\* The steps of the log and of the two sides of a connection, by the variables
\* they change.
LEMMA AppendType ==
  ASSUME TypeOK, NEW e \in Entry, AppendEntry(e), UNCHANGED <<applied, conn, ask>>,
         invite' \in [Conns -> [pc : {"none", "sent", "checking", "done"}, saw : BOOLEAN]]
  PROVE  TypeOK'
<1>1. /\ log' \in Seq(AdminEntry \cup AutoEntry) /\ Len(log') = Len(log) + 1
      /\ views' \in Seq(Views) /\ Len(views') = Len(views) + 1
  BY AppendKeeps DEF Entry
<1>2. Len(log) \in Nat /\ Len(views) = Len(log) + 1 /\ applied \in [Peers -> 0 .. Len(log)]
  BY DEF TypeOK
<1>3. applied' \in [Peers -> 0 .. Len(log')]
  BY <1>1, <1>2
<1> QED BY <1>1, <1>2, <1>3 DEF TypeOK

\* Every step keeps the types.
LEMMA StepType == TypeOK /\ [Next]_vars => TypeOK'
<1> SUFFICES ASSUME TypeOK, [Next]_vars PROVE TypeOK'
  OBVIOUS
<1> USE MembershipAssumption
<1> DEFINE Invites == [Conns -> [pc : {"none", "sent", "checking", "done"}, saw : BOOLEAN]]
<1>0. invite \in Invites /\ InviteDone \in [pc : {"none", "sent", "checking", "done"}, saw : BOOLEAN]
  BY DEF TypeOK, InviteDone
<1>1. ASSUME NEW e \in Signed, AppendSigned(e) PROVE TypeOK'
  BY <1>0, <1>1, AppendType DEF AppendSigned, Entry
<1>2. ASSUME NEW c \in Conns, Connect(c) PROVE TypeOK'
  <2>1. View(Asker[c]).auto \in BOOLEAN
    BY NewestType DEF Views
  <2> DEFINE Ask == [pc : {"none", "checking", "waiting", "rechecking", "done"},
                     saw : BOOLEAN, late : BOOLEAN]
             asked == [ask[c] EXCEPT !.pc = "checking", !.saw = View(Asker[c]).auto]
  <2>2. ask \in [Conns -> Ask] /\ asked \in Ask
    BY <2>1 DEF TypeOK
  <2>3. ask' = ask \/ ask' = [ask EXCEPT ![c] = asked]
    BY <1>2, <2>2 DEF Connect
  <2>4. ask' \in [Conns -> Ask]
    <3> HIDE DEF Ask, asked
    <3> QED BY <2>2, <2>3
  <2>5. conn' \in [Conns -> {"new", "open", "closed"}]
    BY <1>2 DEF Connect, TypeOK
  <2> QED BY <1>2, <2>4, <2>5 DEF Connect, TypeOK
<1>3. ASSUME NEW c \in Conns, SendInvite(c) PROVE TypeOK'
  BY <1>3 DEF SendInvite, Sent, AskDone, TypeOK
<1>4. ASSUME NEW c \in Conns, Listen(c) PROVE TypeOK'
  BY <1>4 DEF Listen, AskDone, TypeOK
<1>5. ASSUME NEW c \in Conns, Receive(c) PROVE TypeOK'
  <2>1. View(Host[c]).auto \in BOOLEAN
    BY NewestType DEF Views
  <2> QED BY <1>5, <2>1 DEF Receive, InviteDone, TypeOK
<1>6. ASSUME NEW c \in Conns, AddAsker(c) PROVE TypeOK'
  <2> DEFINE e == [type |-> "autoAddWriter", key |-> Asker[c]]
  <2>1. e \in Entry
    BY DEF Entry, AutoEntry
  <2>2. invite' \in Invites
    BY <1>0, <1>6 DEF AddAsker
  <2>3. AppendEntry(e) /\ UNCHANGED <<applied, conn, ask>>
    BY <1>6 DEF AddAsker
  <2> QED BY <2>1, <2>2, <2>3, AppendType
<1>7. ASSUME NEW c \in Conns, Refuse(c) PROVE TypeOK'
  BY <1>7 DEF Refuse, InviteDone, TypeOK
<1>8. ASSUME NEW c \in Conns, Expire(c) PROVE TypeOK'
  BY <1>8 DEF Expire, TypeOK
<1>9. ASSUME NEW c \in Conns, Disconnect(c) PROVE TypeOK'
  BY <1>9 DEF Disconnect, InviteDone, TypeOK
<1>10. ASSUME NEW p \in Peers, NEW n \in 1 .. Len(log), Apply(p, n) PROVE TypeOK'
  <2>1. n + 1 \in 1 .. Len(views)
    <3> DEFINE k == Len(log)
    <3>1. k \in Nat /\ n \in 1 .. k /\ Len(views) = k + 1
      BY DEF TypeOK
    <3> HIDE DEF k
    <3> QED BY <3>1
  <2>2. views[n + 1].auto \in BOOLEAN
    <3>1. views \in Seq(Views)
      BY DEF TypeOK
    <3>2. views[n + 1] \in Views
      BY <2>1, <3>1
    <3> QED BY <3>2 DEF Views
  <2>3. applied' \in [Peers -> 0 .. Len(log)]
    <3>1. n \in 0 .. Len(log)
      OBVIOUS
    <3> QED BY <1>10, <3>1 DEF Apply, TypeOK
  <2> DEFINE Ask == [pc : {"none", "checking", "waiting", "rechecking", "done"},
                     saw : BOOLEAN, late : BOOLEAN]
  <2>4. ASSUME NEW c \in Conns
        PROVE  [ask[c] EXCEPT !.pc = "rechecking", !.saw = views[n + 1].auto] \in Ask
    BY <2>2 DEF TypeOK
  <2>5. ask' \in [Conns -> Ask]
    BY <1>10, <2>4 DEF Apply, TypeOK
  <2> QED BY <1>10, <2>3, <2>5 DEF Apply, TypeOK
<1>11. CASE UNCHANGED vars
  BY <1>11 DEF vars, TypeOK
<1> QED BY <1>1, <1>2, <1>3, <1>4, <1>5, <1>6, <1>7, <1>8, <1>9, <1>10, <1>11 DEF Next, Handshake

\* Log, views, handshakes and applied prefixes stay well-typed; in particular
\* no peer is ahead of the log (Autobase's apply).
THEOREM MembershipTypeCorrect == Spec => []TypeOK
BY InitType, StepType, PTL DEF Spec

-----------------------------------------------------------------------------
(* Who gets in. *)

\* The step behind JoinsAreGranted.
JoinIsGranted ==
  \A k \in Peers :
    Newest.role[k] = "reader" /\ Newest'.role[k] # "reader" =>
      \/ Newest.auto
      \/ \E e \in Newest'.sh \ Newest.sh :
           e.type \in {"addWriter", "addIndexer"} /\ e.key = k

\* An accepted signature makes its own key a writer or nobody.
LEMMA AcceptedGrants ==
  ASSUME TypeOK, NEW e \in AdminEntry, Newest' = Result(Newest, e)
  PROVE  JoinIsGranted
<1> SUFFICES ASSUME NEW k \in Peers,
                    Newest.role[k] = "reader", Newest'.role[k] # "reader"
             PROVE  \E x \in Newest'.sh \ Newest.sh :
                      x.type \in {"addWriter", "addIndexer"} /\ x.key = k
  BY DEF JoinIsGranted
<1> DEFINE v == Newest
<1>1. v \in Views
  BY NewestType
<1>2. Newest' = Accepted(v, e)
  BY DEF Result, AdminEntry
<1>3. e \notin v.sh
  BY <1>2 DEF Accepted
<1>4. Newest' = [Effect(v, e) EXCEPT !.sh = v.sh \cup {e}]
  BY <1>2, <1>3 DEF Accepted
<1>5. Effect(v, e) \in Views
  BY <1>1, EffectType
<1>6. Newest'.sh = v.sh \cup {e} /\ Newest'.role = Effect(v, e).role
  BY <1>4, <1>5 DEF Views
<1>7. e.type \in {"addWriter", "addIndexer"} /\ e.key = k
  <2>1. Effect(v, e).role[k] # v.role[k]
    BY <1>6
  <2>2. CASE e.type \in {"addWriter", "addIndexer", "removeWriter"}
    <3>1. e.key = k
      BY <1>1, <2>1, <2>2 DEF Effect, AddWriter, AddIndexer, RemoveWriter, SetAutoAddWriters, WithRole, Views
    <3>2. e.type # "removeWriter"
      BY <1>1, <1>6, <3>1 DEF Effect, AddWriter, AddIndexer, RemoveWriter, SetAutoAddWriters, WithRole, Views
    <3> QED BY <2>2, <3>1, <3>2
  <2>3. CASE e.type \notin {"addWriter", "addIndexer", "removeWriter"}
    BY <1>1, <2>1, <2>3 DEF Effect, AddWriter, AddIndexer, RemoveWriter, SetAutoAddWriters, Views
  <2> QED BY <2>2, <2>3
<1> QED BY <1>3, <1>6, <1>7

\* Only AppendSigned and AddAsker make a new view.
LEMMA StepGrants == TypeOK /\ Next => JoinIsGranted
<1> SUFFICES ASSUME TypeOK, Next PROVE JoinIsGranted
  OBVIOUS
<1> USE MembershipAssumption
<1>1. ASSUME NEW e \in Signed, AppendSigned(e) PROVE JoinIsGranted
  <2>1. e \in AdminEntry /\ e \in Entry /\ AppendEntry(e)
    BY <1>1 DEF AppendSigned, Entry
  <2>2. Newest' = Result(Newest, e)
    BY <2>1, AppendKeeps
  <2> QED BY <2>1, <2>2, AcceptedGrants
<1>2. ASSUME NEW c \in Conns, AddAsker(c) PROVE JoinIsGranted
  <2> DEFINE e == [type |-> "autoAddWriter", key |-> Asker[c]]
  <2>1. e \in Entry /\ AppendEntry(e)
    BY <1>2 DEF AddAsker, Entry, AutoEntry
  <2>2. Newest' = Result(Newest, e)
    BY <2>1, AppendKeeps
  <2>3. ~Newest.auto => Newest' = Newest
    BY <2>2 DEF Result, AutoAdded
  <2> QED BY <2>3 DEF JoinIsGranted
<1>3. views' = views => JoinIsGranted
  BY DEF JoinIsGranted, Newest
<1> QED
  BY <1>1, <1>2, <1>3
  DEF Next, Handshake, Connect, SendInvite, Listen, Receive, Refuse, Expire, Disconnect, Apply

\* A reader becomes a writer by a signature of the admin that was not used
\* before or while the setting is on (addWriter, addIndexer, autoAddWriter).
THEOREM MembershipIsGranted == Spec => JoinsAreGranted
<1>1. TypeOK /\ [Next]_vars => [JoinIsGranted]_vars
  BY StepGrants
<1>2. Spec => [][JoinIsGranted]_vars
  BY <1>1, MembershipTypeCorrect, PTL DEF Spec
<1>3. [][JoinIsGranted]_vars <=> JoinsAreGranted
  BY DEF JoinIsGranted, JoinsAreGranted
<1> QED BY <1>2, <1>3, PTL

-----------------------------------------------------------------------------
(* Who is proposed. *)

\* A read that is under way, or an invitation, keeps what it is about: whoever
\* saw the setting on has applied a prefix of the log after which it was on; an
\* invitation is sent once per connection, by an asker who is then done.
HandshakeInv ==
  \A c \in Conns :
    /\ ask[c].saw => SeenOn(Asker[c])
    /\ invite[c].saw => SeenOn(Host[c])
    /\ invite[c].pc # "none" => SeenOn(Asker[c]) /\ ask[c].pc = "done"
    /\ ask[c].pc # "none" => conn[c] # "new"

ProposalInv == TypeOK /\ HandshakeInv /\ OnlyAskersAreProposed

\* What a peer has seen it has seen for good.
LEMMA SeenOnStays ==
  ASSUME TypeOK, TypeOK', NEW p \in Peers, SeenOn(p), applied'[p] >= applied[p],
         \A n \in 1 .. Len(views) : views'[n] = views[n]
  PROVE  SeenOn(p)'
<1>1. PICK n \in 1 .. applied[p] + 1 : views[n].auto
  BY DEF SeenOn
<1>2. applied[p] \in Nat /\ applied[p] + 1 \in 1 .. Len(views)
  BY NewestType
<1>3. applied'[p] \in Nat
  BY DEF TypeOK
<1>4. n \in 1 .. Len(views)
  BY <1>1, <1>2
<1>5. n \in 1 .. applied'[p] + 1
  BY <1>1, <1>2, <1>3
<1> QED BY <1>1, <1>4, <1>5 DEF SeenOn

\* A view that reads "on" has been seen on.
LEMMA ViewIsSeen ==
  ASSUME TypeOK, NEW p \in Peers, View(p).auto
  PROVE  SeenOn(p)
<1>1. applied[p] + 1 \in 1 .. applied[p] + 1
  BY NewestType
<1> QED BY <1>1 DEF View, SeenOn

\* No step takes back what was seen.
LEMMA StepSeen ==
  ASSUME TypeOK, TypeOK', [Next]_vars, NEW p \in Peers, SeenOn(p)
  PROVE  SeenOn(p)'
<1> USE MembershipAssumption
<1>0. applied[p] \in Nat
  BY NewestType
<1>1. ASSUME NEW e \in Signed, AppendSigned(e) PROVE SeenOn(p)'
  BY <1>0, <1>1, AppendKeeps, SeenOnStays DEF AppendSigned, Entry
<1>2. ASSUME NEW c \in Conns, AddAsker(c) PROVE SeenOn(p)'
  <2> DEFINE e == [type |-> "autoAddWriter", key |-> Asker[c]]
  <2>1. e \in Entry /\ AppendEntry(e) /\ applied' = applied
    BY <1>2 DEF AddAsker, Entry, AutoEntry
  <2> QED BY <1>0, <2>1, AppendKeeps, SeenOnStays
<1>3. ASSUME NEW q \in Peers, NEW n \in 1 .. Len(log), Apply(q, n) PROVE SeenOn(p)'
  <2>1. views' = views /\ applied' = [applied EXCEPT ![q] = n] /\ applied[q] < n
    BY <1>3 DEF Apply
  <2>2. applied'[p] = IF p = q THEN n ELSE applied[p]
    BY <2>1 DEF TypeOK
  <2>3. applied'[p] >= applied[p]
    BY <1>0, <2>1, <2>2
  <2> QED BY <2>1, <2>3, SeenOnStays
<1>4. (views' = views /\ applied' = applied) => SeenOn(p)'
  BY DEF SeenOn
<1> QED
  BY <1>1, <1>2, <1>3, <1>4
  DEF Next, Handshake, Connect, SendInvite, Listen, Receive, Refuse, Expire, Disconnect, vars

\* A proposal once made stays justified while the invitation is done with.
LEMMA StepProposed ==
  ASSUME ProposalInv, TypeOK', [Next]_vars, log' = log,
         \A c \in Conns : invite[c].pc = "done" => invite'[c].pc = "done"
  PROVE  OnlyAskersAreProposed'
<1> SUFFICES ASSUME NEW i \in 1 .. Len(log), log[i].type = "autoAddWriter"
             PROVE  \E c \in Conns : /\ Asker[c] = log[i].key
                                     /\ invite'[c].pc = "done"
                                     /\ SeenOn(Asker[c])' /\ SeenOn(Host[c])'
  BY DEF OnlyAskersAreProposed
<1>1. PICK c \in Conns : /\ Asker[c] = log[i].key
                         /\ invite[c].pc = "done"
                         /\ SeenOn(Asker[c]) /\ SeenOn(Host[c])
  BY DEF ProposalInv, OnlyAskersAreProposed
<1>2. Asker[c] \in Peers /\ Host[c] \in Peers
  BY MembershipAssumption
<1>3. SeenOn(Asker[c])' /\ SeenOn(Host[c])'
  BY <1>1, <1>2, StepSeen DEF ProposalInv
<1> QED BY <1>1, <1>3

\* The host's append is the only step that proposes a peer.
LEMMA AddAskerProposes ==
  ASSUME ProposalInv, TypeOK', NEW d \in Conns, AddAsker(d)
  PROVE  OnlyAskersAreProposed'
<1> USE MembershipAssumption
<1> DEFINE e == [type |-> "autoAddWriter", key |-> Asker[d]]
<1>1. e \in Entry /\ AppendEntry(e)
  BY DEF AddAsker, Entry, AutoEntry
<1>2. [Next]_vars /\ TypeOK
  BY DEF Next, Handshake, ProposalInv
<1>3. \A p \in Peers : SeenOn(p) => SeenOn(p)'
  BY <1>2, StepSeen
<1>4. /\ Len(log) \in Nat /\ Len(log') = Len(log) + 1
      /\ \A i \in 1 .. Len(log) : log'[i] = log[i]
      /\ log'[Len(log')] = e
  BY <1>1, <1>2, AppendKeeps DEF TypeOK
<1>5. invite'[d].pc = "done" /\ \A c \in Conns : invite[c].pc = "done" => invite'[c].pc = "done"
  BY <1>2 DEF AddAsker, InviteDone, TypeOK
<1>6. SeenOn(Asker[d]) /\ SeenOn(Host[d])
  BY DEF AddAsker, ProposalInv, HandshakeInv
<1> SUFFICES ASSUME NEW i \in 1 .. Len(log'), log'[i].type = "autoAddWriter"
             PROVE  \E c \in Conns : /\ Asker[c] = log'[i].key
                                     /\ invite'[c].pc = "done"
                                     /\ SeenOn(Asker[c])' /\ SeenOn(Host[c])'
  BY DEF OnlyAskersAreProposed
<1>7. CASE i = Len(log')
  BY <1>3, <1>4, <1>5, <1>6, <1>7
<1>8. CASE i # Len(log')
  <2>1. i \in 1 .. Len(log)
    BY <1>4, <1>8
  <2>2. PICK c \in Conns : /\ Asker[c] = log[i].key
                           /\ invite[c].pc = "done"
                           /\ SeenOn(Asker[c]) /\ SeenOn(Host[c])
    BY <1>4, <2>1 DEF ProposalInv, OnlyAskersAreProposed
  <2>3. Asker[c] \in Peers /\ Host[c] \in Peers
    OBVIOUS
  <2> QED BY <1>3, <1>4, <1>5, <2>1, <2>2, <2>3
<1> QED BY <1>7, <1>8

\* An entry the admin signs proposes nobody.
LEMMA AppendSignedProposes ==
  ASSUME ProposalInv, TypeOK', NEW e \in Signed, AppendSigned(e)
  PROVE  OnlyAskersAreProposed'
<1> USE MembershipAssumption
<1>1. e \in Entry /\ AppendEntry(e) /\ e.type # "autoAddWriter"
  BY DEF AppendSigned, Entry, AdminEntry
<1>2. [Next]_vars /\ TypeOK
  BY DEF Next, ProposalInv
<1>3. \A p \in Peers : SeenOn(p) => SeenOn(p)'
  BY <1>2, StepSeen
<1>4. /\ Len(log) \in Nat /\ Len(log') = Len(log) + 1
      /\ \A i \in 1 .. Len(log) : log'[i] = log[i]
      /\ log'[Len(log')] = e
  BY <1>1, <1>2, AppendKeeps DEF TypeOK
<1> SUFFICES ASSUME NEW i \in 1 .. Len(log'), log'[i].type = "autoAddWriter"
             PROVE  \E c \in Conns : /\ Asker[c] = log'[i].key
                                     /\ invite'[c].pc = "done"
                                     /\ SeenOn(Asker[c])' /\ SeenOn(Host[c])'
  BY DEF OnlyAskersAreProposed
<1>5. i \in 1 .. Len(log)
  BY <1>1, <1>4
<1>6. PICK c \in Conns : /\ Asker[c] = log[i].key
                         /\ invite[c].pc = "done"
                         /\ SeenOn(Asker[c]) /\ SeenOn(Host[c])
  BY <1>4, <1>5 DEF ProposalInv, OnlyAskersAreProposed
<1>7. Asker[c] \in Peers /\ Host[c] \in Peers
  OBVIOUS
<1> QED BY <1>3, <1>4, <1>5, <1>6, <1>7 DEF AppendSigned

\* Reads, messages and appends keep the handshakes justified.
LEMMA StepHandshake ==
  ASSUME TypeOK, TypeOK', HandshakeInv, [Next]_vars
  PROVE  HandshakeInv'
<1> USE MembershipAssumption
<1>1. \A p \in Peers : SeenOn(p) => SeenOn(p)'
  BY StepSeen
<1> SUFFICES ASSUME NEW d \in Conns
             PROVE  /\ ask'[d].saw => SeenOn(Asker[d])'
                    /\ invite'[d].saw => SeenOn(Host[d])'
                    /\ invite'[d].pc # "none" => SeenOn(Asker[d])' /\ ask'[d].pc = "done"
                    /\ ask'[d].pc # "none" => conn'[d] # "new"
  BY DEF HandshakeInv
<1> DEFINE Goal == /\ ask'[d].saw => SeenOn(Asker[d])'
                   /\ invite'[d].saw => SeenOn(Host[d])'
                   /\ invite'[d].pc # "none" => SeenOn(Asker[d])' /\ ask'[d].pc = "done"
                   /\ ask'[d].pc # "none" => conn'[d] # "new"
<1>2. /\ Asker[d] \in Peers /\ Host[d] \in Peers
      /\ ask[d].saw => SeenOn(Asker[d])'
      /\ invite[d].saw => SeenOn(Host[d])'
      /\ invite[d].pc # "none" => SeenOn(Asker[d])' /\ ask[d].pc = "done"
      /\ ask[d].pc # "none" => conn[d] # "new"
  BY <1>1 DEF HandshakeInv
<1>3. (View(Asker[d]).auto => SeenOn(Asker[d])') /\ (View(Host[d]).auto => SeenOn(Host[d])')
  BY <1>1, <1>2, ViewIsSeen
<1>4. ASSUME NEW e \in Signed, AppendSigned(e) PROVE Goal
  BY <1>2, <1>4 DEF AppendSigned
<1>5. ASSUME NEW c \in Conns, Connect(c) PROVE Goal
  BY <1>2, <1>3, <1>5 DEF Connect, TypeOK
<1>6. ASSUME NEW c \in Conns, SendInvite(c) PROVE Goal
  BY <1>2, <1>6 DEF SendInvite, Sent, AskDone, TypeOK
<1>7. ASSUME NEW c \in Conns, Listen(c) PROVE Goal
  BY <1>2, <1>7 DEF Listen, AskDone, TypeOK
<1>8. ASSUME NEW c \in Conns, Receive(c) PROVE Goal
  BY <1>2, <1>3, <1>8 DEF Receive, InviteDone, TypeOK
<1>9. ASSUME NEW c \in Conns, AddAsker(c) PROVE Goal
  BY <1>2, <1>9 DEF AddAsker, InviteDone, TypeOK
<1>10. ASSUME NEW c \in Conns, Refuse(c) PROVE Goal
  BY <1>2, <1>10 DEF Refuse, InviteDone, TypeOK
<1>11. ASSUME NEW c \in Conns, Expire(c) PROVE Goal
  BY <1>2, <1>11 DEF Expire, TypeOK
<1>12. ASSUME NEW c \in Conns, Disconnect(c) PROVE Goal
  BY <1>2, <1>12 DEF Disconnect, InviteDone, TypeOK
<1>13. ASSUME NEW p \in Peers, NEW n \in 1 .. Len(log), Apply(p, n) PROVE Goal
  <2>1. ask'[d] = ask[d] => Goal
    BY <1>2, <1>13 DEF Apply
  <2>2. ASSUME ask'[d] # ask[d] PROVE Goal
    <3>1. /\ Asker[d] = p /\ ask[d].pc = "waiting"
          /\ ask'[d] = [ask[d] EXCEPT !.pc = "rechecking", !.saw = views[n + 1].auto]
          /\ applied' = [applied EXCEPT ![p] = n]
          /\ UNCHANGED <<views, conn, invite>>
      BY <1>13, <2>2 DEF Apply
    <3>2. ask'[d].pc = "rechecking" /\ ask'[d].saw = views[n + 1].auto
      BY <3>1 DEF TypeOK
    <3>3. applied'[p] = n
      BY <3>1 DEF TypeOK
    <3>4. views[n + 1].auto => SeenOn(p)'
      <4>1. n + 1 \in 1 .. n + 1
        OBVIOUS
      <4> QED BY <3>1, <3>3, <4>1 DEF SeenOn
    <3> QED BY <1>2, <3>1, <3>2, <3>4
  <2> QED BY <2>1, <2>2
<1>14. CASE UNCHANGED vars
  BY <1>2, <1>14 DEF vars
<1> QED
  BY <1>4, <1>5, <1>6, <1>7, <1>8, <1>9, <1>10, <1>11, <1>12, <1>13, <1>14
  DEF Next, Handshake

\* The three parts are inductive together.
LEMMA StepProposal == ProposalInv /\ [Next]_vars => ProposalInv'
<1> SUFFICES ASSUME ProposalInv, [Next]_vars PROVE ProposalInv'
  OBVIOUS
<1>1. TypeOK' /\ HandshakeInv'
  BY StepType, StepHandshake DEF ProposalInv
<1>2. ASSUME NEW e \in Signed, AppendSigned(e) PROVE OnlyAskersAreProposed'
  BY <1>1, <1>2, AppendSignedProposes
<1>3. ASSUME NEW c \in Conns, AddAsker(c) PROVE OnlyAskersAreProposed'
  BY <1>1, <1>3, AddAskerProposes
<1>4. ASSUME log' = log, invite' = invite PROVE OnlyAskersAreProposed'
  BY <1>1, <1>4, StepProposed
<1>5. ASSUME NEW c \in Conns, SendInvite(c) \/ Receive(c) \/ Refuse(c) \/ Disconnect(c)
      PROVE  OnlyAskersAreProposed'
  <2>1. \A d \in Conns : invite[d].pc = "done" => invite'[d].pc = "done"
    <3>1. invite[c].pc = "done" => ask[c].pc = "done"
      BY DEF ProposalInv, HandshakeInv
    <3> QED
      BY <1>5, <3>1
      DEF SendInvite, Sent, Receive, Refuse, Disconnect, InviteDone, ProposalInv, TypeOK
  <2>2. log' = log
    BY <1>5 DEF SendInvite, Receive, Refuse, Disconnect
  <2> QED BY <1>1, <2>1, <2>2, StepProposed
<1>6. OnlyAskersAreProposed'
  BY <1>2, <1>3, <1>4, <1>5
  DEF Next, Handshake, Connect, Listen, Expire, Apply, vars
<1> QED BY <1>1, <1>6 DEF ProposalInv

\* Every autoAddWriter entry is for a peer that asked over a connection, when
\* asker and host had both seen the setting on (tryInvite, onmessage).
THEOREM OnlyAskersProposed == Spec => []OnlyAskersAreProposed
<1>1. Init => ProposalInv
  <2>1. Init => HandshakeInv
    BY DEF Init, HandshakeInv
  <2>2. Init => OnlyAskersAreProposed
    BY DEF Init, OnlyAskersAreProposed
  <2> QED BY <2>1, <2>2, InitType DEF ProposalInv
<1>2. ProposalInv => OnlyAskersAreProposed
  BY DEF ProposalInv
<1> QED BY <1>1, <1>2, StepProposal, PTL DEF Spec

-----------------------------------------------------------------------------
(* Every view of every prefix is what the prefix says. *)

\* View v is what the first n entries of l say.
Described(l, n, v) ==
  /\ \A e \in AdminEntry : e \in v.sh <=> \E i \in 1 .. n : l[i] = e
  /\ v.auto <=> OnAt(l, n + 1)
  /\ \A k \in Peers : v.role[k] # "reader" <=> MayWriteAfter(l, n, k)

\* The entries that are appended are entries, and none removes the admin's peer.
EntriesOK == \A i \in 1 .. Len(log) :
               log[i] \in Entry /\ (log[i].key = Home => log[i].type # "removeWriter")

JustifiedInv ==
  /\ TypeOK /\ EntriesOK
  /\ \A n \in 0 .. Len(log) : Described(log, n, views[n + 1])

\* What the beginning of a log says does not depend on what follows.
LEMMA SamePrefix ==
  ASSUME NEW l, NEW m, NEW n \in Nat, \A i \in 1 .. n : m[i] = l[i], NEW v, Described(l, n, v)
  PROVE  Described(m, n, v)
<1>1. ASSUME NEW i \in 1 .. n, NEW types PROVE Counts(m, i, types) <=> Counts(l, i, types)
  BY <1>1 DEF Counts
<1>2. ASSUME NEW i \in 1 .. n + 1 PROVE OnAt(m, i) <=> OnAt(l, i)
  <2>1. \A j \in 1 .. i - 1 : j \in 1 .. n /\ \A k \in j + 1 .. i - 1 : k \in 1 .. n
    OBVIOUS
  <2>2. /\ \A j \in 1 .. n : Counts(m, j, {"autoOn"}) <=> Counts(l, j, {"autoOn"})
        /\ \A j \in 1 .. n : Counts(m, j, {"autoOff"}) <=> Counts(l, j, {"autoOff"})
    BY <1>1
  <2> QED BY <2>1, <2>2 DEF OnAt
<1>3. ASSUME NEW k
      PROVE  /\ \A i \in 1 .. n : Grants(m, i, k) <=> Grants(l, i, k)
             /\ \A i \in 1 .. n : Removes(m, i, k) <=> Removes(l, i, k)
  <2>1. \A i \in 1 .. n : i \in 1 .. n + 1
    OBVIOUS
  <2> QED BY <1>1, <1>2, <2>1 DEF Grants, Removes
<1>4. ASSUME NEW k PROVE MayWriteAfter(m, n, k) <=> MayWriteAfter(l, n, k)
  <2>1. \A i \in 1 .. n : \A j \in i + 1 .. n : j \in 1 .. n
    OBVIOUS
  <2> QED BY <1>3, <2>1 DEF MayWriteAfter
<1>5. n + 1 \in 1 .. n + 1
  OBVIOUS
<1> QED BY <1>2, <1>4, <1>5 DEF Described

\* The setting after one more entry.
LEMMA OnAtStep ==
  ASSUME NEW l, NEW n \in Nat
  PROVE  OnAt(l, n + 2) <=> \/ Counts(l, n + 1, {"autoOn"})
                            \/ OnAt(l, n + 1) /\ ~Counts(l, n + 1, {"autoOff"})
<1>1. (n + 2) - 1 = n + 1 /\ (n + 1) - 1 = n
  OBVIOUS
<1>2. ASSUME OnAt(l, n + 2), ~Counts(l, n + 1, {"autoOn"})
      PROVE  OnAt(l, n + 1) /\ ~Counts(l, n + 1, {"autoOff"})
  <2>1. PICK j \in 1 .. n + 1 : /\ Counts(l, j, {"autoOn"})
                                /\ \A m \in j + 1 .. n + 1 : ~Counts(l, m, {"autoOff"})
    BY <1>1, <1>2 DEF OnAt
  <2>2. j # n + 1
    BY <1>2, <2>1
  <2>3. j \in 1 .. n /\ n + 1 \in j + 1 .. n + 1 /\ \A m \in j + 1 .. n : m \in j + 1 .. n + 1
    BY <2>2
  <2> QED BY <1>1, <2>1, <2>3 DEF OnAt
<1>3. ASSUME Counts(l, n + 1, {"autoOn"}) PROVE OnAt(l, n + 2)
  <2>1. n + 1 \in 1 .. n + 1 /\ (n + 1) + 1 .. n + 1 = {}
    OBVIOUS
  <2> QED BY <1>1, <1>3, <2>1 DEF OnAt
<1>4. ASSUME OnAt(l, n + 1), ~Counts(l, n + 1, {"autoOff"}) PROVE OnAt(l, n + 2)
  <2>1. PICK j \in 1 .. n : /\ Counts(l, j, {"autoOn"})
                            /\ \A m \in j + 1 .. n : ~Counts(l, m, {"autoOff"})
    BY <1>1, <1>4 DEF OnAt
  <2>2. j \in 1 .. n + 1 /\ \A m \in j + 1 .. n + 1 : m \in j + 1 .. n \/ m = n + 1
    OBVIOUS
  <2>3. \A m \in j + 1 .. n + 1 : ~Counts(l, m, {"autoOff"})
    BY <1>4, <2>1, <2>2
  <2> QED BY <1>1, <2>1, <2>2, <2>3 DEF OnAt
<1> QED BY <1>2, <1>3, <1>4

\* Who may write after one more entry.
LEMMA MayWriteStep ==
  ASSUME NEW l, NEW n \in Nat, NEW k, k # Home
  PROVE  MayWriteAfter(l, n + 1, k) <=> \/ Grants(l, n + 1, k)
                                        \/ MayWriteAfter(l, n, k) /\ ~Removes(l, n + 1, k)
<1>1. ASSUME MayWriteAfter(l, n + 1, k), ~Grants(l, n + 1, k)
      PROVE  MayWriteAfter(l, n, k) /\ ~Removes(l, n + 1, k)
  <2>1. PICK i \in 1 .. n + 1 : Grants(l, i, k) /\ \A j \in i + 1 .. n + 1 : ~Removes(l, j, k)
    BY <1>1 DEF MayWriteAfter
  <2>2. i # n + 1
    BY <1>1, <2>1
  <2>3. i \in 1 .. n /\ n + 1 \in i + 1 .. n + 1 /\ \A j \in i + 1 .. n : j \in i + 1 .. n + 1
    BY <2>2
  <2> QED BY <2>1, <2>3 DEF MayWriteAfter
<1>2. ASSUME Grants(l, n + 1, k) PROVE MayWriteAfter(l, n + 1, k)
  <2>1. n + 1 \in 1 .. n + 1 /\ (n + 1) + 1 .. n + 1 = {}
    OBVIOUS
  <2> QED BY <1>2, <2>1 DEF MayWriteAfter
<1>3. ASSUME MayWriteAfter(l, n, k), ~Removes(l, n + 1, k) PROVE MayWriteAfter(l, n + 1, k)
  <2>1. PICK i \in 1 .. n : Grants(l, i, k) /\ \A j \in i + 1 .. n : ~Removes(l, j, k)
    BY <1>3 DEF MayWriteAfter
  <2>2. i \in 1 .. n + 1 /\ \A j \in i + 1 .. n + 1 : j \in i + 1 .. n \/ j = n + 1
    OBVIOUS
  <2>3. \A j \in i + 1 .. n + 1 : ~Removes(l, j, k)
    BY <1>3, <2>1, <2>2
  <2> QED BY <2>1, <2>2, <2>3 DEF MayWriteAfter
<1> QED BY <1>1, <1>2, <1>3

\* A view after one more entry, from what the entry does to the setting and to
\* the right of its own key.
LEMMA DescribedStep ==
  ASSUME NEW l, NEW n \in Nat, NEW v \in Views, Described(l, n, v),
         NEW e \in Entry, l[n + 1] = e, e.key = Home => e.type # "removeWriter"
  PROVE  Described(l, n + 1, Result(v, e))
<1>w. PICK w : w = Result(v, e)
  OBVIOUS
<1> DEFINE new == e \notin v.sh
<1>0. /\ \A i : i \in 1 .. n + 1 <=> i \in 1 .. n \/ i = n + 1
      /\ (n + 1) - 1 = n /\ (n + 1) + 1 = n + 2
  OBVIOUS
<1>1. w \in Views
  BY <1>w, ResultType
<1>2. e.key \in Peers
  BY DEF Entry, AdminEntry, AutoEntry
<1>3. e \in AdminEntry => (\A types : Counts(l, n + 1, types) <=> e.type \in types /\ new)
  BY <1>0 DEF Described, Counts
<1>4. OnAt(l, n + 2) <=> Counts(l, n + 1, {"autoOn"}) \/ (OnAt(l, n + 1) /\ ~Counts(l, n + 1, {"autoOff"}))
  BY OnAtStep
<1>5. \A k \in Peers : k # Home =>
        (MayWriteAfter(l, n + 1, k) <=> Grants(l, n + 1, k) \/ (MayWriteAfter(l, n, k) /\ ~Removes(l, n + 1, k)))
  BY MayWriteStep
<1>6. /\ v.auto <=> OnAt(l, n + 1)
      /\ \A k \in Peers : v.role[k] # "reader" <=> MayWriteAfter(l, n, k)
      /\ \A k \in Peers : k = Home => MayWriteAfter(l, n, k) /\ MayWriteAfter(l, n + 1, k)
  BY DEF Described, MayWriteAfter
<1>7. SUFFICES /\ \A x \in AdminEntry : x \in w.sh <=> x \in v.sh \/ x = e
               /\ w.auto <=> OnAt(l, n + 2)
               /\ \A k \in Peers : w.role[k] # "reader" <=> MayWriteAfter(l, n + 1, k)
  <2>1. ASSUME NEW x \in AdminEntry PROVE x \in w.sh <=> \E i \in 1 .. n + 1 : l[i] = x
    <3>1. x \in v.sh <=> \E i \in 1 .. n : l[i] = x
      BY DEF Described
    <3>2. x \in w.sh <=> x \in v.sh \/ x = e
      BY <1>7
    <3> QED BY <1>0, <3>1, <3>2
  <2> QED BY <1>0, <1>7, <1>w, <2>1 DEF Described
<1>8. CASE e \in AutoEntry
  <2>1. e.type = "autoAddWriter" /\ e \notin AdminEntry
    BY <1>8 DEF AutoEntry, AdminEntry
  <2>2. w = IF v.auto THEN WithRole(v, e.key, "writer") ELSE v
    BY <1>w, <2>1 DEF Result, AutoAdded
  <2>3. /\ ~Counts(l, n + 1, {"autoOn"}) /\ ~Counts(l, n + 1, {"autoOff"})
        /\ ~Counts(l, n + 1, {"addWriter", "addIndexer"}) /\ ~Counts(l, n + 1, {"removeWriter"})
    BY <2>1 DEF Counts
  <2>4. /\ w.sh = v.sh /\ w.auto = v.auto
        /\ \A k \in Peers : w.role[k] = IF v.auto /\ k = e.key THEN "writer" ELSE v.role[k]
    BY <1>2, <2>2 DEF WithRole, Views
  <2>5. \A k \in Peers : /\ Grants(l, n + 1, k) <=> k = e.key /\ v.auto
                         /\ ~Removes(l, n + 1, k)
    BY <1>6, <2>1, <2>3 DEF Grants, Removes
  <2>6. ASSUME NEW k \in Peers PROVE w.role[k] # "reader" <=> MayWriteAfter(l, n + 1, k)
    BY <1>5, <1>6, <2>4, <2>5
  <2> QED BY <1>4, <1>6, <2>1, <2>3, <2>4, <2>6
<1>9. CASE e \in AdminEntry /\ ~new
  <2>1. w = v
    BY <1>w, <1>9 DEF Result, Accepted, AdminEntry
  <2>2. \A types : ~Counts(l, n + 1, types)
    BY <1>3, <1>9
  <2>3. \A k \in Peers : ~Grants(l, n + 1, k) /\ ~Removes(l, n + 1, k)
    BY <1>9, <2>2 DEF Grants, Removes, AdminEntry
  <2> QED BY <1>4, <1>5, <1>6, <1>9, <2>1, <2>2, <2>3
<1>10. CASE e \in AdminEntry /\ new
  <2>1. w = [Effect(v, e) EXCEPT !.sh = v.sh \cup {e}] /\ Effect(v, e) \in Views
    BY <1>w, <1>10, EffectType DEF Result, Accepted, AdminEntry
  <2>2. w.sh = v.sh \cup {e} /\ w.auto = Effect(v, e).auto /\ w.role = Effect(v, e).role
    BY <2>1 DEF Views
  <2>3. \A types : Counts(l, n + 1, types) <=> e.type \in types
    BY <1>3, <1>10
  <2>4. e.type \in {"addWriter", "addIndexer", "removeWriter", "autoOn", "autoOff", "other"}
    BY <1>10 DEF AdminEntry
  <2>5. w.auto <=> e.type = "autoOn" \/ (v.auto /\ e.type # "autoOff")
    BY <2>2, <2>4 DEF Effect, AddWriter, AddIndexer, RemoveWriter, SetAutoAddWriters, WithRole, Views
  <2>6. \A k \in Peers : w.role[k] =
          IF k = e.key /\ e.type \in {"addWriter", "addIndexer", "removeWriter"}
          THEN CASE e.type = "addWriter" -> "writer" [] e.type = "addIndexer" -> "indexer" [] OTHER -> "reader"
          ELSE v.role[k]
    BY <1>2, <2>2, <2>4 DEF Effect, AddWriter, AddIndexer, RemoveWriter, SetAutoAddWriters, WithRole, Views
  <2>7. \A k \in Peers : /\ Grants(l, n + 1, k) <=> k = e.key /\ e.type \in {"addWriter", "addIndexer"}
                         /\ Removes(l, n + 1, k) <=> k = e.key /\ e.type = "removeWriter"
    BY <2>3, <2>4 DEF Grants, Removes
  <2>8. ASSUME NEW k \in Peers PROVE w.role[k] # "reader" <=> MayWriteAfter(l, n + 1, k)
    <3>1. CASE k # e.key \/ e.type \notin {"addWriter", "addIndexer", "removeWriter"}
      BY <1>5, <1>6, <2>6, <2>7, <3>1
    <3>2. CASE k = e.key /\ e.type \in {"addWriter", "addIndexer"}
      BY <1>5, <1>6, <2>6, <2>7, <3>2
    <3>3. CASE k = e.key /\ e.type = "removeWriter"
      BY <1>5, <2>6, <2>7, <3>3
    <3> QED BY <3>1, <3>2, <3>3
  <2>9. w.auto <=> OnAt(l, n + 2)
    BY <1>4, <1>6, <2>3, <2>5
  <2> QED BY <2>2, <2>8, <2>9
<1> QED BY <1>8, <1>9, <1>10 DEF Entry

\* An append adds one view, the one the longer log says.
LEMMA AppendJustified ==
  ASSUME JustifiedInv, NEW e \in Entry, AppendEntry(e), e.key = Home => e.type # "removeWriter"
  PROVE  EntriesOK' /\ \A n \in 0 .. Len(log') : Described(log', n, views'[n + 1])
<1>1. PICK n \in Nat : n = Len(log)
  BY DEF JustifiedInv, TypeOK
<1>2. /\ Len(log') = n + 1 /\ Len(views) = n + 1
      /\ \A i \in 1 .. n : log'[i] = log[i]
      /\ log'[n + 1] = e
      /\ \A i \in 1 .. n + 1 : views'[i] = views[i]
      /\ views'[n + 2] = Result(Newest, e)
      /\ Newest = views[n + 1]
  <2>1. /\ Len(log') = Len(log) + 1 /\ Len(views) = Len(log) + 1 /\ Len(views') = Len(views) + 1
        /\ \A i \in 1 .. Len(views) : views'[i] = views[i]
        /\ \A i \in 1 .. Len(log) : log'[i] = log[i]
        /\ log'[Len(log')] = e
        /\ views'[Len(views')] = Result(Newest, e)
    BY AppendKeeps DEF JustifiedInv, TypeOK, Newest
  <2> QED BY <1>1, <2>1 DEF Newest
<1>3. EntriesOK'
  BY <1>1, <1>2 DEF JustifiedInv, EntriesOK
<1>4. ASSUME NEW i \in 0 .. n PROVE Described(log', i, views'[i + 1])
  <2>1. \A j \in 1 .. i : log'[j] = log[j]
    BY <1>2
  <2>2. Described(log, i, views[i + 1]) /\ views'[i + 1] = views[i + 1]
    BY <1>1, <1>2 DEF JustifiedInv
  <2>3. i \in Nat
    OBVIOUS
  <2>4. Described(log', i, views[i + 1])
    BY <2>1, <2>2, <2>3, SamePrefix
  <2> QED BY <2>2, <2>4
<1>5. Described(log', n + 1, views'[n + 2])
  <2>1. n \in 0 .. n
    OBVIOUS
  <2>2. Described(log', n, Newest)
    BY <1>2, <1>4, <2>1
  <2>3. Newest \in Views
    BY NewestType DEF JustifiedInv
  <2> QED BY <1>2, <2>2, <2>3, DescribedStep
<1>6. ASSUME NEW i \in 0 .. n + 1 PROVE Described(log', i, views'[i + 1])
  <2>1. i \in 0 .. n \/ (i = n + 1 /\ i + 1 = n + 2)
    OBVIOUS
  <2> QED BY <1>4, <1>5, <2>1
<1> QED BY <1>2, <1>3, <1>6

\* Every step keeps the views what the log says.
LEMMA StepJustified == JustifiedInv /\ [Next]_vars => JustifiedInv'
<1> SUFFICES ASSUME JustifiedInv, [Next]_vars PROVE JustifiedInv'
  OBVIOUS
<1> USE MembershipAssumption
<1>1. TypeOK'
  BY StepType DEF JustifiedInv
<1>2. ASSUME NEW e \in Signed, AppendSigned(e) PROVE JustifiedInv'
  <2>1. e \in Entry /\ AppendEntry(e) /\ (e.key = Home => e.type # "removeWriter")
    BY <1>2 DEF AppendSigned, Entry
  <2> QED BY <1>1, <2>1, AppendJustified DEF JustifiedInv
<1>3. ASSUME NEW c \in Conns, AddAsker(c) PROVE JustifiedInv'
  <2>1. PICK e : e = [type |-> "autoAddWriter", key |-> Asker[c]]
    OBVIOUS
  <2>2. e \in Entry /\ AppendEntry(e) /\ e.type # "removeWriter"
    BY <1>3, <2>1 DEF AddAsker, Entry, AutoEntry
  <2> QED BY <1>1, <2>2, AppendJustified DEF JustifiedInv
<1>4. ASSUME UNCHANGED <<log, views>> PROVE JustifiedInv'
  BY <1>1, <1>4 DEF JustifiedInv, EntriesOK
<1> QED
  BY <1>2, <1>3, <1>4
  DEF Next, Handshake, Connect, SendInvite, Listen, Receive, Refuse, Expire, Disconnect, Apply, vars

\* In every view a peer may hold, who can write is what the log up to there
\* grants and does not take back.
THEOREM MembershipIsJustified == Spec => []WritersAreJustified
<1>1. Init => JustifiedInv
  <2> SUFFICES ASSUME Init PROVE JustifiedInv
    OBVIOUS
  <2>1. TypeOK /\ Len(log) = 0
    BY InitType DEF Init
  <2>2. PICK v : v = [role |-> [p \in Peers |-> IF p = Home THEN "indexer" ELSE "reader"],
                      auto |-> FALSE, sh |-> {}]
    OBVIOUS
  <2>3. v.sh = {} /\ v.auto = FALSE /\ \A k \in Peers : v.role[k] # "reader" <=> k = Home
    BY <2>2
  <2>4. Described(log, 0, v)
    <3>1. \A k : MayWriteAfter(log, 0, k) <=> k = Home
      BY DEF MayWriteAfter
    <3>2. ~OnAt(log, 0 + 1)
      BY DEF OnAt
    <3> QED BY <2>3, <3>1, <3>2 DEF Described
  <2>5. views = <<v>>
    BY <2>2 DEF Init
  <2>6. EntriesOK /\ \A n \in 0 .. Len(log) : Described(log, n, views[n + 1])
    BY <2>1, <2>4, <2>5 DEF EntriesOK
  <2> QED BY <2>1, <2>6 DEF JustifiedInv
<1>2. JustifiedInv => WritersAreJustified
  BY DEF JustifiedInv, WritersAreJustified, Described
<1> QED BY <1>1, <1>2, StepJustified, PTL DEF Spec
=============================================================================
