------------------------- MODULE SubnetState_proofs -------------------------
(***************************************************************************)
(* Theorems about SubnetState, for all sets of users and nicknames, all    *)
(* choices of operation types and all bounds.                              *)
(***************************************************************************)
EXTENDS SubnetState, FiniteSetTheorems, TLAPS

\* No user has more messages than the chat: keeps umsgl within its type.
UserCount == \A u \in Users : umsgl[u] <= msgl

\* A set of users with one membership changed is a set of users.
LEMMA MarkType ==
  ASSUME NEW S, S \subseteq Users, NEW u \in Users, NEW on \in BOOLEAN
  PROVE  Mark(S, u, on) \subseteq Users
BY DEF Mark

\* An accepted hash keeps the set of hashes typed.
LEMMA AcceptType ==
  ASSUME TypeOK, NEW hash \in Hashes, Accept(hash)
  PROVE  sh' \subseteq Hashes
BY DEF TypeOK, Accept

\* The settings and the admin: each of these steps keeps the types.
LEMMA AdminStepType ==
  ASSUME TypeOK, NEW s \in Users, NEW hash \in Hashes, AdminStep(s, hash)
  PROVE  TypeOK'
<1> USE AcceptType, MarkType
<1>1. ASSUME NEW a \in Users \cup {Waived}, UpdateAdmin(s, a, hash) PROVE TypeOK'
  BY <1>1 DEF TypeOK, UpdateAdmin, roles, toggles, names, messages, pins, deletes
<1>2. ASSUME NEW u \in Users, NEW on \in BOOLEAN, SetMod(s, u, on, hash) PROVE TypeOK'
  BY <1>2 DEF TypeOK, SetMod, toggles, names, messages, pins, deletes
<1>3. ASSUME NEW u \in Users, NEW on \in BOOLEAN, SetWhitelistStatus(s, u, on, hash)
      PROVE  TypeOK'
  BY <1>3 DEF TypeOK, SetWhitelistStatus, toggles, names, messages, pins, deletes
<1>4. ASSUME NEW on \in BOOLEAN,
             \/ EnableWhitelist(s, on, hash) \/ SetChatStatus(s, on, hash)
             \/ SetAutoAddWriters(s, on, hash) \/ EnableTransactions(s, on, hash)
      PROVE  TypeOK'
  BY <1>4 DEF TypeOK, EnableWhitelist, SetChatStatus, SetAutoAddWriters,
              EnableTransactions, roles, names, messages, pins, deletes
<1> QED
  BY <1>1, <1>2, <1>3, <1>4 DEF AdminStep

\* Posting keeps the types.
LEMMA MsgType ==
  ASSUME TypeOK, UserCount, NEW s \in Users, NEW hash \in Hashes, Msg(s, hash)
  PROVE  TypeOK'
<1>1. msgl \in MsgIds /\ msgl + 1 \in 0 .. MaxMsgs /\ umsgl[s] + 1 \in 0 .. MaxMsgs
  BY BoundsAssumption DEF TypeOK, Msg, MsgIds, UserCount
<1>2. NewMessage(s) \in Message
  BY DEF NewMessage, Message
<1>3. msg' \in [MsgIds -> Message \cup {None}]
  BY <1>1, <1>2 DEF TypeOK, Msg, Post
<1>4. umsg' \in [Users -> [MsgIds -> MsgIds \cup {None}]]
  BY <1>1 DEF TypeOK, Msg, Post
<1>5. umsgl' \in [Users -> 0 .. MaxMsgs]
  BY <1>1 DEF TypeOK, Msg, Post
<1>6. msgl' \in 0 .. MaxMsgs /\ sh' \subseteq Hashes
  BY <1>1, AcceptType DEF Msg, Post
<1> QED
  BY <1>3, <1>4, <1>5, <1>6
  DEF TypeOK, Msg, roles, toggles, names, pins, deletes

\* Renaming keeps the types.
LEMMA SetNickType ==
  ASSUME TypeOK, NEW s \in Users, NEW u \in Users, NEW n \in Nicks, NEW hash \in Hashes,
         SetNick(s, u, n, hash)
  PROVE  TypeOK'
<1>1. nick' \in [Users -> Nicks \cup {None}]
  BY DEF TypeOK, SetNick
<1>2. kcin' \in [Nicks -> Users \cup {None}]
  BY DEF TypeOK, SetNick, Reverse
<1>3. sh' \subseteq Hashes
  BY AcceptType DEF SetNick
<1> QED
  BY <1>1, <1>2, <1>3 DEF TypeOK, SetNick, roles, toggles, messages, pins, deletes

\* Muting keeps the types.
LEMMA MuteStatusType ==
  ASSUME TypeOK, NEW s \in Users, NEW u \in Users, NEW on \in BOOLEAN,
         NEW hash \in Hashes, MuteStatus(s, u, on, hash)
  PROVE  TypeOK'
<1>1. muted' \subseteq Users /\ sh' \subseteq Hashes
  BY MarkType, AcceptType DEF TypeOK, MuteStatus
<1> QED
  BY <1>1 DEF TypeOK, MuteStatus, toggles, names, messages, pins, deletes

\* What a deletion does to the messages, field by field.
LEMMA DeleteMessageEffect ==
  ASSUME TypeOK, NEW s \in Users, NEW m \in MsgIds, NEW hash \in Hashes,
         DeleteMessage(s, m, hash)
  PROVE  /\ msg[m] \in Message
         /\ msg' = [msg EXCEPT ![m] = [msg[m] EXCEPT !.text = FALSE, !.deletedBy = s]]
<1>1. msg[m] \in Message
  BY DEF TypeOK, DeleteMessage, Deletable
<1> QED
  BY <1>1 DEF TypeOK, DeleteMessage

\* Deleting keeps the types.
LEMMA DeleteMessageType ==
  ASSUME TypeOK, NEW s \in Users, NEW m \in MsgIds, NEW hash \in Hashes,
         DeleteMessage(s, m, hash)
  PROVE  TypeOK'
<1>1. /\ msg[m] \in Message
      /\ msg' = [msg EXCEPT ![m] = [msg[m] EXCEPT !.text = FALSE, !.deletedBy = s]]
  BY DeleteMessageEffect
<1>2. [msg[m] EXCEPT !.text = FALSE, !.deletedBy = s] \in Message
  BY <1>1 DEF Message
<1>3. msg' \in [MsgIds -> Message \cup {None}]
  BY <1>1, <1>2 DEF TypeOK
<1>4. delm' \in [DelIds -> MsgIds \cup {None}]
  BY DEF TypeOK, DeleteMessage
<1>5. delml' \in 0 .. MaxOps
  <2>1. delml \in 0 .. MaxOps /\ delml < MaxOps /\ delml' = delml + 1
    BY DEF TypeOK, DeleteMessage
  <2> QED
    BY <2>1, BoundsAssumption
<1>6. sh' \subseteq Hashes
  BY AcceptType DEF DeleteMessage
<1> QED
  BY <1>3, <1>4, <1>5, <1>6 DEF TypeOK, DeleteMessage, roles, toggles, names, pins

\* The slot a pin goes to, and the message it leaves behind.
LEMMA PinMessageEffect ==
  ASSUME TypeOK, NEW s \in Users, NEW m \in MsgIds, NEW on \in BOOLEAN,
         NEW hash \in Hashes, PinMessage(s, m, on, hash)
  PROVE  /\ msg[m] \in Message
         /\ SlotOf(m) \in PinIds
         /\ msg' = [msg EXCEPT ![m] = [msg[m] EXCEPT !.pinId = SlotOf(m), !.pinned = on]]
<1>1. msg[m] \in Message
  BY DEF TypeOK, PinMessage
<1>2. SlotOf(m) \in PinIds
  BY <1>1, BoundsAssumption DEF TypeOK, PinMessage, SlotOf, Message, PinIds
<1>3. msg' = [msg EXCEPT ![m] = [msg[m] EXCEPT !.pinId = SlotOf(m), !.pinned = on]]
  BY <1>1 DEF TypeOK, PinMessage
<1> QED
  BY <1>1, <1>2, <1>3

\* Pinning keeps the types.
LEMMA PinMessageType ==
  ASSUME TypeOK, NEW s \in Users, NEW m \in MsgIds, NEW on \in BOOLEAN,
         NEW hash \in Hashes, PinMessage(s, m, on, hash)
  PROVE  TypeOK'
<1>1. msg[m] \in Message /\ SlotOf(m) \in PinIds
      /\ msg' = [msg EXCEPT ![m] = [msg[m] EXCEPT !.pinId = SlotOf(m), !.pinned = on]]
  BY PinMessageEffect, ZenonT(40)
<1>2. [msg[m] EXCEPT !.pinId = SlotOf(m), !.pinned = on] \in Message
  BY <1>1 DEF Message
<1>3. msg' \in [MsgIds -> Message \cup {None}]
  BY <1>1, <1>2 DEF TypeOK
<1>4. pni' \in [PinIds -> Slot \cup {None}]
  BY <1>1 DEF TypeOK, PinMessage, Slot
<1>5. pnl' \in 0 .. MaxPins
  BY <1>1, BoundsAssumption DEF TypeOK, PinMessage, SlotOf, PinIds
<1>6. sh' \subseteq Hashes
  BY AcceptType DEF PinMessage
<1> QED
  BY <1>3, <1>4, <1>5, <1>6 DEF TypeOK, PinMessage, roles, toggles, names, deletes

\* An unpin either finds its message and clears the pin on both sides, or leaves
\* both as they are.
LEMMA UnpinMessageEffect ==
  ASSUME TypeOK, NEW s \in Users, NEW p \in PinIds, NEW hash \in Hashes,
         UnpinMessage(s, p, hash)
  PROVE  /\ pni[p] \in Slot
         /\ pni[p].msg \in MsgIds
         /\ \/ UNCHANGED <<msg, pni>>
            \/ /\ msg[pni[p].msg] \in Message
               /\ msg' = [msg EXCEPT ![pni[p].msg] =
                            [msg[pni[p].msg] EXCEPT !.pinned = FALSE, !.pinId = None]]
               /\ pni' = [pni EXCEPT ![p] = [pni[p] EXCEPT !.pinned = FALSE]]
<1>1. pni[p] \in Slot
  BY DEF TypeOK, UnpinMessage
<1>2. pni[p].msg \in MsgIds
  BY <1>1 DEF Slot
<1>3. CASE msg[pni[p].msg] # None
  <2>1. msg[pni[p].msg] \in Message
    BY <1>2, <1>3 DEF TypeOK
  <2> QED
    BY <1>1, <1>2, <1>3, <2>1 DEF TypeOK, UnpinMessage
<1>4. CASE msg[pni[p].msg] = None
  BY <1>1, <1>2, <1>4 DEF UnpinMessage
<1> QED
  BY <1>3, <1>4

\* Unpinning keeps the types.
LEMMA UnpinMessageType ==
  ASSUME TypeOK, NEW s \in Users, NEW p \in PinIds, NEW hash \in Hashes,
         UnpinMessage(s, p, hash)
  PROVE  TypeOK'
<1> DEFINE m == pni[p].msg
<1>1. msg' \in [MsgIds -> Message \cup {None}] /\ pni' \in [PinIds -> Slot \cup {None}]
  <2>1. CASE UNCHANGED <<msg, pni>>
    BY <2>1 DEF TypeOK
  <2>2. CASE /\ msg[m] \in Message
             /\ msg' = [msg EXCEPT ![m] = [msg[m] EXCEPT !.pinned = FALSE, !.pinId = None]]
             /\ pni' = [pni EXCEPT ![p] = [pni[p] EXCEPT !.pinned = FALSE]]
    <3>1. [msg[m] EXCEPT !.pinned = FALSE, !.pinId = None] \in Message
      BY <2>2 DEF Message
    <3>2. pni[p] \in Slot
      BY UnpinMessageEffect
    <3>3. [pni[p] EXCEPT !.pinned = FALSE] \in Slot
      BY <3>2 DEF Slot
    <3> QED
      BY <2>2, <3>1, <3>3 DEF TypeOK
  <2> QED
    BY <2>1, <2>2, UnpinMessageEffect
<1>2. sh' \subseteq Hashes
  BY AcceptType DEF UnpinMessage
<1> QED
  BY <1>1, <1>2 DEF TypeOK, UnpinMessage, roles, toggles, names, deletes

\* Every step keeps the types.
LEMMA NextType ==
  ASSUME TypeOK, UserCount, [Next]_vars
  PROVE  TypeOK'
<1>1. ASSUME NEW u \in Users, AddAdmin(u) PROVE TypeOK'
  BY <1>1 DEF TypeOK, AddAdmin, roles, toggles, names, messages, pins, deletes
<1>2. ASSUME NEW s \in Users, NEW hash \in Hashes, ChatStep(s, hash) PROVE TypeOK'
  BY <1>2, MsgType, SetNickType, MuteStatusType, DeleteMessageType, PinMessageType,
     UnpinMessageType DEF ChatStep
<1>3. CASE UNCHANGED vars
  BY <1>3 DEF TypeOK, vars, roles, toggles, names, messages, pins, deletes
<1> QED
  BY <1>1, <1>2, <1>3, AdminStepType DEF Next

-----------------------------------------------------------------------------
(* What the operations that do not touch a group of keys leave alone. *)

\* The admin's settings leave chat, names and pins alone.
LEMMA AdminStepFrame ==
  ASSUME NEW s \in Users, NEW hash \in Hashes, AdminStep(s, hash)
  PROVE  /\ admin \in Users /\ Accept(hash)
         /\ UNCHANGED <<names, messages, pins, deletes>>
BY DEF AdminStep, IsAdmin, UpdateAdmin, SetMod, SetWhitelistStatus, EnableWhitelist,
       SetChatStatus, SetAutoAddWriters, EnableTransactions

-----------------------------------------------------------------------------
(* Nicknames: setNick is the only operation that writes either index. *)

\* Renaming keeps nick/ and kcin/ inverse.
LEMMA SetNickKeepsBijection ==
  ASSUME TypeOK, NickBijection, NEW s \in Users, NEW u \in Users, NEW n \in Nicks,
         NEW hash \in Hashes, SetNick(s, u, n, hash)
  PROVE  NickBijection'
<1> SUFFICES ASSUME NEW v \in Users, NEW k \in Nicks
             PROVE  (nick[v] = k <=> kcin[k] = v)'
  BY DEF NickBijection
<1>1. /\ nick' = [nick EXCEPT ![u] = n]
      /\ kcin'[k] = IF k = n THEN u ELSE IF k = nick[u] THEN None ELSE kcin[k]
      /\ kcin[n] = None
  BY DEF SetNick, Reverse, Free
<1>2. /\ nick[v] = k <=> kcin[k] = v
      /\ nick[u] = k <=> kcin[k] = u
      /\ nick[v] = n <=> kcin[n] = v
  BY DEF NickBijection
<1>3. nick'[v] = IF v = u THEN n ELSE nick[v]
  BY <1>1 DEF TypeOK
<1>4. None \notin Users
  BY NamesAssumption
<1> QED
  BY <1>1, <1>2, <1>3, <1>4

\* Every step keeps nick/ and kcin/ inverse.
LEMMA NextNick ==
  ASSUME TypeOK, NickBijection, [Next]_vars
  PROVE  NickBijection'
<1>1. ASSUME NEW s \in Users, NEW hash \in Hashes, ChatStep(s, hash)
      PROVE  NickBijection'
  <2>1. ASSUME NEW u \in Users, NEW n \in Nicks, SetNick(s, u, n, hash)
        PROVE  NickBijection'
    BY <2>1, SetNickKeepsBijection
  <2>2. CASE UNCHANGED names
    BY <2>2 DEF NickBijection, names
  <2> QED
    BY <1>1, <2>1, <2>2
    DEF ChatStep, Msg, MuteStatus, DeleteMessage, PinMessage, UnpinMessage
<1>2. CASE UNCHANGED names
  BY <1>2 DEF NickBijection, names
<1> QED
  BY <1>1, <1>2, AdminStepFrame DEF Next, AddAdmin, vars

-----------------------------------------------------------------------------
(* Pins. *)

\* Pinning keeps pin ids leading back to their messages.
LEMMA PinMessageKeepsPins ==
  ASSUME TypeOK, PinIdLeadsBack, NEW s \in Users, NEW m \in MsgIds, NEW on \in BOOLEAN,
         NEW hash \in Hashes, PinMessage(s, m, on, hash)
  PROVE  PinIdLeadsBack'
<1> DEFINE slot == SlotOf(m)
<1> SUFFICES ASSUME NEW k \in MsgIds, msg'[k] # None
             PROVE  /\ msg'[k].pinId = None => msg'[k].pinned = FALSE
                    /\ msg'[k].pinId # None =>
                         /\ msg'[k].pinId < pnl'
                         /\ pni'[msg'[k].pinId].msg = k
                         /\ pni'[msg'[k].pinId].pinned = msg'[k].pinned
  BY DEF PinIdLeadsBack
<1>1. /\ msg[m] \in Message
      /\ slot \in PinIds
      /\ msg' = [msg EXCEPT ![m] = [msg[m] EXCEPT !.pinId = slot, !.pinned = on]]
  BY PinMessageEffect, ZenonT(40)
<1>2. /\ pni' = [pni EXCEPT ![slot] = [msg |-> m, pinned |-> on]]
      /\ pnl' = IF msg[m].pinId = None THEN pnl + 1 ELSE pnl
  BY DEF PinMessage
<1>3. slot \in Nat /\ pnl \in Nat /\ slot # None
  BY <1>1, BoundsAssumption, NamesAssumption DEF TypeOK, PinIds
<1>4. slot < pnl' /\ pnl <= pnl'
  <2>1. CASE msg[m].pinId = None
    BY <2>1, <1>2, <1>3 DEF SlotOf
  <2>2. CASE msg[m].pinId # None
    <3>1. slot = msg[m].pinId /\ pnl' = pnl
      BY <2>2, <1>2 DEF SlotOf
    <3>2. msg[m] # None
      BY DEF PinMessage
    <3>3. msg[m].pinId < pnl
      BY <3>2, <2>2 DEF PinIdLeadsBack
    <3> QED
      BY <3>1, <3>3, <1>3
  <2> QED
    BY <2>1, <2>2
<1>5. CASE k = m
  <2>1. msg'[k].pinId = slot /\ msg'[k].pinned = on
    BY <1>1, <1>5 DEF TypeOK, Message
  <2>2. pni'[slot] = [msg |-> m, pinned |-> on]
    BY <1>1, <1>2 DEF TypeOK
  <2> QED
    BY <2>1, <2>2, <1>3, <1>4, <1>5
<1>6. CASE k # m
  <2>1. msg'[k] = msg[k]
    BY <1>1, <1>6 DEF TypeOK
  <2>2. CASE msg[k].pinId = None
    BY <2>1, <2>2 DEF PinIdLeadsBack
  <2>3. CASE msg[k].pinId # None
    <3>1. /\ msg[k].pinId < pnl
          /\ pni[msg[k].pinId].msg = k
          /\ pni[msg[k].pinId].pinned = msg[k].pinned
      BY <2>1, <2>3 DEF PinIdLeadsBack
    <3>2. msg[k].pinId \in PinIds
      BY <2>1, <2>3 DEF TypeOK, Message
    <3>3. msg[k].pinId # slot
      <4>1. CASE msg[m].pinId = None
        BY <4>1, <3>1, <3>2, <1>3 DEF SlotOf, PinIds
      <4>2. CASE msg[m].pinId # None
        <5>1. pni[slot].msg = m
          BY <4>2 DEF PinIdLeadsBack, SlotOf, PinMessage
        <5> QED
          BY <5>1, <3>1, <1>6
      <4> QED
        BY <4>1, <4>2
    <3>4. pni'[msg[k].pinId] = pni[msg[k].pinId]
      BY <1>2, <3>2, <3>3 DEF TypeOK
    <3>5. msg[k].pinId < pnl'
      BY <3>1, <3>2, <1>2, <1>3 DEF PinIds
    <3> QED
      BY <2>1, <2>3, <3>1, <3>4, <3>5
  <2> QED
    BY <2>2, <2>3
<1> QED
  BY <1>5, <1>6

\* Unpinning keeps pin ids leading back to their messages.
LEMMA UnpinMessageKeepsPins ==
  ASSUME TypeOK, PinIdLeadsBack, NEW s \in Users, NEW p \in PinIds,
         NEW hash \in Hashes, UnpinMessage(s, p, hash)
  PROVE  PinIdLeadsBack'
<1> DEFINE m == pni[p].msg
<1>1. pnl' = pnl
  BY DEF UnpinMessage
<1>2. CASE UNCHANGED <<msg, pni>>
  BY <1>1, <1>2 DEF PinIdLeadsBack
<1>3. CASE /\ msg[m] \in Message
           /\ msg' = [msg EXCEPT ![m] = [msg[m] EXCEPT !.pinned = FALSE, !.pinId = None]]
           /\ pni' = [pni EXCEPT ![p] = [pni[p] EXCEPT !.pinned = FALSE]]
  <2> SUFFICES ASSUME NEW k \in MsgIds, msg'[k] # None
               PROVE  /\ msg'[k].pinId = None => msg'[k].pinned = FALSE
                      /\ msg'[k].pinId # None =>
                           /\ msg'[k].pinId < pnl
                           /\ pni'[msg'[k].pinId].msg = k
                           /\ pni'[msg'[k].pinId].pinned = msg'[k].pinned
    BY <1>1 DEF PinIdLeadsBack
  <2>1. CASE k = m
    BY <1>3, <2>1 DEF TypeOK, Message
  <2>2. CASE k # m
    <3>1. msg'[k] = msg[k]
      BY <1>3, <2>2 DEF TypeOK
    <3>2. ASSUME msg[k].pinId # None
          PROVE  pni'[msg[k].pinId] = pni[msg[k].pinId]
      <4>1. pni[msg[k].pinId].msg = k
        BY <3>1, <3>2 DEF PinIdLeadsBack
      <4>2. msg[k].pinId \in PinIds
        BY <3>1, <3>2 DEF TypeOK, Message
      <4> QED
        BY <4>1, <4>2, <2>2, <1>3 DEF TypeOK
    <3> QED
      BY <3>1, <3>2 DEF PinIdLeadsBack
  <2> QED
    BY <2>1, <2>2
<1> QED
  BY <1>2, <1>3, UnpinMessageEffect

\* Every step keeps pin ids leading back to their messages.
LEMMA NextPins ==
  ASSUME TypeOK, PinIdLeadsBack, [Next]_vars
  PROVE  PinIdLeadsBack'
<1>1. ASSUME NEW s \in Users, NEW hash \in Hashes, Msg(s, hash)
      PROVE  PinIdLeadsBack'
  <2>1. msg' = [msg EXCEPT ![msgl] = NewMessage(s)] /\ UNCHANGED pins
    BY <1>1 DEF Msg, Post
  <2> QED
    BY <2>1 DEF PinIdLeadsBack, NewMessage, pins, TypeOK
<1>2. ASSUME NEW s \in Users, NEW m \in MsgIds, NEW hash \in Hashes,
             DeleteMessage(s, m, hash)
      PROVE  PinIdLeadsBack'
  <2>1. /\ msg[m] \in Message
        /\ msg' = [msg EXCEPT ![m] = [msg[m] EXCEPT !.text = FALSE, !.deletedBy = s]]
    BY <1>2, DeleteMessageEffect
  <2>2. ASSUME NEW k \in MsgIds, msg'[k] # None
        PROVE  msg[k] # None /\ msg'[k].pinId = msg[k].pinId /\ msg'[k].pinned = msg[k].pinned
    <3>1. CASE k = m
      BY <1>2, <2>1, <3>1 DEF TypeOK, Message, DeleteMessage, Deletable
    <3>2. CASE k # m
      BY <2>1, <2>2, <3>2 DEF TypeOK
    <3> QED
      BY <3>1, <3>2
  <2>3. UNCHANGED <<pni, pnl>>
    BY <1>2 DEF DeleteMessage, pins
  <2> QED
    BY <2>2, <2>3 DEF PinIdLeadsBack
<1>3. CASE UNCHANGED <<messages, pins>>
  BY <1>3 DEF PinIdLeadsBack, messages, pins
<1>4. ASSUME NEW s \in Users, NEW hash \in Hashes, ChatStep(s, hash)
      PROVE  PinIdLeadsBack'
  BY <1>4, <1>1, <1>2, <1>3, PinMessageKeepsPins, UnpinMessageKeepsPins
  DEF ChatStep, SetNick, MuteStatus
<1> QED
  BY <1>3, <1>4, AdminStepFrame DEF Next, AddAdmin, vars

-----------------------------------------------------------------------------
(* Moderation rewrites messages in place: it posts none and renames no author. *)

\* Moderation leaves the messages there are and their authors as they are.
LEMMA ModerationKeepsAuthors ==
  ASSUME TypeOK, NEW s \in Users, NEW hash \in Hashes,
         \/ \E m \in MsgIds : DeleteMessage(s, m, hash)
         \/ \E m \in MsgIds, on \in BOOLEAN : PinMessage(s, m, on, hash)
         \/ \E p \in PinIds : UnpinMessage(s, p, hash)
  PROVE  /\ UNCHANGED <<msgl, umsg, umsgl>>
         /\ \A k \in MsgIds : /\ msg'[k] # None <=> msg[k] # None
                              /\ msg[k] # None => msg'[k].address = msg[k].address
<1>1. ASSUME NEW m \in MsgIds, msg[m] \in Message, NEW r \in Message,
             r.address = msg[m].address, msg' = [msg EXCEPT ![m] = r]
      PROVE  \A k \in MsgIds : /\ msg'[k] # None <=> msg[k] # None
                               /\ msg[k] # None => msg'[k].address = msg[k].address
  BY <1>1, NamesAssumption DEF TypeOK
<1>2. ASSUME NEW m \in MsgIds, DeleteMessage(s, m, hash)
      PROVE  \A k \in MsgIds : /\ msg'[k] # None <=> msg[k] # None
                               /\ msg[k] # None => msg'[k].address = msg[k].address
  <2> DEFINE r == [msg[m] EXCEPT !.text = FALSE, !.deletedBy = s]
  <2>1. msg[m] \in Message /\ msg' = [msg EXCEPT ![m] = r]
    BY <1>2, DeleteMessageEffect
  <2>2. r \in Message /\ r.address = msg[m].address
    BY <2>1 DEF Message
  <2> HIDE DEF r
  <2> QED
    BY <2>1, <2>2, <1>1
<1>3. ASSUME NEW m \in MsgIds, NEW on \in BOOLEAN, PinMessage(s, m, on, hash)
      PROVE  \A k \in MsgIds : /\ msg'[k] # None <=> msg[k] # None
                               /\ msg[k] # None => msg'[k].address = msg[k].address
  <2>1. /\ msg[m] \in Message
        /\ SlotOf(m) \in PinIds
        /\ msg' = [msg EXCEPT ![m] = [msg[m] EXCEPT !.pinId = SlotOf(m), !.pinned = on]]
    BY <1>3, PinMessageEffect, ZenonT(40)
  <2> DEFINE r == [msg[m] EXCEPT !.pinId = SlotOf(m), !.pinned = on]
  <2>2. r \in Message /\ r.address = msg[m].address
    BY <2>1 DEF Message
  <2>3. msg' = [msg EXCEPT ![m] = r]
    BY <2>1
  <2> HIDE DEF r
  <2> QED
    BY <2>1, <2>2, <2>3, <1>1
<1>4. ASSUME NEW p \in PinIds, UnpinMessage(s, p, hash)
      PROVE  \A k \in MsgIds : /\ msg'[k] # None <=> msg[k] # None
                               /\ msg[k] # None => msg'[k].address = msg[k].address
  <2> DEFINE m == pni[p].msg
             r == [msg[m] EXCEPT !.pinned = FALSE, !.pinId = None]
  <2>1. CASE msg[m] \in Message /\ msg' = [msg EXCEPT ![m] = r]
    <3>1. r \in Message /\ r.address = msg[m].address
      BY <2>1 DEF Message
    <3>2. m \in MsgIds
      BY <1>4, UnpinMessageEffect
    <3> HIDE DEF r, m
    <3> QED
      BY <2>1, <3>1, <3>2, <1>1
  <2> QED
    BY <1>4, <2>1, UnpinMessageEffect
<1>5. UNCHANGED <<msgl, umsg, umsgl>>
  BY DEF DeleteMessage, PinMessage, UnpinMessage
<1> QED
  BY <1>2, <1>3, <1>4, <1>5

-----------------------------------------------------------------------------
(* The message counters and the per-user index. *)

\* Posting keeps the per-user index exact.
LEMMA MsgKeepsUserIndex ==
  ASSUME TypeOK, UserCount, UserIndexExact, NEW s \in Users, NEW hash \in Hashes,
         Msg(s, hash)
  PROVE  UserCount' /\ UserIndexExact'
<1>1. /\ msg' = [msg EXCEPT ![msgl] = NewMessage(s)]
      /\ umsg' = [umsg EXCEPT ![s][umsgl[s]] = msgl]
      /\ msgl' = msgl + 1
      /\ umsgl' = [umsgl EXCEPT ![s] = umsgl[s] + 1]
  BY DEF Msg, Post
<1>2. msgl \in MsgIds /\ umsgl[s] \in MsgIds /\ umsgl[s] <= msgl
  BY BoundsAssumption DEF TypeOK, Msg, MsgIds, UserCount
<1>3. /\ \A u \in Users : umsgl[u] \in Nat /\ umsgl[u] <= msgl
      /\ \A m \in MsgIds : m \in Nat
      /\ msgl \in Nat
  BY <1>2, BoundsAssumption DEF TypeOK, UserCount, MsgIds
<1>4. \A m \in MsgIds : msg'[m] = IF m = msgl THEN NewMessage(s) ELSE msg[m]
  BY <1>1 DEF TypeOK
<1>5. \A u \in Users : umsgl'[u] = IF u = s THEN umsgl[s] + 1 ELSE umsgl[u]
  BY <1>1 DEF TypeOK
<1>6. \A u \in Users, n \in MsgIds :
        umsg'[u][n] = IF u = s /\ n = umsgl[s] THEN msgl ELSE umsg[u][n]
  BY <1>1, <1>2 DEF TypeOK
<1>7. NewMessage(s) # None /\ NewMessage(s).address = s
  <2>1. NewMessage(s) \in Message
    BY DEF NewMessage, Message
  <2> QED
    BY <2>1, NamesAssumption DEF NewMessage
<1>8. UserCount'
  BY <1>1, <1>3, <1>5 DEF UserCount
<1>9. \A m \in MsgIds : msg'[m] # None <=> m < msgl'
  <2>1. \A m \in MsgIds : msg[m] # None <=> m < msgl
    BY DEF UserIndexExact
  <2> QED
    BY <2>1, <1>1, <1>3, <1>4, <1>7
<1>10. ASSUME NEW u \in Users, NEW n \in MsgIds, n < umsgl'[u]
       PROVE  umsg'[u][n] \in 0 .. msgl' - 1 /\ msg'[umsg'[u][n]].address = u
  <2>1. CASE u = s /\ n = umsgl[s]
    BY <2>1, <1>1, <1>2, <1>3, <1>4, <1>6, <1>7
  <2>2. CASE ~(u = s /\ n = umsgl[s])
    <3>1. umsg'[u][n] = umsg[u][n] /\ n < umsgl[u]
      BY <2>2, <1>3, <1>5, <1>6, <1>10
    <3>2. umsg[u][n] \in 0 .. msgl - 1 /\ msg[umsg[u][n]].address = u
      BY <3>1 DEF UserIndexExact
    <3>3. umsg[u][n] \in MsgIds /\ umsg[u][n] # msgl
      BY <3>2, <1>2, <1>3, BoundsAssumption DEF MsgIds
    <3> QED
      BY <3>1, <3>2, <3>3, <1>1, <1>3, <1>4
  <2> QED
    BY <2>1, <2>2
<1>11. ASSUME NEW u \in Users, NEW n \in MsgIds, NEW k \in MsgIds, n < k, k < umsgl'[u]
       PROVE  umsg'[u][n] < umsg'[u][k]
  <2>1. n < umsgl[u] /\ umsg'[u][n] = umsg[u][n] /\ umsg[u][n] \in 0 .. msgl - 1
    <3>1. n < umsgl[u] /\ ~(u = s /\ n = umsgl[s])
      BY <1>3, <1>5, <1>11
    <3> QED
      BY <3>1, <1>6 DEF UserIndexExact
  <2>2. CASE u = s /\ k = umsgl[s]
    BY <2>1, <2>2, <1>3, <1>6
  <2>3. CASE ~(u = s /\ k = umsgl[s])
    <3>1. k < umsgl[u] /\ umsg'[u][k] = umsg[u][k]
      BY <2>3, <1>3, <1>5, <1>6, <1>11
    <3> QED
      BY <2>1, <3>1, <1>11 DEF UserIndexExact
  <2> QED
    BY <2>2, <2>3
<1>12. ASSUME NEW m \in MsgIds, m < msgl'
       PROVE  \E n \in MsgIds : n < umsgl'[msg'[m].address] /\ umsg'[msg'[m].address][n] = m
  <2>1. CASE m = msgl
    <3>1. msg'[m].address = s
      BY <2>1, <1>4, <1>7
    <3>2. umsgl[s] < umsgl'[s] /\ umsg'[s][umsgl[s]] = m
      BY <2>1, <1>2, <1>3, <1>5, <1>6
    <3> QED
      BY <3>1, <3>2, <1>2
  <2>2. CASE m # msgl
    <3> DEFINE u == msg[m].address
    <3>1. m < msgl /\ msg'[m] = msg[m]
      BY <2>2, <1>1, <1>3, <1>4, <1>12
    <3>2. u \in Users
      BY <3>1 DEF UserIndexExact, TypeOK, Message
    <3>3. PICK n \in MsgIds : n < umsgl[u] /\ umsg[u][n] = m
      BY <3>1 DEF UserIndexExact
    <3>4. n < umsgl'[u] /\ umsg'[u][n] = m
      BY <3>2, <3>3, <1>3, <1>5, <1>6
    <3> QED
      BY <3>1, <3>4
  <2> QED
    BY <2>1, <2>2
<1> QED
  BY <1>8, <1>9, <1>10, <1>11, <1>12 DEF UserIndexExact

\* Every step keeps the per-user index exact.
LEMMA NextUserIndex ==
  ASSUME TypeOK, UserCount, UserIndexExact, [Next]_vars
  PROVE  UserCount' /\ UserIndexExact'
<1>1. CASE UNCHANGED messages
  BY <1>1 DEF UserCount, UserIndexExact, messages
<1>2. ASSUME UNCHANGED <<msgl, umsg, umsgl>>,
             \A k \in MsgIds : /\ msg'[k] # None <=> msg[k] # None
                               /\ msg[k] # None => msg'[k].address = msg[k].address
      PROVE  UserCount' /\ UserIndexExact'
  <2>1. \A m \in MsgIds : m < msgl => msg[m] # None
    BY DEF UserIndexExact
  <2>2. \A u \in Users : \A n \in MsgIds : n < umsgl[u] =>
           umsg[u][n] \in MsgIds /\ msg[umsg[u][n]] # None
    <3>1. \A m \in 0 .. msgl - 1 : m \in MsgIds /\ m < msgl
      BY BoundsAssumption DEF TypeOK, MsgIds
    <3> QED
      BY <2>1, <3>1 DEF UserIndexExact
  <2> QED
    BY <1>2, <2>1, <2>2 DEF UserCount, UserIndexExact
<1>3. ASSUME NEW s \in Users, NEW hash \in Hashes, ChatStep(s, hash)
      PROVE  UserCount' /\ UserIndexExact'
  BY <1>1, <1>2, <1>3, MsgKeepsUserIndex, ModerationKeepsAuthors
  DEF ChatStep, SetNick, MuteStatus
<1> QED
  BY <1>1, <1>3, AdminStepFrame DEF Next, AddAdmin, vars

-----------------------------------------------------------------------------
(* Deletions. *)

\* Deleting keeps the index of deletions exact.
LEMMA DeleteMessageKeepsIndex ==
  ASSUME TypeOK, DeletionIndexExact, NEW s \in Users, NEW m \in MsgIds,
         NEW hash \in Hashes, DeleteMessage(s, m, hash)
  PROVE  DeletionIndexExact'
<1>1. /\ msg[m] \in Message /\ msg[m] # None /\ msg[m].deletedBy = None
      /\ msg' = [msg EXCEPT ![m] = [msg[m] EXCEPT !.text = FALSE, !.deletedBy = s]]
  BY DeleteMessageEffect DEF DeleteMessage, Deletable
<1>2. /\ delml \in DelIds /\ delml' = delml + 1
      /\ delm' = [delm EXCEPT ![delml] = m]
  BY BoundsAssumption DEF DeleteMessage, DelIds, TypeOK
<1>3. \A d \in DelIds : d \in Nat
  BY BoundsAssumption DEF DelIds
<1>4. \A k \in MsgIds : k # m => msg'[k] = msg[k]
  BY <1>1 DEF TypeOK
<1>5. msg'[m] \in Message /\ msg'[m].text = FALSE /\ msg'[m].deletedBy = s
  BY <1>1 DEF TypeOK, Message
<1>6. msg'[m] # None /\ s # None
  BY <1>5, NamesAssumption
<1>7. \A d \in DelIds : delm'[d] = IF d = delml THEN m ELSE delm[d]
  BY <1>2 DEF TypeOK
<1>8. \A d \in DelIds : d < delml' <=> d < delml \/ d = delml
  BY <1>2, <1>3
<1>9. \A d \in DelIds : d < delml => delm[d] # m
  BY <1>1 DEF DeletionIndexExact
<1>10. ASSUME NEW k \in MsgIds, msg'[k] # None
       PROVE  /\ msg'[k].text = FALSE <=> msg'[k].deletedBy # None
              /\ msg'[k].deletedBy # None <=> \E d \in DelIds : d < delml' /\ delm'[d] = k
  <2>1. CASE k = m
    BY <2>1, <1>2, <1>5, <1>6, <1>7, <1>8
  <2>2. CASE k # m
    <3>1. msg'[k] = msg[k]
      BY <2>2, <1>4
    <3>2. \A d \in DelIds : d < delml' /\ delm'[d] = k <=> d < delml /\ delm[d] = k
      BY <2>2, <1>3, <1>7, <1>8
    <3> QED
      BY <3>1, <3>2, <1>10 DEF DeletionIndexExact
  <2> QED
    BY <2>1, <2>2
<1>11. ASSUME NEW d \in DelIds, NEW e \in DelIds, d < delml', e < delml', delm'[d] = delm'[e]
       PROVE  d = e
  BY <1>7, <1>8, <1>9, <1>11 DEF DeletionIndexExact
<1>12. ASSUME NEW d \in DelIds, d < delml'
       PROVE  delm'[d] \in MsgIds /\ msg'[delm'[d]] # None
  BY <1>4, <1>6, <1>7, <1>8, <1>12 DEF DeletionIndexExact
<1> QED
  BY <1>10, <1>11, <1>12 DEF DeletionIndexExact

\* A step that leaves the text and the deletion mark of every message alone.
LEMMA OthersKeepDeletions ==
  ASSUME DeletionIndexExact, UNCHANGED deletes,
         \A k \in MsgIds : /\ msg'[k] # None <=> msg[k] # None
                           /\ msg[k] # None => /\ msg'[k].text = msg[k].text
                                               /\ msg'[k].deletedBy = msg[k].deletedBy
  PROVE  DeletionIndexExact'
BY DEF DeletionIndexExact, deletes

\* Pins leave deletions alone.
LEMMA PinsKeepDeletions ==
  ASSUME TypeOK, DeletionIndexExact, NEW s \in Users, NEW hash \in Hashes,
         \/ \E m \in MsgIds, on \in BOOLEAN : PinMessage(s, m, on, hash)
         \/ \E p \in PinIds : UnpinMessage(s, p, hash)
  PROVE  DeletionIndexExact'
<1>1. UNCHANGED deletes
  BY DEF PinMessage, UnpinMessage
<1>2. ASSUME NEW m \in MsgIds, msg[m] \in Message, NEW r \in Message,
             r.text = msg[m].text, r.deletedBy = msg[m].deletedBy,
             msg' = [msg EXCEPT ![m] = r]
      PROVE  DeletionIndexExact'
  <2>1. \A k \in MsgIds : /\ msg'[k] # None <=> msg[k] # None
                          /\ msg[k] # None => /\ msg'[k].text = msg[k].text
                                              /\ msg'[k].deletedBy = msg[k].deletedBy
    BY <1>2, NamesAssumption DEF TypeOK
  <2> QED
    BY <1>1, <2>1, OthersKeepDeletions
<1>3. ASSUME NEW m \in MsgIds, NEW on \in BOOLEAN, PinMessage(s, m, on, hash)
      PROVE  DeletionIndexExact'
  <2>1. /\ msg[m] \in Message
        /\ SlotOf(m) \in PinIds
        /\ msg' = [msg EXCEPT ![m] = [msg[m] EXCEPT !.pinId = SlotOf(m), !.pinned = on]]
    BY <1>3, PinMessageEffect, ZenonT(40)
  <2> DEFINE r == [msg[m] EXCEPT !.pinId = SlotOf(m), !.pinned = on]
  <2>2. r \in Message /\ r.text = msg[m].text /\ r.deletedBy = msg[m].deletedBy
    BY <2>1 DEF Message
  <2>3. msg' = [msg EXCEPT ![m] = r]
    BY <2>1
  <2> HIDE DEF r
  <2> QED
    BY <2>1, <2>2, <2>3, <1>2
<1>4. ASSUME NEW p \in PinIds, UnpinMessage(s, p, hash)
      PROVE  DeletionIndexExact'
  <2> DEFINE m == pni[p].msg
             r == [msg[m] EXCEPT !.pinned = FALSE, !.pinId = None]
  <2>1. CASE UNCHANGED <<msg, pni>>
    BY <1>1, <2>1, OthersKeepDeletions
  <2>2. CASE msg[m] \in Message /\ msg' = [msg EXCEPT ![m] = r]
    <3>1. r \in Message /\ r.text = msg[m].text /\ r.deletedBy = msg[m].deletedBy
      BY <2>2 DEF Message
    <3>2. m \in MsgIds
      BY <1>4, UnpinMessageEffect
    <3> HIDE DEF r, m
    <3> QED
      BY <2>2, <3>1, <3>2, <1>2
  <2> QED
    BY <1>4, <2>1, <2>2, UnpinMessageEffect
<1> QED
  BY <1>3, <1>4

\* Every step keeps the index of deletions exact.
LEMMA NextDeletions ==
  ASSUME TypeOK, UserIndexExact, DeletionIndexExact, [Next]_vars
  PROVE  DeletionIndexExact'
<1>1. ASSUME NEW s \in Users, NEW hash \in Hashes, Msg(s, hash)
      PROVE  DeletionIndexExact'
  <2>1. msg' = [msg EXCEPT ![msgl] = NewMessage(s)] /\ UNCHANGED deletes
    BY <1>1 DEF Msg, Post
  <2>2. msgl \in MsgIds /\ msg[msgl] = None
    <3>1. msgl \in MsgIds /\ ~(msgl < msgl)
      BY <1>1, BoundsAssumption DEF TypeOK, Msg, MsgIds
    <3> QED
      BY <3>1 DEF UserIndexExact
  <2>3. NewMessage(s).text = TRUE /\ NewMessage(s).deletedBy = None
    BY DEF NewMessage
  <2>4. \A d \in DelIds : d < delml => delm[d] # msgl
    BY <2>2 DEF DeletionIndexExact
  <2>5. NewMessage(s) # None
    <3>1. NewMessage(s) \in Message
      BY DEF NewMessage, Message
    <3> QED
      BY <3>1, NamesAssumption
  <2>6. \A k \in MsgIds : msg'[k] = IF k = msgl THEN NewMessage(s) ELSE msg[k]
    BY <2>1 DEF TypeOK
  <2> QED
    BY <2>1, <2>3, <2>4, <2>5, <2>6 DEF DeletionIndexExact, deletes
<1>2. CASE UNCHANGED <<messages, deletes>>
  BY <1>2 DEF DeletionIndexExact, messages, deletes
<1>3. ASSUME NEW s \in Users, NEW hash \in Hashes, ChatStep(s, hash)
      PROVE  DeletionIndexExact'
  BY <1>1, <1>2, <1>3, DeleteMessageKeepsIndex, PinsKeepDeletions
  DEF ChatStep, SetNick, MuteStatus
<1> QED
  BY <1>2, <1>3, AdminStepFrame DEF Next, AddAdmin, vars

-----------------------------------------------------------------------------
(* The unguarded reads of admin.value. *)

\* Chat is only ever on after an admin turned it on.
ChatHasAdmin == chatOn => admin # None

\* Every step keeps admin.value safe to read.
LEMMA NextAdminWhereRead ==
  ASSUME TypeOK, ChatHasAdmin, AdminWhereRead, [Next]_vars
  PROVE  ChatHasAdmin' /\ AdminWhereRead'
<1>1. ASSUME NEW s \in Users, NEW hash \in Hashes, AdminStep(s, hash)
      PROVE  admin' # None
  BY <1>1, NamesAssumption
  DEF AdminStep, IsAdmin, UpdateAdmin, SetMod, SetWhitelistStatus, EnableWhitelist,
      SetChatStatus, SetAutoAddWriters, EnableTransactions
<1>2. ASSUME NEW s \in Users, NEW hash \in Hashes, ChatStep(s, hash)
      PROVE  admin # None /\ admin' = admin
  <2>1. CASE Msg(s, hash) \/ \E u \in Users, n \in Nicks : SetNick(s, u, n, hash)
    BY <2>1 DEF Msg, SetNick, ChatHasAdmin
  <2>2. CASE \/ \E u \in Users, on \in BOOLEAN : MuteStatus(s, u, on, hash)
             \/ \E m \in MsgIds : DeleteMessage(s, m, hash)
             \/ \E m \in MsgIds, on \in BOOLEAN : PinMessage(s, m, on, hash)
             \/ \E p \in PinIds : UnpinMessage(s, p, hash)
    BY <2>2 DEF MuteStatus, DeleteMessage, PinMessage, UnpinMessage, AdminWhereRead
  <2> QED
    BY <1>2, <2>1, <2>2 DEF ChatStep
<1>3. ASSUME NEW u \in Users, AddAdmin(u)
      PROVE  admin' # None
  BY <1>3, NamesAssumption DEF AddAdmin
<1>4. CASE UNCHANGED vars
  BY <1>4 DEF ChatHasAdmin, AdminWhereRead, vars, toggles, messages, pins
<1> QED
  BY <1>1, <1>2, <1>3, <1>4 DEF Next, ChatHasAdmin, AdminWhereRead

-----------------------------------------------------------------------------
(* Counting. *)

\* An accepted hash is one hash more.
LEMMA AcceptCounts ==
  ASSUME TypeOK, NEW hash \in Hashes, Accept(hash)
  PROVE  Cardinality(sh) \in Nat /\ Cardinality(sh') = Cardinality(sh) + 1
<1>1. IsFiniteSet(Hashes)
  BY FS_Interval, BoundsAssumption DEF Hashes
<1>2. IsFiniteSet(sh)
  BY <1>1, FS_Subset DEF TypeOK
<1> QED
  BY <1>2, FS_CardinalityType, FS_AddElement DEF Accept

\* Every step keeps the counters below the number of accepted hashes.
LEMMA NextCounts ==
  ASSUME TypeOK, NoOperationCountsTwice, [Next]_vars
  PROVE  NoOperationCountsTwice'
<1> USE DEF NoOperationCountsTwice
<1>1. msgl \in Nat /\ delml \in Nat /\ pnl \in Nat
  BY BoundsAssumption DEF TypeOK
<1>2. ASSUME NEW hash \in Hashes, Accept(hash),
             msgl' + delml' + pnl' \in {msgl + delml + pnl, msgl + delml + pnl + 1}
      PROVE  NoOperationCountsTwice'
  BY <1>1, <1>2, AcceptCounts
<1>3. ASSUME NEW s \in Users, NEW hash \in Hashes, ChatStep(s, hash)
      PROVE  /\ Accept(hash)
             /\ msgl' + delml' + pnl' \in {msgl + delml + pnl, msgl + delml + pnl + 1}
  <2>1. CASE Msg(s, hash)
    BY <1>1, <2>1 DEF Msg, Post, pins, deletes
  <2>2. ASSUME NEW m \in MsgIds, DeleteMessage(s, m, hash)
        PROVE  Accept(hash) /\ delml' = delml + 1 /\ UNCHANGED <<msgl, pnl>>
    BY <2>2 DEF DeleteMessage, pins
  <2>3. ASSUME NEW m \in MsgIds, NEW on \in BOOLEAN, PinMessage(s, m, on, hash)
        PROVE  Accept(hash) /\ pnl' \in {pnl, pnl + 1} /\ UNCHANGED <<msgl, delml>>
    BY <2>3 DEF PinMessage, deletes
  <2>4. CASE \/ \E u \in Users, n \in Nicks : SetNick(s, u, n, hash)
             \/ \E u \in Users, on \in BOOLEAN : MuteStatus(s, u, on, hash)
             \/ \E p \in PinIds : UnpinMessage(s, p, hash)
    BY <2>4 DEF SetNick, MuteStatus, UnpinMessage, messages, pins, deletes
  <2> QED
    BY <1>1, <1>3, <2>1, <2>2, <2>3, <2>4 DEF ChatStep
<1>4. ASSUME NEW s \in Users, NEW hash \in Hashes, AdminStep(s, hash)
      PROVE  /\ Accept(hash)
             /\ msgl' + delml' + pnl' \in {msgl + delml + pnl, msgl + delml + pnl + 1}
  BY <1>4, AdminStepFrame DEF messages, pins, deletes
<1>5. CASE UNCHANGED <<messages, pins, deletes, sh>>
  BY <1>5 DEF messages, pins, deletes
<1> QED
  BY <1>2, <1>3, <1>4, <1>5 DEF Next, AddAdmin, vars

-----------------------------------------------------------------------------
\* The inductive invariant: what the runs check, with what makes it inductive.
IInv ==
  /\ TypeOK
  /\ UserCount
  /\ ChatHasAdmin
  /\ NickBijection
  /\ PinIdLeadsBack
  /\ DeletionIndexExact
  /\ UserIndexExact
  /\ NoOperationCountsTwice
  /\ AdminWhereRead

\* The inductive invariant holds initially.
LEMMA InitIInv == Init => IInv
<1> SUFFICES ASSUME Init PROVE IInv
  OBVIOUS
<1>1. TypeOK
  <2>1. /\ nick \in [Users -> Nicks \cup {None}]
        /\ kcin \in [Nicks -> Users \cup {None}]
    BY DEF Init
  <2>2. /\ msg \in [MsgIds -> Message \cup {None}]
        /\ umsg \in [Users -> [MsgIds -> MsgIds \cup {None}]]
        /\ umsgl \in [Users -> 0 .. MaxMsgs]
    BY BoundsAssumption DEF Init
  <2>3. /\ pni \in [PinIds -> Slot \cup {None}]
        /\ delm \in [DelIds -> MsgIds \cup {None}]
    BY DEF Init
  <2>4. /\ admin \in Users \cup {None, Waived}
        /\ mods \subseteq Users /\ muted \subseteq Users /\ whitelist \subseteq Users
        /\ sh \subseteq Hashes /\ privileged \subseteq Users
        /\ whitelistOn \in BOOLEAN /\ chatOn \in BOOLEAN
        /\ autoAdd \in BOOLEAN /\ txEnabled \in BOOLEAN
    BY DEF Init
  <2>5. msgl \in 0 .. MaxMsgs /\ pnl \in 0 .. MaxPins /\ delml \in 0 .. MaxOps
    BY BoundsAssumption DEF Init
  <2> QED
    BY <2>1, <2>2, <2>3, <2>4, <2>5 DEF TypeOK
<1>2. NickBijection
  BY NamesAssumption DEF Init, NickBijection
<1>3. NoOperationCountsTwice
  BY FS_EmptySet DEF Init, NoOperationCountsTwice
<1>4. UserCount /\ UserIndexExact
  BY BoundsAssumption DEF Init, UserCount, UserIndexExact, MsgIds
<1>5. DeletionIndexExact
  BY BoundsAssumption DEF Init, DeletionIndexExact, DelIds
<1>6. ChatHasAdmin /\ PinIdLeadsBack /\ AdminWhereRead
  BY DEF Init, ChatHasAdmin, PinIdLeadsBack, AdminWhereRead
<1> QED
  BY <1>1, <1>2, <1>3, <1>4, <1>5, <1>6 DEF IInv

\* Every step keeps the inductive invariant.
LEMMA NextIInv == IInv /\ [Next]_vars => IInv'
BY NextType, NextNick, NextPins, NextDeletions, NextUserIndex, NextAdminWhereRead,
   NextCounts DEF IInv

\* Every reachable state of every instance satisfies the inductive invariant.
LEMMA InvariantHolds == Spec => []IInv
BY InitIInv, NextIInv, PTL DEF Spec

\* The view keeps its types: no handler writes a counter, an index entry or a
\* message that another handler could not read.
THEOREM TypeCorrect == Spec => []TypeOK
BY InvariantHolds, PTL DEF IInv

\* nick/ and kcin/ stay inverse to each other.
THEOREM NicknamesAreUnique == Spec => []NickBijection
BY InvariantHolds, PTL DEF IInv

\* The pin id of a message leads to the slot that pins it.
THEOREM PinIdsLeadBack == Spec => []PinIdLeadsBack
BY InvariantHolds, PTL DEF IInv

\* delm/ lists each deleted message once and nothing else.
THEOREM DeletionIndexCorrect == Spec => []DeletionIndexExact
BY InvariantHolds, PTL DEF IInv

\* umsg/<user>/ lists exactly the user's messages, in order.
THEOREM UserIndexCorrect == Spec => []UserIndexExact
BY InvariantHolds, PTL DEF IInv

\* An operation applied twice counts once.
THEOREM ReplayCountsOnce == Spec => []NoOperationCountsTwice
BY InvariantHolds, PTL DEF IInv

\* The handlers that dereference admin.value unguarded find an admin entry.
THEOREM AdminReadsAreSafe == Spec => []AdminWhereRead
BY InvariantHolds, PTL DEF IInv

-----------------------------------------------------------------------------
(* Action properties. *)

\* Once admin rights are waived, no entry of the log brings an admin back or
\* changes what only the admin changes.
THEOREM WaiverIsFinal == Spec => WaivedIsFinal
<1>1. ASSUME [Next]_vars, admin = Waived
      PROVE  UNCHANGED <<admin, mods, whitelist, toggles>>
  <2>1. admin \notin Users /\ admin # None
    BY <1>1, NamesAssumption
  <2>2. ASSUME NEW s \in Users, NEW hash \in Hashes, ChatStep(s, hash)
        PROVE  UNCHANGED <<admin, mods, whitelist, toggles>>
    BY <2>2 DEF ChatStep, Msg, SetNick, MuteStatus, DeleteMessage, PinMessage,
                UnpinMessage, roles
  <2>3. ~ \E s \in Users, hash \in Hashes : AdminStep(s, hash)
    BY <2>1, AdminStepFrame
  <2>4. ~ \E u \in Users : AddAdmin(u)
    BY <2>1 DEF AddAdmin
  <2>5. CASE UNCHANGED vars
    BY <2>5 DEF vars, roles
  <2> QED
    BY <1>1, <2>2, <2>3, <2>4, <2>5 DEF Next
<1> QED
  BY <1>1, PTL DEF Spec, WaivedIsFinal

\* What every step keeps of a message.
Final(m) ==
  /\ msg'[m] # None
  /\ msg'[m].address = msg[m].address
  /\ msg[m].deletedBy # None => msg'[m].deletedBy = msg[m].deletedBy
  /\ msg[m].text = FALSE => msg'[m].text = FALSE

\* m is deleted by s in this step.
DeletedBy(m, s) ==
  msg'[m].deletedBy = s /\ \E hash \in Hashes : DeleteMessage(s, m, hash)

\* A step keeps a message, its author and its deletion; only deleteMessage says
\* who deleted it, and it names its signer.
LEMMA StepKeepsMessage ==
  ASSUME IInv, [Next]_vars, NEW m \in MsgIds, msg[m] # None
  PROVE  /\ Final(m)
         /\ msg'[m].deletedBy # msg[m].deletedBy => \E s \in Users : DeletedBy(m, s)
<1> USE DEF Final
<1>1. /\ Final(m)
      /\ msg'[m].deletedBy # msg[m].deletedBy => \E s \in Users : DeletedBy(m, s)
  <2>0. IInv /\ [Next]_vars /\ msg[m] # None
    OBVIOUS
  <2>1. msg'[m] = msg[m] => Final(m)
    OBVIOUS
  <2>2. ASSUME NEW s \in Users, NEW hash \in Hashes, Msg(s, hash)
        PROVE  msg'[m] = msg[m]
    <3>1. msg' = [msg EXCEPT ![msgl] = NewMessage(s)]
      BY <2>2 DEF Msg, Post
    <3>2. m # msgl
      BY <2>0, BoundsAssumption DEF IInv, UserIndexExact, TypeOK, MsgIds
    <3> QED
      BY <3>1, <3>2 DEF IInv, TypeOK
  <2>3. ASSUME NEW s \in Users, NEW hash \in Hashes, ChatStep(s, hash), msg'[m] # msg[m]
        PROVE  /\ Final(m)
               /\ msg'[m].deletedBy # msg[m].deletedBy => DeletedBy(m, s)
    <3>1. TypeOK
      BY <2>0 DEF IInv
    <3>2. ~Msg(s, hash) /\ ~ UNCHANGED messages
      BY <2>2, <2>3 DEF messages
    <3>3. /\ msg'[m] # None
          /\ msg'[m].address = msg[m].address
      BY <2>0, <2>3, <3>1, <3>2, ModerationKeepsAuthors DEF ChatStep, SetNick, MuteStatus
    <3>4. ASSUME NEW k \in MsgIds, DeleteMessage(s, k, hash)
          PROVE  msg[m].deletedBy = None /\ msg'[m].text = FALSE /\ DeletedBy(m, s)
      <4>1. /\ msg[k].deletedBy = None /\ msg[k] \in Message
            /\ msg' = [msg EXCEPT ![k] = [msg[k] EXCEPT !.text = FALSE, !.deletedBy = s]]
        BY <3>1, <3>4, DeleteMessageEffect DEF DeleteMessage, Deletable
      <4>2. k = m
        BY <2>3, <4>1, <3>1 DEF TypeOK
      <4>3. msg'[m].deletedBy = s /\ msg'[m].text = FALSE
        BY <4>1, <4>2, <3>1 DEF TypeOK, Message
      <4> QED
        BY <4>1, <4>2, <4>3, <3>4 DEF DeletedBy
    <3>5. ASSUME NEW k \in MsgIds, NEW on \in BOOLEAN, PinMessage(s, k, on, hash)
          PROVE  msg'[m].deletedBy = msg[m].deletedBy /\ msg'[m].text = msg[m].text
      <4>1. /\ msg[k] \in Message
            /\ msg' = [msg EXCEPT ![k] = [msg[k] EXCEPT !.pinId = SlotOf(k), !.pinned = on]]
        BY <3>1, <3>5, PinMessageEffect, ZenonT(40)
      <4>2. k = m
        BY <2>3, <4>1, <3>1 DEF TypeOK
      <4> QED
        BY <4>1, <4>2, <3>1 DEF TypeOK, Message
    <3>6. ASSUME NEW p \in PinIds, UnpinMessage(s, p, hash)
          PROVE  msg'[m].deletedBy = msg[m].deletedBy /\ msg'[m].text = msg[m].text
      <4> DEFINE k == pni[p].msg
      <4>1. /\ msg[k] \in Message
            /\ msg' = [msg EXCEPT ![k] = [msg[k] EXCEPT !.pinned = FALSE, !.pinId = None]]
        BY <2>3, <3>1, <3>6, UnpinMessageEffect
      <4>2. k = m
        BY <2>3, <4>1, <3>1 DEF TypeOK
      <4> QED
        BY <4>1, <4>2, <3>1 DEF TypeOK, Message
    <3> QED
      BY <2>3, <3>2, <3>3, <3>4, <3>5, <3>6 DEF ChatStep, SetNick, MuteStatus
  <2>4. ASSUME NEW s \in Users, NEW hash \in Hashes, AdminStep(s, hash)
        PROVE  msg'[m] = msg[m]
    BY <2>4, AdminStepFrame DEF messages
  <2>5. CASE (\E u \in Users : AddAdmin(u)) \/ UNCHANGED vars
    BY <2>1, <2>5 DEF AddAdmin, vars, messages
  <2> QED
    BY <2>0, <2>1, <2>3, <2>4, <2>5 DEF Next
<1> QED
  BY <1>1

\* A deletion is never undone, and no message ever changes its author.
THEOREM DeletedStaysDeleted == Spec => DeletionIsFinal
<1>1. ASSUME IInv, [Next]_vars
      PROVE  \A m \in MsgIds : msg[m] # None => Final(m)
  BY <1>1, StepKeepsMessage
<1> QED
  BY <1>1, InvariantHolds, PTL DEF Spec, DeletionIsFinal, Final

\* The admin's messages are deleted by the admin only.
THEOREM AdminIsNotModerated == Spec => AdminMessagesAreSafe
<1> DEFINE Safe(m) ==
      /\ msg[m] # None /\ msg[m].deletedBy = None /\ msg[m].address = admin
      /\ msg'[m].deletedBy # None
      => msg'[m].deletedBy = admin
<1>1. ASSUME IInv, [Next]_vars, NEW m \in MsgIds,
             msg[m] # None, msg[m].deletedBy = None, msg[m].address = admin,
             msg'[m].deletedBy # None
      PROVE  msg'[m].deletedBy = admin
  <2>1. PICK s \in Users : DeletedBy(m, s)
    BY <1>1, StepKeepsMessage
  <2>2. MayDelete(s, m)
    BY <2>1 DEF DeletedBy, DeleteMessage
  <2>3. s = admin
    BY <1>1, <2>2 DEF MayDelete, IsAdmin
  <2> QED
    BY <2>1, <2>3 DEF DeletedBy
<1>2. ASSUME IInv, [Next]_vars PROVE \A m \in MsgIds : Safe(m)
  BY <1>1, <1>2
<1>3. Spec => [][\A m \in MsgIds : Safe(m)]_messages
  <2>1. IInv /\ [Next]_vars => [\A m \in MsgIds : Safe(m)]_messages
    BY <1>2
  <2> QED
    BY <2>1, InvariantHolds, PTL DEF Spec
<1>4. [][\A m \in MsgIds : Safe(m)]_messages <=> AdminMessagesAreSafe
  BY DEF AdminMessagesAreSafe
<1> QED
  BY <1>3, <1>4, PTL

\* A name passes from its holder only when the holder takes another one.
THEOREM NamesAreNeverTaken == Spec => NameIsNeverTaken
<1> DEFINE Moved == \A n \in Nicks : kcin[n] # None /\ kcin'[n] # kcin[n] =>
                      \E k \in Nicks \ {n} : kcin'[k] = kcin[n]
<1>1. ASSUME IInv, NEW s \in Users, NEW u \in Users, NEW k \in Nicks, NEW hash \in Hashes,
             SetNick(s, u, k, hash), NEW n \in Nicks, kcin[n] # None, kcin'[n] # kcin[n]
      PROVE  k # n /\ kcin'[k] = kcin[n]
  <2>1. kcin[k] = None /\ kcin' = Reverse(u, k)
    BY <1>1 DEF SetNick, Free
  <2>2. n # k /\ kcin'[k] = u
    BY <1>1, <2>1 DEF Reverse
  <2>3. n = nick[u]
    BY <1>1, <2>1, <2>2 DEF Reverse
  <2>4. kcin[n] = u
    BY <1>1, <2>3 DEF IInv, NickBijection
  <2> QED
    BY <2>2, <2>4
<1>2. ASSUME IInv, [Next]_vars PROVE Moved
  <2>1. CASE kcin' = kcin
    BY <2>1
  <2>2. ASSUME NEW s \in Users, NEW hash \in Hashes, ChatStep(s, hash), kcin' # kcin
        PROVE  \E u \in Users, k \in Nicks : SetNick(s, u, k, hash)
    BY <2>2 DEF ChatStep, Msg, MuteStatus, DeleteMessage, PinMessage, UnpinMessage, names
  <2>3. ASSUME NEW s \in Users, NEW hash \in Hashes, ChatStep(s, hash)
        PROVE  Moved
    BY <1>1, <1>2, <2>1, <2>2, <2>3
  <2> QED
    BY <1>2, <2>1, <2>3, AdminStepFrame DEF Next, AddAdmin, names, vars
<1>3. Spec => [][Moved]_names
  <2>1. IInv /\ [Next]_vars => [Moved]_names
    BY <1>2
  <2> QED
    BY <2>1, InvariantHolds, PTL DEF Spec
<1>4. [][Moved]_names <=> NameIsNeverTaken
  BY DEF NameIsNeverTaken
<1> QED
  BY <1>3, <1>4, PTL

\* Admin and mods are muted and unmuted by the admin's signature alone.
THEOREM StaffIsMutedByAdmin == Spec => StaffMutedByAdminOnly
<1> DEFINE ByAdmin == muted' \cap Staff # muted \cap Staff =>
                        \E u \in Staff, on \in BOOLEAN, hash \in Hashes :
                          admin \in Users /\ MuteStatus(admin, u, on, hash)
<1>1. ASSUME NEW s \in Users, NEW u \in Users, NEW on \in BOOLEAN, NEW hash \in Hashes,
             MuteStatus(s, u, on, hash), muted' \cap Staff # muted \cap Staff
      PROVE  s = admin /\ u \in Staff
  <2>1. u \in Staff
    BY <1>1 DEF MuteStatus, Mark
  <2>2. ~ModMayActOn(s, u)
    BY <2>1 DEF ModMayActOn, Staff
  <2> QED
    BY <1>1, <2>1, <2>2 DEF MuteStatus, IsAdmin
<1>2. ASSUME [Next]_vars PROVE ByAdmin
  <2>1. CASE muted' = muted
    BY <2>1
  <2>2. ASSUME NEW s \in Users, NEW hash \in Hashes, ChatStep(s, hash), muted' # muted
        PROVE  \E u \in Users, on \in BOOLEAN : MuteStatus(s, u, on, hash)
    BY <2>2 DEF ChatStep, Msg, SetNick, DeleteMessage, PinMessage, UnpinMessage, roles
  <2>3. ASSUME NEW s \in Users, NEW hash \in Hashes, ChatStep(s, hash)
        PROVE  ByAdmin
    BY <1>1, <2>1, <2>2, <2>3
  <2>4. ASSUME NEW s \in Users, NEW hash \in Hashes, AdminStep(s, hash)
        PROVE  muted' = muted
    BY <2>4 DEF AdminStep, UpdateAdmin, SetMod, SetWhitelistStatus, EnableWhitelist,
                SetChatStatus, SetAutoAddWriters, EnableTransactions, roles
  <2> QED
    BY <1>2, <2>1, <2>3, <2>4 DEF Next, AddAdmin, roles, vars
<1>3. Spec => [][ByAdmin]_muted
  <2>1. [Next]_vars => [ByAdmin]_muted
    BY <1>2
  <2> QED
    BY <2>1, PTL DEF Spec
<1>4. [][ByAdmin]_muted <=> StaffMutedByAdminOnly
  BY DEF StaffMutedByAdminOnly
<1> QED
  BY <1>3, <1>4, PTL

-----------------------------------------------------------------------------
(* The read API: slots outlive pins, and their messages stay. *)

\* Every slot that was allotted names a message.
SlotsHold == \A p \in PinIds : p < pnl => pni[p] \in Slot /\ msg[pni[p].msg] # None

\* Pins and unpins keep the slots filled, and messages stay.
LEMMA NextSlots ==
  ASSUME IInv, SlotsHold, [Next]_vars
  PROVE  SlotsHold'
<1>1. \A m \in MsgIds : msg[m] # None => msg'[m] # None
  BY StepKeepsMessage DEF Final
<1>2. TypeOK
  BY DEF IInv
<1>3. ASSUME UNCHANGED pins PROVE SlotsHold'
  BY <1>1, <1>3 DEF SlotsHold, pins, Slot
<1>4. ASSUME NEW s \in Users, NEW m \in MsgIds, NEW on \in BOOLEAN, NEW hash \in Hashes,
             PinMessage(s, m, on, hash)
      PROVE  SlotsHold'
  <2>1. msg[m] # None /\ SlotOf(m) \in PinIds
    BY <1>2, <1>4, PinMessageEffect, ZenonT(40) DEF PinMessage
  <2>2. /\ pni' = [pni EXCEPT ![SlotOf(m)] = [msg |-> m, pinned |-> on]]
        /\ pnl' = IF msg[m].pinId = None THEN pnl + 1 ELSE pnl
    BY <1>4 DEF PinMessage
  <2> SUFFICES ASSUME NEW p \in PinIds, p < pnl'
               PROVE  pni'[p] \in Slot /\ msg'[pni'[p].msg] # None
    BY DEF SlotsHold
  <2>3. CASE p = SlotOf(m)
    <3>1. pni'[p] = [msg |-> m, pinned |-> on]
      BY <1>2, <2>1, <2>2, <2>3 DEF TypeOK
    <3> QED
      BY <1>1, <2>1, <3>1 DEF Slot
  <2>4. CASE p # SlotOf(m)
    <3>1. pni'[p] = pni[p]
      BY <1>2, <2>2, <2>4 DEF TypeOK
    <3>2. p \in Nat /\ pnl \in Nat
      BY <1>2, BoundsAssumption DEF TypeOK, PinIds
    <3>3. p < pnl
      BY <2>2, <2>4, <3>2 DEF SlotOf
    <3> QED
      BY <1>1, <3>1, <3>3 DEF SlotsHold, Slot
  <2> QED
    BY <2>3, <2>4
<1>5. ASSUME NEW s \in Users, NEW q \in PinIds, NEW hash \in Hashes, UnpinMessage(s, q, hash)
      PROVE  SlotsHold'
  <2>1. pnl' = pnl
    BY <1>5 DEF UnpinMessage
  <2>2. /\ pni[q] \in Slot
        /\ pni' = pni \/ pni' = [pni EXCEPT ![q] = [pni[q] EXCEPT !.pinned = FALSE]]
    BY <1>2, <1>5, UnpinMessageEffect
  <2>3. ASSUME NEW p \in PinIds, pni[p] \in Slot
        PROVE  pni'[p] \in Slot /\ pni'[p].msg = pni[p].msg
    <3>1. pni \in [PinIds -> Slot \cup {None}]
      BY <1>2 DEF TypeOK
    <3>2. pni'[p] = pni[p] \/ pni'[p] = [pni[p] EXCEPT !.pinned = FALSE]
      BY <2>2, <3>1
    <3>3. [pni[p] EXCEPT !.pinned = FALSE] \in Slot /\ [pni[p] EXCEPT !.pinned = FALSE].msg = pni[p].msg
      BY <2>3 DEF Slot
    <3> QED
      BY <2>3, <3>2, <3>3
  <2> QED
    BY <1>1, <2>1, <2>3 DEF SlotsHold, Slot
<1>6. ASSUME NEW s \in Users, NEW hash \in Hashes, ChatStep(s, hash)
      PROVE  SlotsHold'
  BY <1>3, <1>4, <1>5, <1>6 DEF ChatStep, Msg, SetNick, MuteStatus, DeleteMessage
<1> QED
  BY <1>3, <1>6, AdminStepFrame DEF Next, AddAdmin, vars

\* getPinnedMessage and getDeletedMessage find a message for every number below
\* the length the api gives.
THEOREM ListsAreReadable == Spec => []ListedMessagesAreRead
<1>1. Init => SlotsHold
  BY BoundsAssumption DEF Init, SlotsHold, PinIds
<1>2. ASSUME IInv, SlotsHold PROVE ListedMessagesAreRead
  <2>1. ASSUME NEW p \in PinIds, p < pnl PROVE GetPinnedMessage(p) # None
    <3>1. pni[p] \in Slot /\ msg[pni[p].msg] # None
      BY <1>2, <2>1 DEF SlotsHold
    <3>2. pni[p] # None
      BY <3>1, NamesAssumption
    <3> QED
      BY <3>1, <3>2 DEF GetPinnedMessage, GetMessage, Number
  <2>2. ASSUME NEW d \in DelIds, d < delml
        PROVE  GetDeletedMessage(d) # None /\ GetDeletedMessage(d).deletedBy # None
    <3>1. delm[d] \in MsgIds /\ msg[delm[d]] # None /\ msg[delm[d]].deletedBy # None
      BY <1>2, <2>2 DEF IInv, DeletionIndexExact
    <3>2. delm[d] # None
      BY <3>1, NamesAssumption, BoundsAssumption DEF MsgIds
    <3> QED
      BY <3>1, <3>2 DEF GetDeletedMessage, GetMessage, Number
  <2> QED
    BY <2>1, <2>2 DEF ListedMessagesAreRead
<1> QED
  BY <1>1, <1>2, InitIInv, NextIInv, NextSlots, PTL DEF Spec
=============================================================================
