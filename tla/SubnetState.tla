---------------------------- MODULE SubnetState ----------------------------
(***************************************************************************)
(* The replicated state of a subnet: the keys of the Hyperbee view that    *)
(* the operation handlers of src/operations/ read and write when Autobase  *)
(* applies the linearised log (admin, chat, moderation, nicknames, pins).  *)
(*                                                                         *)
(* One action is one log entry accepted by its handler.  A handler runs    *)
(* alone (apply takes the entries one at a time and flushes one batch), so *)
(* a whole handler is one step; an entry its handler refuses changes no    *)
(* key and is a stuttering step.  The order of the entries is whatever     *)
(* order Autobase gives to the entries of concurrent writers: Next leaves  *)
(* it open, so an operation may be applied long after the moment its       *)
(* signer's own peer allowed it.                                           *)
(*                                                                         *)
(* A signature is represented by its signer: wallet.verify(hash, value,    *)
(* key) holds exactly when the signer owns key, and for no key at all when *)
(* admin rights were waived.  `hash' identifies a signed operation; it is  *)
(* what the sh/<hash> entries remember.                                    *)
(***************************************************************************)
EXTENDS Naturals, FiniteSets

CONSTANTS
  Users,     \* wallet addresses (public keys)
  Nicks,     \* nicknames
  OpTypes,   \* the operation types the log of this instance contains
  MaxMsgs,   \* bound: messages posted
  MaxPins,   \* bound: pni/ slots allotted
  MaxOps,    \* bound: signed operations accepted
  None,      \* batch.get(key) = null
  Waived     \* the admin entry exists and its value is null

MsgIds == 0 .. MaxMsgs - 1
PinIds == 0 .. MaxPins - 1
DelIds == 0 .. MaxOps - 1
Hashes == 1 .. MaxOps

ASSUME BoundsAssumption == MaxMsgs \in Nat /\ MaxPins \in Nat /\ MaxOps \in Nat

VARIABLES
  admin,        \* admin: None, Waived or an address
  mods,         \* { u : mod/<u> is true }
  muted,        \* { u : mtd/<u> is true }
  whitelist,    \* { u : wl/<u> is true }
  whitelistOn,  \* wlst, absent reads as false
  chatOn,       \* chat_status = 'on'
  autoAdd,      \* auto_add_writers = 'on'
  txEnabled,    \* txen, absent reads as true
  nick,         \* nick/<user>
  kcin,         \* kcin/<nick>, the reverse index
  msg,          \* msg/<n>
  msgl,         \* number of messages (absent reads as 0, as for every counter)
  umsg,         \* umsg/<user>/<n>: the message whose key is stored there
  umsgl,        \* umsgl/<user>
  pni,          \* pni/<n>: pin slots
  pnl,          \* number of pin slots
  delm,         \* delm/<n>: ids of the deleted messages
  delml,        \* number of deletions
  sh,           \* { h : sh/<h> exists }
  privileged    \* users that were admin or mod after some prefix of the log:
                \* only their terminals let moderation commands through

roles    == <<mods, muted, whitelist>>
toggles  == <<whitelistOn, chatOn, autoAdd, txEnabled>>
names    == <<nick, kcin>>
messages == <<msg, msgl, umsg, umsgl>>
pins     == <<pni, pnl>>
deletes  == <<delm, delml>>
vars == <<admin, roles, toggles, names, messages, pins, deletes, sh, privileged>>

Message == [address   : Users,
            text      : BOOLEAN,               \* FALSE once msg is null
            deletedBy : Users \cup {None},
            pinned    : BOOLEAN,
            pinId     : PinIds \cup {None}]

Slot == [msg : MsgIds, pinned : BOOLEAN]

ASSUME NamesAssumption ==
  /\ None \notin Users \cup Nicks \cup Nat \cup Message \cup Slot
  /\ Waived \notin Users
  /\ Waived # None

\* Type correctness of every key of the view.
TypeOK ==
  /\ admin \in Users \cup {None, Waived}
  /\ mods \subseteq Users /\ muted \subseteq Users /\ whitelist \subseteq Users
  /\ whitelistOn \in BOOLEAN /\ chatOn \in BOOLEAN
  /\ autoAdd \in BOOLEAN /\ txEnabled \in BOOLEAN
  /\ nick \in [Users -> Nicks \cup {None}]
  /\ kcin \in [Nicks -> Users \cup {None}]
  /\ msg \in [MsgIds -> Message \cup {None}]
  /\ msgl \in 0 .. MaxMsgs
  /\ umsg \in [Users -> [MsgIds -> MsgIds \cup {None}]]
  /\ umsgl \in [Users -> 0 .. MaxMsgs]
  /\ pni \in [PinIds -> Slot \cup {None}]
  /\ pnl \in 0 .. MaxPins
  /\ delm \in [DelIds -> MsgIds \cup {None}]
  /\ delml \in 0 .. MaxOps
  /\ sh \subseteq Hashes
  /\ privileged \subseteq Users

Init ==
  /\ admin = None
  /\ mods = {} /\ muted = {} /\ whitelist = {}
  /\ whitelistOn = FALSE /\ chatOn = FALSE /\ autoAdd = FALSE /\ txEnabled = TRUE
  /\ nick = [u \in Users |-> None]
  /\ kcin = [n \in Nicks |-> None]
  /\ msg = [m \in MsgIds |-> None] /\ msgl = 0
  /\ umsg = [u \in Users |-> [n \in MsgIds |-> None]]
  /\ umsgl = [u \in Users |-> 0]
  /\ pni = [p \in PinIds |-> None] /\ pnl = 0
  /\ delm = [d \in DelIds |-> None] /\ delml = 0
  /\ sh = {} /\ privileged = {}

-----------------------------------------------------------------------------
(* What the handlers share. *)

\* (Mutants: a missing, or a waived, admin entry lets every signature pass.)
IsAdminOrNoEntry(s) == admin = None \/ s = admin
IsAdminOrWaived(s) == admin = Waived \/ s = admin
IsAdmin(s) == admin \in Users /\ s = admin

\* The hash of an entry: one already accepted (the entry was appended twice) or
\* a new one; new hashes are numbered in the order they are accepted.
Arrives(hash) == hash <= Cardinality(sh) + 1

\* (Mutant: sh/<hash> is written and never looked up.)
AcceptAgain(hash) ==
  /\ Arrives(hash)
  /\ sh' = sh \cup {hash}

\* A signed operation takes effect once: its handler looks sh/<hash> up first
\* and writes it with the effect.
Accept(hash) ==
  /\ hash \notin sh
  /\ Arrives(hash)
  /\ sh' = sh \cup {hash}

\* S with the membership of u set to `on' (the true/false entries per user).
Mark(S, u, on) == IF on THEN S \cup {u} ELSE S \ {u}

\* (Mutant: the target's own mod role is not looked at.)
ModMayActOnMods(s, u) == s \in mods /\ u # admin

\* A mod acts on others only, and never on the admin or on another mod.
ModMayActOn(s, u) == s \in mods /\ u \notin mods /\ u # admin

-----------------------------------------------------------------------------
(* The admin and the settings only the admin changes. *)

\* addAdmin: unsigned; accepted once, and only from the bootstrap writer, the
\* one node whose terminal issues it.
AddAdmin(u) ==
  /\ "addAdmin" \in OpTypes
  /\ admin = None
  /\ admin' = u
  /\ privileged' = privileged \cup {u}
  /\ UNCHANGED <<roles, toggles, names, messages, pins, deletes, sh>>

\* updateAdmin: the admin hands the role over, or waives it for good.
UpdateAdmin(s, a, hash) ==
  /\ "updateAdmin" \in OpTypes
  /\ IsAdmin(s)
  /\ Accept(hash)
  /\ admin' = a
  /\ privileged' = privileged \cup ({a} \cap Users)
  /\ UNCHANGED <<roles, toggles, names, messages, pins, deletes>>

SetMod(s, u, on, hash) ==
  /\ "setMod" \in OpTypes
  /\ IsAdmin(s)
  /\ Accept(hash)
  /\ mods' = Mark(mods, u, on)
  /\ privileged' = privileged \cup mods'
  /\ UNCHANGED <<admin, muted, whitelist, toggles, names, messages, pins, deletes>>

SetWhitelistStatus(s, u, on, hash) ==
  /\ "setWhitelistStatus" \in OpTypes
  /\ IsAdmin(s)
  /\ Accept(hash)
  /\ whitelist' = Mark(whitelist, u, on)
  /\ UNCHANGED <<admin, mods, muted, toggles, names, messages, pins, deletes, privileged>>

EnableWhitelist(s, on, hash) ==
  /\ "enableWhitelist" \in OpTypes
  /\ IsAdmin(s)
  /\ Accept(hash)
  /\ whitelistOn' = on
  /\ UNCHANGED <<admin, roles, chatOn, autoAdd, txEnabled, names, messages, pins,
                 deletes, privileged>>

SetChatStatus(s, on, hash) ==
  /\ "setChatStatus" \in OpTypes
  /\ IsAdmin(s)
  /\ Accept(hash)
  /\ chatOn' = on
  /\ UNCHANGED <<admin, roles, whitelistOn, autoAdd, txEnabled, names, messages,
                 pins, deletes, privileged>>

SetAutoAddWriters(s, on, hash) ==
  /\ "setAutoAddWriters" \in OpTypes
  /\ IsAdmin(s)
  /\ Accept(hash)
  /\ autoAdd' = on
  /\ UNCHANGED <<admin, roles, whitelistOn, chatOn, txEnabled, names, messages,
                 pins, deletes, privileged>>

EnableTransactions(s, on, hash) ==
  /\ "enableTransactions" \in OpTypes
  /\ IsAdmin(s)
  /\ Accept(hash)
  /\ txEnabled' = on
  /\ UNCHANGED <<admin, roles, whitelistOn, chatOn, autoAdd, names, messages,
                 pins, deletes, privileged>>

-----------------------------------------------------------------------------
(* Chat. *)

\* The admin is exempt from muting and from the whitelist.
MayPost(s) ==
  \/ IsAdmin(s)
  \/ s \notin muted /\ (whitelistOn => s \in whitelist)

\* (Mutant: pin_id is left out of the posted message.)
NewMessageNoPinId(s) == [address |-> s, text |-> TRUE, deletedBy |-> None, pinned |-> FALSE]

\* What the posters of the program (the terminal and the API) put into an entry:
\* a message that is neither pinned nor deleted.
NewMessage(s) == [address |-> s, text |-> TRUE, deletedBy |-> None,
                  pinned |-> FALSE, pinId |-> None]

\* (Mutant: the user's index advances with the chat's counter.)
PostGlobalIndex(s) ==
  /\ msg' = [msg EXCEPT ![msgl] = NewMessage(s)]
  /\ umsg' = [umsg EXCEPT ![s][msgl] = msgl]
  /\ msgl' = msgl + 1
  /\ umsgl' = [umsgl EXCEPT ![s] = msgl + 1]

Post(s) ==
  /\ msg' = [msg EXCEPT ![msgl] = NewMessage(s)]
  /\ umsg' = [umsg EXCEPT ![s][umsgl[s]] = msgl]
  /\ msgl' = msgl + 1
  /\ umsgl' = [umsgl EXCEPT ![s] = umsgl[s] + 1]

\* msg: the contract's message handler may refuse the message too, which is
\* again a stuttering step.
Msg(s, hash) ==
  /\ "msg" \in OpTypes
  /\ msgl < MaxMsgs
  /\ chatOn
  /\ MayPost(s)
  /\ Accept(hash)
  /\ Post(s)
  /\ UNCHANGED <<admin, roles, toggles, names, pins, deletes, privileged>>

\* Whose signature renames u: u's own, the admin's, or a mod's.  The terminal
\* refuses a foreign name to a user who is neither admin nor mod.
MayRename(s, u) == s = u \/ (s \in privileged /\ (IsAdmin(s) \/ ModMayActOn(s, u)))

\* (Mutant: kcin/<nick> is not looked up.)
FreeUnchecked(n) == n \in Nicks
Free(n) == kcin[n] = None

\* (Mutant: the old name's kcin/ entry stays.)
ReverseKeepsOld(u, n) == [kcin EXCEPT ![n] = u]
Reverse(u, n) ==
  [k \in Nicks |-> IF k = n THEN u ELSE IF k = nick[u] THEN None ELSE kcin[k]]

\* setNick by s for u: frees u's old name and takes n, if n is free.
SetNick(s, u, n, hash) ==
  /\ "setNick" \in OpTypes
  /\ chatOn
  /\ Free(n)
  /\ MayRename(s, u)
  /\ Accept(hash)
  /\ nick' = [nick EXCEPT ![u] = n]
  /\ kcin' = Reverse(u, n)
  /\ UNCHANGED <<admin, roles, toggles, messages, pins, deletes, privileged>>

-----------------------------------------------------------------------------
(* Moderation.  The handlers of the four operations below read admin.value   *)
(* without looking whether there is an admin entry; AdminWhereRead states    *)
(* why that is safe.                                                         *)

MuteStatus(s, u, on, hash) ==
  /\ "muteStatus" \in OpTypes
  /\ s \in privileged
  /\ IsAdmin(s) \/ ModMayActOn(s, u)
  /\ Accept(hash)
  /\ muted' = Mark(muted, u, on)
  /\ UNCHANGED <<admin, mods, whitelist, toggles, names, messages, pins, deletes, privileged>>

\* (Mutant: a mod may delete the admin's messages too.)
MayDeleteAny(s, m) ==
  \/ IsAdmin(s)
  \/ s \in mods
  \/ s \notin mods /\ msg[m].address = s /\ s # admin

\* A mod deletes what is not the admin's; a plain user his own messages.  The
\* terminal asks for admin or mod rights, so a plain user is one that lost
\* them between signing and apply.
MayDelete(s, m) ==
  \/ IsAdmin(s)
  \/ s \in mods /\ msg[m].address # admin
  \/ s \notin mods /\ msg[m].address = s /\ s # admin

\* (Mutant: a deleted message can be deleted again.)
DeletableAgain(m) == msg[m] # None
Deletable(m) == msg[m] # None /\ msg[m].deletedBy = None

DeleteMessage(s, m, hash) ==
  /\ "deleteMessage" \in OpTypes
  /\ s \in privileged
  /\ Deletable(m)
  /\ MayDelete(s, m)
  /\ delml < MaxOps
  /\ Accept(hash)
  /\ msg' = [msg EXCEPT ![m].text = FALSE, ![m].deletedBy = s]
  /\ delm' = [delm EXCEPT ![delml] = m]
  /\ delml' = delml + 1
  /\ UNCHANGED <<admin, roles, toggles, names, msgl, umsg, umsgl, pins, privileged>>

MayPin(s) == IsAdmin(s) \/ s \in mods

\* (Mutant: always the next slot.)
NextSlot(m) == pnl

\* (Mutant: the counter of slots advances before the slot is taken.)
SlotAfterCount(m) == IF msg[m].pinId = None THEN pnl + 1 ELSE msg[m].pinId

\* A message without a pin id gets the next slot, one with a pin id keeps its.
SlotOf(m) == IF msg[m].pinId = None THEN pnl ELSE msg[m].pinId

\* pinMessage with its flag, which may also say "not pinned".
PinMessage(s, m, on, hash) ==
  LET slot == SlotOf(m) IN
  /\ "pinMessage" \in OpTypes
  /\ s \in privileged
  /\ msg[m] # None
  /\ MayPin(s)
  /\ slot < MaxPins
  /\ Accept(hash)
  /\ pni' = [pni EXCEPT ![slot] = [msg |-> m, pinned |-> on]]
  /\ pnl' = IF msg[m].pinId = None THEN pnl + 1 ELSE pnl
  /\ msg' = [msg EXCEPT ![m].pinId = slot, ![m].pinned = on]
  /\ UNCHANGED <<admin, roles, toggles, names, msgl, umsg, umsgl, deletes, privileged>>

\* unpinMessage takes a slot, whichever slot its message is pinned by now.
UnpinMessage(s, p, hash) ==
  LET m == pni[p].msg IN
  /\ "unpinMessage" \in OpTypes
  /\ s \in privileged
  /\ pni[p] # None
  /\ MayPin(s)
  /\ Accept(hash)
  /\ IF msg[m] # None
     THEN /\ msg' = [msg EXCEPT ![m].pinned = FALSE, ![m].pinId = None]
          /\ pni' = [pni EXCEPT ![p].pinned = FALSE]
     ELSE UNCHANGED <<msg, pni>>
  /\ UNCHANGED <<admin, roles, toggles, names, msgl, umsg, umsgl, pnl, deletes, privileged>>

-----------------------------------------------------------------------------
(* What the read API makes of the indexes, at one version of the view. *)

\* pni/<n> and delm/<n> hold the number of a message, umsg/<user>/<n> its key.
Number(m) == [isKey |-> FALSE, msg |-> m]
Key(m) == [isKey |-> TRUE, msg |-> m]

\* getMessage: parseInt makes NaN of a key, and msg/NaN is never written.
GetMessage(index) == IF index.isKey THEN None ELSE msg[index.msg]

GetPinnedMessage(p) == IF pni[p] = None THEN None ELSE GetMessage(Number(pni[p].msg))
GetDeletedMessage(d) == IF delm[d] = None THEN None ELSE GetMessage(Number(delm[d]))
GetUserMessage(u, n) == IF umsg[u][n] = None THEN None ELSE GetMessage(Key(umsg[u][n]))

-----------------------------------------------------------------------------
AdminStep(s, hash) ==
  \/ \E a \in Users \cup {Waived} : UpdateAdmin(s, a, hash)
  \/ \E u \in Users, on \in BOOLEAN : SetMod(s, u, on, hash)
  \/ \E u \in Users, on \in BOOLEAN : SetWhitelistStatus(s, u, on, hash)
  \/ \E on \in BOOLEAN : EnableWhitelist(s, on, hash)
  \/ \E on \in BOOLEAN : SetChatStatus(s, on, hash)
  \/ \E on \in BOOLEAN : SetAutoAddWriters(s, on, hash)
  \/ \E on \in BOOLEAN : EnableTransactions(s, on, hash)

ChatStep(s, hash) ==
  \/ Msg(s, hash)
  \/ \E u \in Users, n \in Nicks : SetNick(s, u, n, hash)
  \/ \E u \in Users, on \in BOOLEAN : MuteStatus(s, u, on, hash)
  \/ \E m \in MsgIds : DeleteMessage(s, m, hash)
  \/ \E m \in MsgIds, on \in BOOLEAN : PinMessage(s, m, on, hash)
  \/ \E p \in PinIds : UnpinMessage(s, p, hash)

\* (Bound: until the hashes are used up.)
Next ==
  \/ \E u \in Users : AddAdmin(u)
  \/ sh # Hashes /\ \E s \in Users, hash \in Hashes : AdminStep(s, hash) \/ ChatStep(s, hash)

Spec == Init /\ [][Next]_vars
-----------------------------------------------------------------------------
(* Invariants. *)

\* A nickname has one holder and a user one nickname: nick/<user> and the
\* reverse index kcin/<nick> that setNick maintains by deleting and writing
\* four keys stay inverse to each other, whoever renames whom.
NickBijection ==
  \A u \in Users, n \in Nicks : nick[u] = n <=> kcin[n] = u

\* The pin id a message carries leads back to it: the slot exists, names the
\* message and has its pinned flag; a message without pin id is not pinned.
\* pinMessage and unpinMessage write both sides, by different keys.
PinIdLeadsBack ==
  \A m \in MsgIds : msg[m] # None =>
    /\ msg[m].pinId = None => msg[m].pinned = FALSE
    /\ msg[m].pinId # None =>
         /\ msg[m].pinId < pnl
         /\ pni[msg[m].pinId].msg = m
         /\ pni[msg[m].pinId].pinned = msg[m].pinned

\* The index of deletions is exact: delm/0.. lists each deleted message once
\* and nothing else, and the text is gone exactly from those messages, whichever
\* of admin, mod and author deletes and whatever pins come in between.
DeletionIndexExact ==
  /\ \A m \in MsgIds : msg[m] # None =>
       /\ msg[m].text = FALSE <=> msg[m].deletedBy # None
       /\ msg[m].deletedBy # None <=> \E d \in DelIds : d < delml /\ delm[d] = m
  /\ \A d, e \in DelIds : d < delml /\ e < delml /\ delm[d] = delm[e] => d = e
  /\ \A d \in DelIds : d < delml => delm[d] \in MsgIds /\ msg[delm[d]] # None

\* The per-user index umsg/<user>/0.. lists exactly that user's messages, in
\* the order of the chat; msg/0..msgl-1 are the messages there are.
UserIndexExact ==
  /\ \A m \in MsgIds : msg[m] # None <=> m < msgl
  /\ \A u \in Users : \A n \in MsgIds : n < umsgl[u] =>
       umsg[u][n] \in 0 .. msgl - 1 /\ msg[umsg[u][n]].address = u
  /\ \A u \in Users : \A n, k \in MsgIds :
       n < k /\ k < umsgl[u] => umsg[u][n] < umsg[u][k]
  /\ \A m \in MsgIds : m < msgl =>
       \E n \in MsgIds : n < umsgl[msg[m].address] /\ umsg[msg[m].address][n] = m

\* Replay protection counted: an operation that was appended twice still makes
\* one message, one deletion or one pin slot, so the three counters never
\* exceed the number of accepted hashes.
NoOperationCountsTwice == msgl + delml + pnl <= Cardinality(sh)

\* muteStatus, deleteMessage, pinMessage and unpinMessage dereference
\* admin.value unguarded.  Without an admin entry none of them gets that far:
\* no user's terminal has let a moderation command through, and there is no
\* message and no pin slot.
AdminWhereRead ==
  admin = None =>
    /\ privileged = {}
    /\ \A m \in MsgIds : msg[m] = None
    /\ \A p \in PinIds : pni[p] = None

\* The api finds a message for every number below getPinnedMessageLength and
\* getDeletedMessageLength, a deleted one for the latter, although a slot
\* outlives the pin and its message may be deleted or pinned elsewhere.
ListedMessagesAreRead ==
  /\ \A p \in PinIds : p < pnl => GetPinnedMessage(p) # None
  /\ \A d \in DelIds : d < delml =>
       GetDeletedMessage(d) # None /\ GetDeletedMessage(d).deletedBy # None

-----------------------------------------------------------------------------
(* What a step may never do. *)

\* "waive admin rights ... entirely": once the admin entry holds null, no later
\* operation restores an admin or changes anything only the admin changes.
WaivedIsFinal ==
  [][admin = Waived => UNCHANGED <<admin, mods, whitelist, toggles>>]_vars

\* A deletion is final: no later pin, unpin or second deletion brings the text
\* back, changes who deleted it or whose message it was.
DeletionIsFinal ==
  [][\A m \in MsgIds : msg[m] # None =>
       /\ msg'[m] # None
       /\ msg'[m].address = msg[m].address
       /\ msg[m].deletedBy # None => msg'[m].deletedBy = msg[m].deletedBy
       /\ msg[m].text = FALSE => msg'[m].text = FALSE]_vars

\* Nobody loses a name to somebody else: kcin/<nick> leaves its holder only when
\* the holder gets another name in the same step.
NameIsNeverTaken ==
  [][\A n \in Nicks : kcin[n] # None /\ kcin'[n] # kcin[n] =>
       \E k \in Nicks \ {n} : kcin'[k] = kcin[n]]_names

\* Only the admin deletes the admin's messages, whoever is admin by the time the
\* deletion is applied.
AdminMessagesAreSafe ==
  [][\A m \in MsgIds :
       /\ msg[m] # None /\ msg[m].deletedBy = None /\ msg[m].address = admin
       /\ msg'[m].deletedBy # None
       => msg'[m].deletedBy = admin]_messages

Staff == mods \cup ({admin} \cap Users)

\* Whether the admin or a mod is muted is changed only by an entry the admin
\* signed: a mod's mute that was signed before its target was promoted is void.
StaffMutedByAdminOnly ==
  [][muted' \cap Staff # muted \cap Staff =>
       \E u \in Staff, on \in BOOLEAN, hash \in Hashes :
         admin \in Users /\ MuteStatus(admin, u, on, hash)]_muted

-----------------------------------------------------------------------------
(* What the documents say and the code does not do. *)

\* "unpinMessage clears pin state": once a message is not pinned, no slot of the
\* pin index says it is.
UnpinClearsPinState ==
  \A p \in PinIds : pni[p] # None /\ pni[p].pinned => msg[pni[p].msg].pinned

\* "new messages can be read from this api's msg functions" (api.js:110): for
\* every number below getUserMessageLength the api finds a message.
UserMessagesAreRead ==
  \A u \in Users, n \in MsgIds : n < umsgl[u] => GetUserMessage(u, n) # None
=============================================================================
