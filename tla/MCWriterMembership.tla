------------------------ MODULE MCWriterMembership -------------------------
(* Small instances of WriterMembership for TLC. *)
EXTENDS WriterMembership, TLC

CONSTANTS h, r, s, c1

Sign(type, key) == [type |-> type, key |-> key, nonce |-> 1]

\* s asks r, which the admin's peer h lets in, removes, or never hears of; the
\* setting is switched on and off.
MCPeers == {h, r, s}
MCConns == {c1}
MCAsker == c1 :> s
MCHost == c1 :> r
MCSigned == {Sign("addWriter", r), Sign("removeWriter", r), Sign("autoOn", h), Sign("autoOff", h)}

\* r asks h, and the setting is switched on for good.
OnePair == {h, r}
OneAsker == c1 :> r
OneHost == c1 :> h
OnlyOn == {Sign("autoOn", h)}
=============================================================================
