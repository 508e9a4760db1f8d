--------------------------- MODULE MCSubnetState ---------------------------
(* Instances of SubnetState for TLC: small sets of users and names, and the  *)
(* operation types whose interplay each run is about.                        *)
EXTENDS SubnetState, TLC

CONSTANTS a, b, c, n1, n2

MCUsers == {a, b, c}
MCNicks == {n1, n2}

UserSymmetry == Permutations(Users)
NameSymmetry == Permutations(Users) \cup Permutations(Nicks)

Setup == {"addAdmin", "setChatStatus", "setMod"}
PinOps == Setup \cup {"msg", "pinMessage", "unpinMessage", "deleteMessage"}
ChatOps == PinOps \cup {"updateAdmin"}
RoleOps == Setup \cup {"updateAdmin", "setNick", "muteStatus", "msg", "setWhitelistStatus",
                       "enableWhitelist", "setAutoAddWriters", "enableTransactions"}
AllOps == ChatOps \cup RoleOps
PostOps == {"addAdmin", "setChatStatus", "msg"}
=============================================================================
