----------------------------- MODULE MvProtocol -----------------------------
(* The packets between snis_server and snis_multiverse (snis_multiverse.h).   *)
(* A ship's commodities and passengers travel in two packets of their own     *)
(* right behind its bridge packet; both are read alike at either end, so one  *)
(* "goods" message stands for the pair and its payload is left out.           *)
(* SNISMV_OPCODE_NOOP and SNISMV_OPCODE_UPDATE_BRIDGE_COUNT change nothing    *)
(* that is modelled here.                                                     *)
CONSTANTS Hashes, States

Verdicts == {"pass", "fail", "too_many_bridges", "wrong_solarsystem"}

VerifyMsg(create, enforce, h) ==
    [op |-> IF create THEN "verify_create" ELSE "verify_exists", enforce |-> enforce, hash |-> h]
BridgeMsg(h, state) == [op |-> "update_bridge", hash |-> h, state |-> state]
GoodsMsg(h) == [op |-> "update_goods", hash |-> h]
VerdictMsg(h, verdict) == [op |-> "verification_response", hash |-> h, verdict |-> verdict]

VerifyMsgs == [op : {"verify_create", "verify_exists"}, enforce : BOOLEAN, hash : Hashes]
BridgeMsgs == [op : {"update_bridge"}, hash : Hashes, state : States]
GoodsMsgs == [op : {"update_goods"}, hash : Hashes]
VerdictMsgs == [op : {"verification_response"}, hash : Hashes, verdict : Verdicts]

ToMultiverse == VerifyMsgs \cup BridgeMsgs \cup GoodsMsgs
ToServer == VerdictMsgs \cup BridgeMsgs \cup GoodsMsgs
=============================================================================
