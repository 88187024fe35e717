---- MODULE RpcProtocol ----
(* The request/reply protocol between the controller process and the OpenFlow
   process: the type rpc_command (declared twice in the source, in
   Frenetic_OpenFlow0x01_Plugin.ml and in openflow.ml) and what rpc_handler
   does with each request.

   OpenFlow messages are opaque members of Messages.  What a lookup in the
   table of connected switches returned (a list of identifiers, Some features
   or None, RpcOk or RpcEof) is the set `found': RpcOk and Some are {sw},
   RpcEof and None are {}. *)
EXTENDS Sequences, FiniteSets

CONSTANTS SwitchIds,  \* OpenFlow datapath identifiers
          Messages,   \* OpenFlow messages the controller sends
          Batches     \* the lists of messages it sends in one SendBatch

ASSUME BatchesAreLists == Batches \subseteq Seq(Messages)

Requests ==
  [op : {"GetSwitches"}]
    \cup [op : {"GetSwitchFeatures"}, sw : SwitchIds]
    \cup [op : {"Send"}, sw : SwitchIds, msg : Messages]
    \cup [op : {"SendBatch"}, sw : SwitchIds, msgs : Batches]

ReplyOps == {"SwitchesReply", "SwitchFeaturesReply", "SendReply", "BatchReply"}

Replies == [op : ReplyOps, found : SUBSET SwitchIds]

(* The constructor the caller of request r matches on. *)
ReplyOp(r) ==
  CASE r.op = "GetSwitches"       -> "SwitchesReply"
    [] r.op = "GetSwitchFeatures" -> "SwitchFeaturesReply"
    [] r.op = "Send"              -> "SendReply"
    [] r.op = "SendBatch"         -> "BatchReply"

(* Mutant: a batch is answered as a transaction is. *)
ReplyAsTransaction(r, sws) ==
  [op    |-> IF r.op = "SendBatch" THEN "TrxReply" ELSE ReplyOp(r),
   found |-> IF r.op = "GetSwitches" THEN sws ELSE {r.sw} \cap sws]

(* What rpc_handler answers to r when `sws' is its table of switches. *)
ReplyTo(r, sws) ==
  [op    |-> ReplyOp(r),
   found |-> IF r.op = "GetSwitches" THEN sws ELSE {r.sw} \cap sws]

Payload(r) ==
  CASE r.op = "Send"      -> <<r.msg>>
    [] r.op = "SendBatch" -> r.msgs
    [] OTHER              -> <<>>

(* The messages each switch has yet to receive once r has been handled: a
   message for a switch that is not in the table goes nowhere. *)
WireAfter(r, sws, wire) ==
  IF r.op \in {"Send", "SendBatch"} /\ r.sw \in sws
  THEN [wire EXCEPT ![r.sw] = @ \o Payload(r)]
  ELSE wire
====
