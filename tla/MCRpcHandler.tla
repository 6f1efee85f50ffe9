---------------------------- MODULE MCRpcHandler ----------------------------
(* RpcHandler on small instances: three requests, one of them for a service *)
(* nobody registered, one answered and one not.                             *)
EXTENDS RpcHandler

CONSTANTS r1, r2, r3

MCRequests   == {r1, r2, r3}
MCRegistered == {r1, r2}
MCAcked      == {r1}
=============================================================================
