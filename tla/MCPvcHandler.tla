---------------------------- MODULE MCPvcHandler ----------------------------
(* PvcHandler for TLC: one or two deployment configs and the route of the  *)
(* etcd chain of eight.                                                    *)
EXTENDS PvcHandler, TLC

CONSTANTS dc1, dc2, route

ChainOfThree == <<dc1, dc2, route>>
TwoDcs == <<dc1, dc2>>
ChainOfTwo == <<dc1, route>>
OneDc == <<dc1>>
=============================================================================
