---------------------------- MODULE MCPullThreads ----------------------------
(***************************************************************************)
(* One pull with eight descriptors, one more than the call ever has open.  *)
(***************************************************************************)
EXTENDS PullThreads
=============================================================================
