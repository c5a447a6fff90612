---------------------------- MODULE MCLeaseStore ----------------------------
(***************************************************************************)
(* LeaseStore for TLC: all leases share an xid, as the attempts of         *)
(* GetLease's request loop do.  One user calls every method, with leases   *)
(* locked and without; the other one is the client's receiver, which calls *)
(* Get.                                                                    *)
(***************************************************************************)
EXTENDS LeaseStore

CONSTANT Receiver

MCXidOf == [l \in Leases |-> CHOOSE x \in Xids : TRUE]

MCCallsOf == [u \in Users |-> IF u = Receiver THEN {"Get"} ELSE Ops]
=============================================================================
