---------------------------- MODULE MCProvisioner ----------------------------
(***************************************************************************)
(* A small instance of Provisioner: the two workload types.                *)
(***************************************************************************)
EXTENDS Provisioner

MCInitialParams == [workload |-> "Deployment", watch |-> TRUE]
MCParameters == {MCInitialParams, [workload |-> "DaemonSet", watch |-> FALSE]}
=============================================================================
