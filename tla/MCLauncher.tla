----------------------------- MODULE MCLauncher -----------------------------
(* Small instances of Launcher.                                            *)
EXTENDS Launcher

AllConfigs == Config
RootFSOnly == {[rootfs |-> TRUE, network |-> FALSE]}
=============================================================================
