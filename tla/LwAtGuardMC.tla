---------------------------- MODULE LwAtGuardMC ----------------------------
(* The instances of LwAtCoreMC, for LwAtGuard. *)
EXTENDS LwAtGuard, LwAtCoreMC
=============================================================================
