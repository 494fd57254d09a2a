----------------------------- MODULE MCLauncher -----------------------------
(***************************************************************************)
(* Small instances of Launcher.                                            *)
(***************************************************************************)
EXTENDS Launcher

=============================================================================
