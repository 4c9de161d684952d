-------------------------- MODULE MCMountLifecycle --------------------------
(***************************************************************************)
(* Instances of MountLifecycle: two requests that race with the drain, one *)
(* background task that may hang.                                          *)
(***************************************************************************)
EXTENDS MountLifecycle

CONSTANTS o1, o2, t1

TwoOps == {o1, o2}
OneTask == {t1}
=============================================================================
