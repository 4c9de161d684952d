--------------------------- MODULE MCTaskRegistry ---------------------------
(* Three concurrent spawn calls. *)
EXTENDS TaskRegistry
CONSTANTS s1, s2, s3

MCSpawns == {s1, s2, s3}
=============================================================================
