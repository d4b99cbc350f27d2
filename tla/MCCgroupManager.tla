--------------------------- MODULE MCCgroupManager ---------------------------
(* CgroupManager for TLC: all four controllers. *)
EXTENDS CgroupManager

MCOrder == <<"cpu", "memory", "io", "pid">>
MCValues == {0, 1}

=============================================================================
