---------------------------- MODULE MCLinuxCore ----------------------------
(***************************************************************************)
(* The Linux launcher for TLC: every policy over two limits, strict or     *)
(* not, on every kernel.                                                   *)
(***************************************************************************)
EXTENDS LinuxCoreProperties

MCLimits == {"memory_bytes", "max_file_size_bytes"}
=============================================================================
