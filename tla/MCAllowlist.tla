---------------------------- MODULE MCAllowlist ----------------------------
(* Allowlist for TLC: more addresses than entries. *)
EXTENDS Allowlist
=============================================================================
