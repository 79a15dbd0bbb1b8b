----------------------------- MODULE MCLSMTree -----------------------------
(* Small instances of LSMTree for TLC. *)
EXTENDS LSMTreeInv

MCKey == {1, 2}
=============================================================================
