----------------------------- MODULE MCLicense -----------------------------
(* Two licenses of a device: one that is soon read-only and suspended, and *)
(* one that only puts off the suspension.                                  *)
EXTENDS DeviceLicense

McStarts == <<<<0, 1, 1, 2>>, <<0, 1, 1, 5>>>>
=============================================================================
