------------------------------ MODULE MCBundle ------------------------------
(***************************************************************************)
(* The bundle as two reads, in the order the host composes its parts: the  *)
(* license, then the users and roles.  With two edits the users are        *)
(* changed and changed back.                                               *)
(***************************************************************************)
EXTENDS BundleVersions, TLC

CONSTANTS Access, LicenseEdits, AccessEdits

MCParts == {License, Access}
MCBundleParts == <<License, Access>>
MCMaxEdits == [p \in Parts |-> IF p = License THEN LicenseEdits ELSE AccessEdits]
Symmetry == Permutations(Slots)
=============================================================================
