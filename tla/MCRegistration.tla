--------------------------- MODULE MCRegistration ---------------------------
(* Instances of DeviceRegistration: the names of machines, registrations, codes and prefixes say *)
(* nothing.                                                                                      *)
EXTENDS DeviceRegistration, TLC

Alike ==
  Permutations(Machines) \cup Permutations(Registrations) \cup
  Permutations(Codes) \cup Permutations(DocPrefixes)
=============================================================================
