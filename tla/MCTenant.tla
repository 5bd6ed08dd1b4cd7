------------------------------ MODULE MCTenant ------------------------------
(***************************************************************************)
(* Instances of TenantAdmin.  The users but the first are interchangeable, *)
(* and so are the requests and the departments but the default one.        *)
(*                                                                         *)
(* Departments and users share the tenant's lock and nothing else, so a    *)
(* run changes either, while requests about the other come and go.         *)
(***************************************************************************)
EXTENDS TenantAdmin, TLC

Symmetry ==
  Permutations(Users \ {First}) \cup Permutations(Requests) \cup
    Permutations(Departments \ {Default})

UsersAsAtFirst ==
  /\ Active = {First} /\ \A u \in Users \ {First} : status[u] = "none"
  /\ roleArchived = {}

DepartmentsAsAtFirst == \A d \in Departments \ {Default} : department[d] = "none"

Apart == UsersAsAtFirst \/ DepartmentsAsAtFirst
=============================================================================
