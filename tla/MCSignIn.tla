------------------------------ MODULE MCSignIn ------------------------------
(***************************************************************************)
(* An instance of SignIn whose attempts are interchangeable.               *)
(*                                                                         *)
(* The limits on failures and the ends of sessions meet only where         *)
(* failures are cleared: a run goes on from the states in which no attempt *)
(* has failed, or no session was opened or ended and no code issued.       *)
(***************************************************************************)
EXTENDS SignIn, TLC

Symmetry == Permutations(Attempts)

NothingFailed == address.failures = <<>> /\ \A k \in Keys : failures[k] = {}

NothingOpened ==
  /\ sessions = {} /\ active = Users /\ revoked = {}
  /\ \A u \in Users : resetCodes[u] = {} /\ endings[u] = 0

Apart == NothingFailed \/ NothingOpened
=============================================================================
