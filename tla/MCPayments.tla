----------------------------- MODULE MCPayments -----------------------------
(* Model values for TLC; the instances differ in their .cfg files.  Requests
   and identities are interchangeable; symmetry is for the safety runs only. *)
EXTENDS PaymentsInvariants, TLC

Symmetry == Permutations(Slots) \cup Permutations(Refs)
=============================================================================
