------------------------------ MODULE MCAuthService ------------------------------
(* A small instance of AuthService for TLC: one address, written in two ways. *)
EXTENDS AuthService, TLC

CONSTANTS typed, lower

MCLower == (typed :> lower) @@ (lower :> lower)

Symmetry == Permutations(Requests) \cup Permutations(Passwords)

=============================================================================
