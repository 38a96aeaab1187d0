--------------------------- MODULE MCRunAdmission ---------------------------
(* RunAdmission for TLC: two clients dispute a key, a third one the budget. *)
EXTENDS RunAdmission, TLC

CONSTANTS c1, c2, c3, j1, j2, b1, b2

MCWants == c1 :> [job |-> j1, body |-> b1]
        @@ c2 :> [job |-> j1, body |-> b2]
        @@ c3 :> [job |-> j2, body |-> b1]

=============================================================================
