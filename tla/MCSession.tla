----------------------------- MODULE MCSession -----------------------------
(* Small instances of Session for TLC. *)
EXTENDS Session, TLC

CONSTANTS c1, c2, a1

\* Both runs of the program use the same account.
MCAcctOf == [k \in {c1, c2} |-> a1]

MCSymmetry == Permutations({c1, c2})
=============================================================================
