----------------------------- MODULE MCBurger -----------------------------
(* A small shop for TLC.  The threads of one kind are interchangeable in  *)
(* the specification and in every safety property.                         *)
EXTENDS BurgerBuddies, TLC

ThreadSymmetry == Permutations(Cooks) \cup Permutations(Cashiers)
                  \cup Permutations(Customers)

=============================================================================
