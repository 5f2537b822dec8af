-------------------------------- MODULE MCKeys --------------------------------
(* A database with two local keys in a category and an order of their own, and *)
(* room for one more key.                                                      *)
EXTENDS Keys, TLC

CONSTANTS u1, u2, s1

Key(uri, order) == [source |-> Local, uri |-> uri, index |-> uri, rev |-> 1, kind |-> "real",
                    cat |-> 1, order |-> order]
Seeds == [k \in KeyIds |-> CASE k = 1 -> Key(u1, 1) [] k = 2 -> Key(u2, 2) [] OTHER -> Nothing]
Categories == [c \in CatIds |-> IF c = 1 THEN [name |-> "old", order |-> 1] ELSE Nothing]
===============================================================================
