----------------------------- MODULE MCMigrations -----------------------------
(* A server started without a keyring, with its first one, with a rotated one  *)
(* that keeps the old key, and with one that lost it, on databases of several  *)
(* ages.                                                                       *)
EXTENDS Migrations, TLC

CONSTANTS e1, e2, b1, m1, m2, m3

File(keys, active) == [keys |-> keys, active |-> active, indexKeys |-> b1 :> m3, activeIndex |-> b1]
Keyrings == {Nothing, File(e1 :> m1, e1), File(e1 :> m1 @@ e2 :> m2, e2), File(e2 :> m2, e2)}
===============================================================================
