----------------------------- MODULE MCHashRing -----------------------------
(* Instances of HashRing: four servers with two virtual nodes each, spread *)
(* over twelve hash values.                                                *)
EXTENDS HashRing, TLC

CONSTANTS a, b, c, d

Spread(x, y) == (0 :> x @@ 1 :> y)
MCVHash == (a :> Spread(1, 7) @@ b :> Spread(4, 5) @@ c :> Spread(10, 2)
            @@ d :> Spread(8, 11))
=============================================================================
