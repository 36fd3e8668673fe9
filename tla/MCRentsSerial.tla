--------------------------- MODULE MCRentsSerial ---------------------------
(* Two properties of different owners.  cleo may rent both; the second     *)
(* rent of the first property is hers too, or that of the other owner.     *)
EXTENDS Rents

CONSTANTS ada, ben, cleo, second, home, shop, r1, r2, r3

MCUsers == {ada, ben, cleo}
MCProperties == {home, shop}
MCRentIds == {r1, r2, r3}
MCOwnerOf == [p \in MCProperties |-> IF p = home THEN ada ELSE ben]
MCPropertyOf == [r \in MCRentIds |-> IF r = r3 THEN shop ELSE home]
MCOccupantOf == [r \in MCRentIds |-> IF r = r2 THEN second ELSE cleo]
=============================================================================
