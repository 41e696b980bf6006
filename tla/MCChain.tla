------------------------------- MODULE MCChain -------------------------------
(* A small instance of ChainSystem: two tables whose chains begin alike. *)
EXTENDS ChainSystem

CONSTANTS t1, t2, created, updated, deleted

NoTenants == {}
NoPacks   == {}
MCWrites  == (t1 :> <<<<created>>, <<updated>>, <<updated>>>>)
             @@ (t2 :> <<<<created>>, <<deleted>>>>)

AllFaults == {"reorder", "newer", "omit", "repeat", "misname", "foreign", "lose",
               "truncate", "duplicate", "blank", "garble", "rewrite", "alter"}
OneOmission == {"omit"}
=============================================================================
