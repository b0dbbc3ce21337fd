----------------------------- MODULE MCSettings -----------------------------
(* Settings with functions that share a name, and a name and a number of     *)
(* arguments.                                                                *)
EXTENDS Settings

OverloadedUdfs ==
    {[name |-> "f", argc |-> 1, kind |-> "scalar"],
     [name |-> "f", argc |-> 2, kind |-> "scalar"],
     [name |-> "f", argc |-> 1, kind |-> "aggregate"]}
LimitsAndQuestion == {-1, 1, 3}
AnyTwo == kSubset(2, Settings)
=============================================================================
