---------------------------- MODULE MCExtensions ----------------------------
(* Instances of Extensions for TLC: earthdistance requires cube. *)
EXTENDS Extensions, TLC

Available == {"plpgsql", "cube", "earthdistance", "hstore"}
Needs == [e \in Available |-> IF e = "earthdistance" THEN {"cube"} ELSE {}]
Malformed == {"1;2"}

GivenLists ==
    { <<>>, <<"hstore">>, <<"hstore", "hstore">>, <<"plpgsql", "cube">>,
      <<"cube", "earthdistance">>, <<"earthdistance", "cube">>,
      <<"cube", "hstore">>, <<"hstore", "1;2">> }
=============================================================================
