------------------------------ MODULE MCSetup ------------------------------
(* Two requests at once, two cups, three spellings of two people, and three  *)
(* files: two rosters in opposite orders, and one more for a cup of the same *)
(* name, which spells a player the other way and names her captain of both   *)
(* sides.                                                                    *)
EXTENDS Setup, TLC

CONSTANTS c1, c2, ann, ANN, bob

MCFolded == ann :> ann @@ ANN :> ann @@ bob :> bob

SeedFile(n, roster, captains) ==
    [cup |-> n, course |-> "links", color |-> "white", roster |-> roster,
     captains |-> captains, matches |-> 1]

MCFiles ==
    {SeedFile("one", <<ann, bob>>, [Red |-> ann, Blue |-> bob]),
     SeedFile("two", <<bob, ann>>, [Blue |-> ANN]),
     SeedFile("two", <<ANN>>, [Red |-> ann, Blue |-> ANN])}

MCHoleLists == {<<2, 1>>, <<1>>, <<1, 1>>}
=============================================================================
