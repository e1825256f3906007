-------------------------- MODULE MCSerialExclusive --------------------------
(***************************************************************************)
(* Programs of two nests, each of one or two loops or tiles.               *)
(***************************************************************************)
EXTENDS SerialExclusive

Loops(types, ranges) ==
    [type : types, range : ranges, literal : BOOLEAN, tileSize : {2}, tileLiteral : BOOLEAN,
     check : BOOLEAN]

Plain  == [type |-> <<"Regular">>, range |-> 2, literal |-> FALSE, tileSize |-> 1,
           tileLiteral |-> TRUE, check |-> TRUE]
Inner1 == {l \in Loops({<<"Inner">>}, {2}) : l.check}
Tiles  == Loops({<<"Inner", "Inner">>, <<"Outer", "Inner">>}, {3, 4})

\* A tile of an @inner and a plain loop, which needs its check: its threads
\* are counted at the end of the second loop.
InnerTiles == {l \in Loops({<<"Inner", "Regular">>}, {3, 4}) : l.check}

Known(L) == {l \in L : l.literal /\ l.tileLiteral}

\* A tile without loop attributes.
PlainTile == [type |-> <<"Regular", "Regular">>, range |-> 3, literal |-> FALSE, tileSize |-> 2,
              tileLiteral |-> FALSE, check |-> TRUE]

\* Nests whose deepest loop is the deepest @inner loop; plain loops stand
\* outside of them.
Attributed1 == {<<l>> : l \in Inner1 \cup Tiles \cup InnerTiles}
Attributed2 ==
    {<<k, l>> : k \in Inner1 \cup Known(Tiles), l \in Known(Inner1 \cup InnerTiles) \cup
                    {l \in Known(Tiles) : l.type = <<"Inner", "Inner">>}}

Nests ==
    {n \in Attributed1 \cup Attributed2 : CountedNest(n)}
        \cup {<<k, l>> : k \in {Plain, PlainTile}, l \in Known(Inner1 \cup Tiles \cup InnerTiles)}

\* Nests of one kernel run on the same block.
TwoNests == {<<m, n>> : m, n \in Nests}
SameBlock == {p \in TwoNests : BlockOf(Levels(p[1])) = BlockOf(Levels(p[2]))}
=============================================================================
