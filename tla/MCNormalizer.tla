---------------------------- MODULE MCNormalizer ----------------------------
(***************************************************************************)
(* Sources of up to MaxPieces pieces, among them the beginnings of headers *)
(* and of lists of parameters, whole headers and nested attributes.        *)
(***************************************************************************)
EXTENDS Normalizer

CONSTANT MaxPieces

Pieces ==
    {<<"at", "identifier">>,
     <<"at", "identifier", "l_paren">>,
     <<"at", "identifier", "l_paren", "at", "identifier", "l_paren", "param", "r_paren", "r_paren">>,
     <<"kw_for", "l_paren", "semi", "semi", "semi">>,
     <<"kw_for", "l_paren", "semi", "semi", "r_paren">>,
     <<"kw_for", "l_paren", "semi", "semi", "semi", "at", "identifier", "r_paren">>,
     <<"l_paren">>, <<"r_paren">>, <<"semi">>, <<"l_brace">>, <<"identifier">>}

Joined == {FlattenSeq(p) : p \in UNION {[1..n -> Pieces] : n \in 0..MaxPieces}}

AllSources == {<<"other">> \o s \o <<"other">> : s \in Joined}
=============================================================================
