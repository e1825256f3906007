-------------------------- MODULE MCMacroExpansion --------------------------
(***************************************************************************)
(* Sources of a few lines with two object-like macros, an empty one, one   *)
(* with an argument and a header guard.                                    *)
(***************************************************************************)
EXTENDS MacroExpansion

Defines ==
    {<<"#define", "A", "1", Comment>>, <<"#define", "A">>, <<"#define", "G_H", "B">>,
     <<"#define", "B", Continuation, "1">>, <<"#define", "B", "(p)", "p", "+", "p">>}

Conditions ==
    {<<"#if", "A", "B">>, <<"#ifdef", "A">>, <<"#ifndef", "A", BlockComment>>, <<"#ifdef", "G_H">>,
     <<"#elif", "A">>, <<"#elifdef", "A">>, <<"#else", Comment>>, <<"#endif", Comment>>}

Texts == {<<"A", "x", "B">>, <<"B", "(", "G_H", ")", BlockComment>>}

FewLines == Defines \cup Conditions \cup Texts \cup {<<"#undef", "A">>}

Guards == {"G_H"}

CommandLine == {NoMacros, [n \in {"A"} |-> [fun |-> FALSE, body |-> <<"1">>]]}
=============================================================================
