----------------------------- MODULE HandlerMap -----------------------------
(***************************************************************************)
(* The map from keys to handlers.  It is filled by static constructors, in *)
(* an order that the linker decides, and an insertion under a key that is  *)
(* taken has no effect; a handler is then looked up for a node by the kind *)
(* of the node and, failing that, by Decl or Stmt, but by no base class in *)
(* between.                                                                *)
(***************************************************************************)
EXTENDS Handlers

CONSTANT Slices     \* the sets of handlers to register

VARIABLES
    pending,    \* the handlers whose constructors have not run yet
    registered, \* history: the others
    handlers    \* HandlerMap::_nodeHandlers

mapVars == <<pending, registered, handlers>>

\* Mutant: the kind of the handler is not copied to the key.
KeyWithoutKind(h) == <<h.t, h.backend, h.attr, Nil>>

Key(h) == <<h.t, h.backend, h.attr, h.kind>>

MapInit ==
    /\ pending \in Slices
    /\ registered = {}
    /\ handlers = [key \in {} |-> Nil]

\* HandlerMap::insert, by try_emplace.
Insert(h) ==
    /\ h \in pending
    /\ pending' = pending \ {h}
    /\ registered' = registered \cup {h}
    /\ handlers' = [key \in DOMAIN handlers \cup {Key(h)} |->
                       IF key \in DOMAIN handlers THEN handlers[key] ELSE h]

Register == \E h \in pending : Insert(h)

MapSpec == MapInit /\ [][Register]_mapVars

-----------------------------------------------------------------------------

DeclKinds ==
    {"VarDecl", "ParmVarDecl", "FieldDecl", "TypedefDecl", "CXXRecordDecl", "FunctionDecl", "CXXMethodDecl"}

CladeKind(kind) == IF kind \in DeclKinds THEN "Decl" ELSE "Stmt"

\* The keys under which a handler for the node is looked up.
KeysFor(t, backend, attr, kind) == {<<t, backend, attr, kind>>, <<t, backend, attr, CladeKind(kind)>>}

HasHandler(t, backend, attr, kind) == KeysFor(t, backend, attr, kind) \cap DOMAIN handlers # {}

\* The handler for the kind itself goes first.
Find(t, backend, attr, kind) ==
    LET exact == <<t, backend, attr, kind>>
    IN  handlers[IF exact \in DOMAIN handlers THEN exact ELSE <<t, backend, attr, CladeKind(kind)>>]

\* HandlerMap::operator() for an attribute: a common handler goes before one
\* of the backend.
HandlerOf(backend, attr, kind) ==
    IF HasHandler("COMMON", Nil, attr, kind) THEN Find("COMMON", Nil, attr, kind)
    ELSE Find("BACKEND", backend, attr, kind)

\* The condition of HandlerManager::checkAttrs.
IsHandled(backend, attr, kind) ==
    HasHandler("COMMON", Nil, attr, kind) \/ HasHandler("BACKEND", backend, attr, kind)

-----------------------------------------------------------------------------

\* In whatever order the constructors run, every handler is found under its
\* key: none has been shut out by another one.
NoHandlerIsLost ==
    \A h \in registered : Key(h) \in DOMAIN handlers /\ handlers[Key(h)] = h
=============================================================================
