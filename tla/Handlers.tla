------------------------------ MODULE Handlers ------------------------------
(***************************************************************************)
(* The handlers that are registered for attributes and nodes: one set for  *)
(* each function that runs as a static constructor (frontends excepted,    *)
(* which differ only in the name).  A handler is registered under its type,*)
(* the backend, the attribute and the kind of node it is written for; what *)
(* it does is left to the other modules.                                   *)
(***************************************************************************)

Nil == "nil"

\* A handler: params is the type of its last parameter, "no" if it has none
\* and "any" if it takes whatever there is.
Handler(t, backend, attr, kind, params) ==
    [t |-> t, backend |-> backend, attr |-> attr, kind |-> kind, params |-> params]

Parser(attr)                         == Handler("PARSER", Nil, attr, Nil, "no")
Sema(attr, kind)                     == Handler("SEMA", Nil, attr, kind, "no")
Common(attr, kind, params)           == Handler("COMMON", Nil, attr, kind, params)
Backend(backend, attr, kind, params) == Handler("BACKEND", backend, attr, kind, params)
Implicit(backend, kind)              == Handler("IMPLICIT", backend, "", kind, "no")

RecordKinds ==
    {"CXXRecordDecl", "ClassTemplateSpecializationDecl", "ClassTemplatePartialSpecializationDecl"}

LoopAttrs == {"tile", "outer", "inner", "nobarrier", "max_inner_dims", "simd_length"}
TypeAttrs == {"shared", "exclusive", "dim", "dimOrder"}
OklAttrs  == LoopAttrs \cup TypeAttrs \cup {"kernel", "restrict", "barrier", "atomic"}

Parsers == {Parser(attr) : attr \in OklAttrs}

SemaHandlers ==
    {Sema("kernel", "FunctionDecl")} \cup {Sema(attr, "ForStmt") : attr \in {"tile", "outer", "inner", ""}}

CommonDim         == {Common("dim", kind, "AttributedDim") : kind \in {"Decl", "Stmt"}}
CommonDimOrder    == {Common("dimOrder", kind, "no") : kind \in {"Decl", "Stmt"}}
CommonNoBarrier   == {Common("nobarrier", "ForStmt", "no")}
CommonInnerDims   == {Common("max_inner_dims", "ForStmt", "AttributedLoopInnerSize")}
CommonSimdLength  == {Common("simd_length", "ForStmt", "AttributedLoopSimdLength")}

\* CUDA.
CudaAtomic           == {Backend("CUDA", "atomic", "Stmt", "no")}
CudaBarrier          == {Backend("CUDA", "barrier", "Stmt", "AttributedBarrier")}
CudaExclusive        == {Backend("CUDA", "exclusive", k, "no") : k \in {"Decl", "Stmt"}}
CudaShared           == {Backend("CUDA", "shared", k, "no") : k \in {"Decl", "Stmt"}}
CudaKernel           == {Backend("CUDA", "kernel", "FunctionDecl", "no")}
CudaOuter            == {Backend("CUDA", "outer", "ForStmt", "AttributedLoop")}
CudaInner            == {Backend("CUDA", "inner", "ForStmt", "AttributedLoop")}
CudaTile             == {Backend("CUDA", "tile", "ForStmt", "TileParams")}
CudaRestrict         == {Backend("CUDA", "restrict", "Decl", "no")}
CudaRecord           == {Implicit("CUDA", k) : k \in RecordKinds}
CudaConstant         == {Implicit("CUDA", "VarDecl")}
CudaFunction         == {Implicit("CUDA", "FunctionDecl")}
CudaTranslationUnit  == {Implicit("CUDA", "TranslationUnitDecl")}

\* HIP.
HipAtomic            == {Backend("HIP", "atomic", "Stmt", "no")}
HipBarrier           == {Backend("HIP", "barrier", "Stmt", "AttributedBarrier")}
HipExclusive         == {Backend("HIP", "exclusive", k, "no") : k \in {"Decl", "Stmt"}}
HipShared            == {Backend("HIP", "shared", k, "no") : k \in {"Decl", "Stmt"}}
HipKernel            == {Backend("HIP", "kernel", "FunctionDecl", "no")}
HipOuter             == {Backend("HIP", "outer", "ForStmt", "AttributedLoop")}
HipInner             == {Backend("HIP", "inner", "ForStmt", "AttributedLoop")}
HipTile              == {Backend("HIP", "tile", "ForStmt", "TileParams")}
HipRestrict          == {Backend("HIP", "restrict", "Decl", "no")}
HipRecord            == {Implicit("HIP", k) : k \in RecordKinds}
HipConstant          == {Implicit("HIP", "VarDecl")}
HipFunction          == {Implicit("HIP", "FunctionDecl")}
HipTranslationUnit   == {Implicit("HIP", "TranslationUnitDecl")}

\* DPC++.  A barrier takes no heed of its argument; @shared is for variables
\* only.
DpcppAtomic          == {Backend("DPCPP", "atomic", "Stmt", "no")}
DpcppBarrier         == {Backend("DPCPP", "barrier", "Stmt", "no")}
DpcppExclusive       == {Backend("DPCPP", "exclusive", k, "no") : k \in {"Decl", "Stmt"}}
DpcppShared          == {Backend("DPCPP", "shared", k, "no") : k \in {"VarDecl", "Stmt"}}
DpcppKernel          == {Backend("DPCPP", "kernel", "FunctionDecl", "no")}
DpcppOuter           == {Backend("DPCPP", "outer", "ForStmt", "AttributedLoop")}
DpcppInner           == {Backend("DPCPP", "inner", "ForStmt", "AttributedLoop")}
DpcppTile            == {Backend("DPCPP", "tile", "ForStmt", "TileParams")}
DpcppRestrict        == {Backend("DPCPP", "restrict", "Decl", "no")}
DpcppFunction        == {Implicit("DPCPP", "FunctionDecl")}
DpcppTranslationUnit == {Implicit("DPCPP", "TranslationUnitDecl")}

\* OpenMP and Serial.  @exclusive is for variables and the names of variables
\* only.
OpenMPAtomic         == {Backend("OPENMP", "atomic", "Stmt", "no")}
OpenMPBarrier        == {Backend("OPENMP", "barrier", "NullStmt", "no")}
OpenMPExclusive      == {Backend("OPENMP", "exclusive", k, "no") : k \in {"VarDecl", "DeclRefExpr"}}
OpenMPShared         == {Backend("OPENMP", "shared", k, "no") : k \in {"Decl", "Stmt"}}
OpenMPKernel         == {Backend("OPENMP", "kernel", "FunctionDecl", "no")}
OpenMPOuter          == {Backend("OPENMP", "outer", "ForStmt", "AttributedLoop")}
OpenMPInner          == {Backend("OPENMP", "inner", "ForStmt", "AttributedLoop")}
OpenMPTile           == {Backend("OPENMP", "tile", "ForStmt", "TileParams")}
OpenMPRestrict       == {Backend("OPENMP", "restrict", "Decl", "no")}

SerialAtomic         == {Backend("SERIAL", "atomic", "Stmt", "any")}
SerialBarrier        == {Backend("SERIAL", "barrier", "Stmt", "any")}
SerialExclusiveVar   == {Backend("SERIAL", "exclusive", k, "no") : k \in {"VarDecl", "DeclRefExpr"}}
SerialShared         == {Backend("SERIAL", "shared", k, "no") : k \in {"Decl", "Stmt"}}
SerialKernel         == {Backend("SERIAL", "kernel", "FunctionDecl", "no")}
SerialOuter          == {Backend("SERIAL", "outer", "ForStmt", "AttributedLoop")}
SerialInner          == {Backend("SERIAL", "inner", "ForStmt", "AttributedLoop")}
SerialTile           == {Backend("SERIAL", "tile", "ForStmt", "TileParams")}
SerialRestrict       == {Backend("SERIAL", "restrict", "Decl", "no")}

\* Mutant: the uses of an @exclusive variable are forgotten.
LauncherForgetsUses ==
    {Backend("LAUNCHER", "kernel", "FunctionDecl", "no"), Backend("LAUNCHER", "restrict", "Decl", "no")}
        \cup {Backend("LAUNCHER", attr, "Stmt", "any") :
                attr \in {"outer", "inner", "tile", "atomic", "barrier", "shared"}}
        \cup {Backend("LAUNCHER", attr, "Decl", "any") : attr \in {"exclusive", "shared"}}

\* The launcher pass: all but @kernel and @restrict are left alone.
Launcher ==
    {Backend("LAUNCHER", "kernel", "FunctionDecl", "no"), Backend("LAUNCHER", "restrict", "Decl", "no")}
        \cup {Backend("LAUNCHER", attr, "Stmt", "any") :
                attr \in {"outer", "inner", "tile", "atomic", "barrier", "exclusive", "shared"}}
        \cup {Backend("LAUNCHER", attr, "Decl", "any") : attr \in {"exclusive", "shared"}}

LauncherTranslationUnit == {Implicit("LAUNCHER", "TranslationUnitDecl")}

FrontendHandlers ==
    UNION {Parsers, SemaHandlers, CommonDim, CommonDimOrder, CommonNoBarrier, CommonInnerDims,
           CommonSimdLength}

CudaHandlers ==
    UNION {CudaAtomic, CudaBarrier, CudaExclusive, CudaShared, CudaKernel, CudaOuter, CudaInner,
           CudaTile, CudaRestrict, CudaRecord, CudaConstant, CudaFunction, CudaTranslationUnit}

HipHandlers ==
    UNION {HipAtomic, HipBarrier, HipExclusive, HipShared, HipKernel, HipOuter, HipInner,
           HipTile, HipRestrict, HipRecord, HipConstant, HipFunction, HipTranslationUnit}

DpcppHandlers ==
    UNION {DpcppAtomic, DpcppBarrier, DpcppExclusive, DpcppShared, DpcppKernel, DpcppOuter,
           DpcppInner, DpcppTile, DpcppRestrict, DpcppFunction, DpcppTranslationUnit}

OpenMPHandlers ==
    UNION {OpenMPAtomic, OpenMPBarrier, OpenMPExclusive, OpenMPShared, OpenMPKernel,
           OpenMPOuter, OpenMPInner, OpenMPTile, OpenMPRestrict}

SerialHandlers ==
    UNION {SerialAtomic, SerialBarrier, SerialExclusiveVar, SerialShared, SerialKernel,
           SerialOuter, SerialInner, SerialTile, SerialRestrict}

Registrations ==
    UNION {FrontendHandlers, CudaHandlers, HipHandlers, DpcppHandlers, OpenMPHandlers,
           SerialHandlers, Launcher, LauncherTranslationUnit}
=============================================================================
