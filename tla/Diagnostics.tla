---------------------------- MODULE Diagnostics ----------------------------
(***************************************************************************)
(* What becomes of a diagnostic of clang.  clang asks its client whether a *)
(* diagnostic counts (IncludeInDiagnosticCounts) and hands it over         *)
(* (HandleDiagnostic).  DiagConsumer answers the two calls by way of one   *)
(* flag, _includeDiag, that the first clears for a diagnostic to be left   *)
(* out and the second tests and sets: what is recorded depends on the      *)
(* order of the calls, which is another one for errors than for warnings   *)
(* and notes.                                                              *)
(*                                                                         *)
(* The state of the client and the session's lists are one record, so that *)
(* a call is an operator from record to record.                            *)
(***************************************************************************)
EXTENDS Integers, Sequences

Levels == {"note", "warning", "error"}

\* The handlers registered for an error: that of @dim leaves it out, that of
\* undeclared functions also pushes a warning.
Handlers == {"none", "dim", "undeclared"}

Diags == {d \in [level : Levels, handler : Handlers] : d.level # "error" => d.handler = "none"}

\* The client is clang's own until the stage installs a DiagConsumer.
NewClient(isConsumer, log) ==
    [isConsumer |-> isConsumer, includeDiag |-> TRUE, numErrors |-> 0,
     recorded |-> <<>>, errors |-> log]

\* "Accept only Warning, Error and Fatal", and what no handler takes.
Accepted(d) == d.level # "note" /\ d.handler = "none"

Undeclared == [level |-> "warning", handler |-> "undeclared"]

IncludeInDiagnosticCounts(c, d) ==
    IF Accepted(d) THEN c
    ELSE [c EXCEPT !.includeDiag = FALSE,
                   !.recorded = IF d.handler = "undeclared" THEN Append(@, Undeclared) ELSE @]

\* TranspilerSession::pushDiagnosticMessage: what is no error is a warning.
PushDiagnosticMessage(c, d) ==
    [c EXCEPT !.recorded = Append(@, d),
              !.errors = IF d.level = "error" THEN Append(@, "diagnostic") ELSE @]

\* clang's DiagnosticConsumer::HandleDiagnostic counts.
CountDiagnostic(c, d) ==
    LET asked == IncludeInDiagnosticCounts(c, d)
    IN  IF Accepted(d) /\ d.level = "error" THEN [asked EXCEPT !.numErrors = @ + 1] ELSE asked

\* Mutant: what is left out is counted all the same.
CountedAnyway(c, d) ==
    IF c.includeDiag THEN CountDiagnostic(PushDiagnosticMessage(c, d), d)
    ELSE [c EXCEPT !.includeDiag = TRUE, !.numErrors = @ + 1]

\* Mutant: the flag stays cleared.
NeverIncludedAgain(c, d) ==
    IF c.includeDiag THEN CountDiagnostic(PushDiagnosticMessage(c, d), d) ELSE c

HandleDiagnostic(c, d) ==
    IF c.includeDiag THEN CountDiagnostic(PushDiagnosticMessage(c, d), d)
    ELSE [c EXCEPT !.includeDiag = TRUE]

\* The calls that clang makes for one diagnostic: it asks first when it is an
\* error, and in any case asks again in the end.
Report(c, d) ==
    LET before == IF d.level = "error" THEN IncludeInDiagnosticCounts(c, d) ELSE c
    IN  IncludeInDiagnosticCounts(HandleDiagnostic(before, d), d)
=============================================================================
