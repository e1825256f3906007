--------------------------- MODULE PipelineProofs ---------------------------
(***************************************************************************)
(* What becomes of errors and of edits in a pipeline, for any files, any   *)
(* edits and any number of diagnostics; and that every step of a pipeline  *)
(* is one that TranspilerPromise allows.                                   *)
(***************************************************************************)
EXTENDS Pipeline, InductionLemmas

\* The errors of a session.
Errors == {"diagnostic", "stage"}

Client ==
    [isConsumer : BOOLEAN, includeDiag : BOOLEAN, numErrors : Nat,
     recorded : Seq(Diags \cup {Undeclared}), errors : Seq(Errors)]

\* An error of the list fails the stage.
IsLostError(d) == Accepted(d) /\ d.level = "error"

\* What is counted is in the list of the session.
CountsAreRecorded(c) == c.numErrors > 0 => c.errors # <<>>

NoErrorYet(c) == c.numErrors = 0 /\ c.errors = <<>>

-----------------------------------------------------------------------------
(* One diagnostic.                                                         *)

\* Being asked, the client clears its flag for what it does not accept, and
\* changes nothing that counts.
LEMMA AskedClient ==
    ASSUME NEW c \in Client, NEW d \in Diags
    PROVE  /\ IncludeInDiagnosticCounts(c, d) \in Client
           /\ IncludeInDiagnosticCounts(c, d).isConsumer = c.isConsumer
           /\ IncludeInDiagnosticCounts(c, d).numErrors = c.numErrors
           /\ IncludeInDiagnosticCounts(c, d).errors = c.errors
           /\ IncludeInDiagnosticCounts(c, d).includeDiag <=> Accepted(d) /\ c.includeDiag
<1>1. CASE Accepted(d)
  BY <1>1 DEF IncludeInDiagnosticCounts, Client
<1>2. CASE ~Accepted(d)
  <2> DEFINE recorded == IF d.handler = "undeclared" THEN Append(c.recorded, Undeclared)
                         ELSE c.recorded
  <2>1. recorded \in Seq(Diags \cup {Undeclared})
    BY DEF Client
  <2>2. IncludeInDiagnosticCounts(c, d) = [c EXCEPT !.includeDiag = FALSE, !.recorded = recorded]
    BY <1>2 DEF IncludeInDiagnosticCounts, Client
  <2> HIDE DEF recorded
  <2>3. QED
    BY <1>2, <2>1, <2>2 DEF Client
<1>3. QED
  BY <1>1, <1>2

LEMMA PushedClient ==
    ASSUME NEW c \in Client, NEW d \in Diags
    PROVE  /\ PushDiagnosticMessage(c, d) \in Client
           /\ PushDiagnosticMessage(c, d).isConsumer = c.isConsumer
           /\ PushDiagnosticMessage(c, d).includeDiag <=> c.includeDiag
           /\ PushDiagnosticMessage(c, d).numErrors = c.numErrors
           /\ PushDiagnosticMessage(c, d).errors = <<>> <=> c.errors = <<>> /\ d.level # "error"
<1> DEFINE recorded == Append(c.recorded, d)
           errors   == IF d.level = "error" THEN Append(c.errors, "diagnostic") ELSE c.errors
<1>0. c.recorded \in Seq(Diags \cup {Undeclared}) /\ c.errors \in Seq(Errors)
  BY DEF Client
<1>1. recorded \in Seq(Diags \cup {Undeclared}) /\ errors \in Seq(Errors)
  BY <1>0 DEF Errors
<1>2. errors = <<>> <=> c.errors = <<>> /\ d.level # "error"
  BY DEF Client
<1>3. PushDiagnosticMessage(c, d) = [c EXCEPT !.recorded = recorded, !.errors = errors]
  BY DEF PushDiagnosticMessage, Client
<1> HIDE DEF recorded, errors
<1>4. QED
  BY <1>1, <1>2, <1>3 DEF Client

LEMMA CountedClient ==
    ASSUME NEW c \in Client, NEW d \in Diags
    PROVE  /\ CountDiagnostic(c, d) \in Client
           /\ CountDiagnostic(c, d).isConsumer = c.isConsumer
           /\ CountDiagnostic(c, d).errors = c.errors
           /\ CountDiagnostic(c, d).includeDiag <=> Accepted(d) /\ c.includeDiag
           /\ CountDiagnostic(c, d).numErrors = IF IsLostError(d) THEN c.numErrors + 1
                                                ELSE c.numErrors
<1> DEFINE asked == IncludeInDiagnosticCounts(c, d)
<1>1. /\ asked \in Client
      /\ asked.isConsumer = c.isConsumer
      /\ asked.numErrors = c.numErrors
      /\ asked.errors = c.errors
      /\ asked.includeDiag <=> Accepted(d) /\ c.includeDiag
  BY AskedClient
<1>2. CountDiagnostic(c, d) = IF IsLostError(d) THEN [asked EXCEPT !.numErrors = @ + 1] ELSE asked
  BY DEF CountDiagnostic, IsLostError
<1> HIDE DEF asked
<1>3. QED
  BY <1>1, <1>2 DEF Client

\* Handling: with the flag set the diagnostic is pushed and, if it counts,
\* counted; with the flag cleared it only sets the flag.
LEMMA HandledClient ==
    ASSUME NEW c \in Client, NEW d \in Diags
    PROVE  /\ HandleDiagnostic(c, d) \in Client
           /\ HandleDiagnostic(c, d).isConsumer = c.isConsumer
           /\ HandleDiagnostic(c, d).includeDiag <=> (c.includeDiag => Accepted(d))
           /\ HandleDiagnostic(c, d).numErrors =
                  IF c.includeDiag /\ IsLostError(d) THEN c.numErrors + 1 ELSE c.numErrors
           /\ HandleDiagnostic(c, d).errors = <<>> <=>
                  c.errors = <<>> /\ ~(c.includeDiag /\ d.level = "error")
<1>1. CASE c.includeDiag
  <2> DEFINE pushed == PushDiagnosticMessage(c, d)
  <2>1. /\ pushed \in Client
        /\ pushed.isConsumer = c.isConsumer
        /\ pushed.includeDiag <=> c.includeDiag
        /\ pushed.numErrors = c.numErrors
        /\ pushed.errors = <<>> <=> c.errors = <<>> /\ d.level # "error"
    BY PushedClient
  <2>2. HandleDiagnostic(c, d) = CountDiagnostic(pushed, d)
    BY <1>1 DEF HandleDiagnostic
  <2> HIDE DEF pushed
  <2>3. QED
    BY <1>1, <2>1, <2>2, CountedClient
<1>2. CASE ~c.includeDiag
  BY <1>2 DEF HandleDiagnostic, Client
<1>3. QED
  BY <1>1, <1>2

\* All calls for one diagnostic.  Afterwards the flag says whether this one
\* was accepted; an accepted error is recorded if the flag was set.
LEMMA ReportedClient ==
    ASSUME NEW c \in Client, NEW d \in Diags
    PROVE  /\ Report(c, d) \in Client
           /\ Report(c, d).isConsumer = c.isConsumer
           /\ Report(c, d).includeDiag <=> Accepted(d)
           /\ CountsAreRecorded(c) => CountsAreRecorded(Report(c, d))
           /\ NoErrorYet(Report(c, d)) => NoErrorYet(c) /\ ~(c.includeDiag /\ IsLostError(d))
<1> DEFINE before  == IF d.level = "error" THEN IncludeInDiagnosticCounts(c, d) ELSE c
           handled == HandleDiagnostic(before, d)
<1>1. /\ before \in Client
      /\ before.isConsumer = c.isConsumer
      /\ before.numErrors = c.numErrors
      /\ before.errors = c.errors
      /\ Accepted(d) => before.includeDiag <=> c.includeDiag
      /\ d.level = "error" /\ ~Accepted(d) => ~before.includeDiag
  BY AskedClient
<1> HIDE DEF before
<1>2. /\ handled \in Client
      /\ handled.isConsumer = before.isConsumer
      /\ handled.includeDiag <=> (before.includeDiag => Accepted(d))
      /\ handled.numErrors = IF before.includeDiag /\ IsLostError(d) THEN before.numErrors + 1
                             ELSE before.numErrors
      /\ handled.errors = <<>> <=> before.errors = <<>> /\ ~(before.includeDiag /\ d.level = "error")
  BY <1>1, HandledClient
<1> HIDE DEF handled
<1>3. /\ Report(c, d) = IncludeInDiagnosticCounts(handled, d)
  BY DEF Report, before, handled
<1>4. /\ Report(c, d) \in Client
      /\ Report(c, d).isConsumer = handled.isConsumer
      /\ Report(c, d).numErrors = handled.numErrors
      /\ Report(c, d).errors = handled.errors
      /\ Report(c, d).includeDiag <=> Accepted(d) /\ handled.includeDiag
  BY <1>2, <1>3, AskedClient
<1>5. c.numErrors \in Nat
  BY DEF Client
<1>6. QED
  BY <1>1, <1>2, <1>4, <1>5 DEF CountsAreRecorded, NoErrorYet, IsLostError

-----------------------------------------------------------------------------
(* The pipeline.                                                           *)

\* The error that a stage may hide: it comes after one that is not accepted.
FollowsRejected(i) == i > 1 /\ ~Accepted(reported[i - 1])

\* Of clang's own client nothing is recorded; the client of a stage counts
\* what is recorded, and its flag is cleared after a diagnostic that it does
\* not accept.  A stage begins with neither errors nor reports, and a failed
\* stage stays where it failed.
ErrorInv ==
    /\ diag \in Client
    /\ reported \in Seq(Diags)
    /\ phase \in {"ready", "lexing", "parsing", "ended", "stopped", "written"}
    /\ phase \in {"ready", "lexing", "parsing", "ended"} => result = "none"
    /\ phase = "ready" => ~diag.isConsumer /\ NoErrorYet(diag)
    /\ phase \in {"ready", "lexing"} => reported = <<>>
    /\ phase = "lexing" => ~diag.isConsumer /\ diag.errors = <<>>
    /\ phase = "lexing" /\ ~IsTokenStage => NoErrorYet(diag)
    /\ phase = "parsing" => diag.isConsumer
    /\ phase = "ended" => diag.isConsumer \/ Stage \in TokenStages
    /\ diag.isConsumer => CountsAreRecorded(diag)
    /\ diag.isConsumer => (diag.includeDiag <=> reported = <<>> \/ Accepted(Last(reported)))
    /\ ~diag.isConsumer => reported = <<>>
    /\ NoErrorYet(diag) =>
          \A i \in DOMAIN reported : IsLostError(reported[i]) => FollowsRejected(i)
    /\ FailureExplained

LEMMA NewClientFacts ==
    ASSUME NEW b \in BOOLEAN, NEW list \in Seq(Errors)
    PROVE  /\ NewClient(b, list) \in Client
           /\ NewClient(b, list).isConsumer <=> b
           /\ NewClient(b, list).includeDiag
           /\ NewClient(b, list).numErrors = 0
           /\ NewClient(b, list).errors = list
BY DEF NewClient, Client

LEMMA InitErrorInv == PipelineInit => ErrorInv
<1> SUFFICES ASSUME PipelineInit PROVE ErrorInv
  OBVIOUS
<1>1. <<>> \in Seq(Errors) /\ <<>> \in Seq(Diags)
  OBVIOUS
<1>2. /\ diag \in Client /\ ~diag.isConsumer
      /\ NoErrorYet(diag)
  BY <1>1, NewClientFacts DEF PipelineInit, NoErrorYet
<1>3. /\ reported = <<>> /\ reported \in Seq(Diags)
      /\ phase = "ready" /\ result = "none"
  BY <1>1 DEF PipelineInit
<1>4. QED
  BY <1>2, <1>3 DEF ErrorInv, FailureExplained

\* A diagnostic in the middle of parsing.
LEMMA ReportKeepsErrorInv ==
    ASSUME ErrorInv, ReportDiagnostic
    PROVE  ErrorInv'
<1>1. PICK d \in Diags : diag' = Report(diag, d) /\ reported' = Append(reported, d)
  BY DEF ReportDiagnostic
<1>2. /\ phase = "parsing" /\ phase' = "parsing"
      /\ UNCHANGED <<command, stageNo, result, returned>>
  BY DEF ReportDiagnostic, inputVars
<1>3. diag \in Client /\ reported \in Seq(Diags) /\ diag.isConsumer /\ result = "none"
  BY <1>2 DEF ErrorInv
<1>4. /\ diag' \in Client
      /\ diag'.isConsumer
      /\ diag'.includeDiag <=> Accepted(d)
      /\ CountsAreRecorded(diag')
      /\ NoErrorYet(diag') => NoErrorYet(diag) /\ ~(diag.includeDiag /\ IsLostError(d))
  BY <1>1, <1>3, ReportedClient DEF ErrorInv
<1>5. /\ reported' \in Seq(Diags)
      /\ reported' # <<>>
      /\ Last(reported') = d
      /\ DOMAIN reported' = DOMAIN reported \cup {Len(reported) + 1}
      /\ reported'[Len(reported) + 1] = d
      /\ \A i \in DOMAIN reported : reported'[i] = reported[i]
  BY <1>1, <1>3 DEF Last
<1>6. ASSUME NoErrorYet(diag'), NEW i \in DOMAIN reported', IsLostError(reported'[i])
      PROVE  FollowsRejected(i)'
  <2>1. CASE i \in DOMAIN reported
    <3>1. IsLostError(reported[i])
      BY <1>5, <1>6, <2>1
    <3>2. FollowsRejected(i)
      BY <1>4, <1>6, <2>1, <3>1 DEF ErrorInv
    <3>3. i - 1 \in DOMAIN reported
      BY <1>3, <2>1, <3>2 DEF FollowsRejected
    <3>4. QED
      BY <1>5, <3>2, <3>3 DEF FollowsRejected
  <2>2. CASE i = Len(reported) + 1
    <3>1. ~diag.includeDiag
      BY <1>4, <1>5, <1>6, <2>2
    <3>2. reported # <<>> /\ ~Accepted(Last(reported))
      BY <1>3, <3>1 DEF ErrorInv
    <3>3. Len(reported) \in DOMAIN reported /\ Last(reported) = reported[Len(reported)]
      BY <1>3, <3>2 DEF Last
    <3>4. i > 1 /\ reported'[i - 1] = reported[Len(reported)]
      BY <1>3, <1>5, <2>2, <3>3
    <3>5. QED
      BY <3>2, <3>3, <3>4 DEF FollowsRejected
  <2>3. QED
    BY <1>5, <2>1, <2>2
<1>7. QED
  BY <1>2, <1>3, <1>4, <1>5, <1>6 DEF ErrorInv, FailureExplained

\* Steps that report nothing and leave the client alone.
LEMMA SameClient ==
    ASSUME ErrorInv, UNCHANGED <<command, stageNo, diag, reported>>,
           \/ RejectEmptySource \/ StartStage \/ EditTokens \/ NormalizeToStd \/ Transpile
           \/ FailStage \/ FinishPipeline \/ WriteFiles
    PROVE  ErrorInv'
<1>1. \/ phase = "ready" /\ phase' = "lexing" /\ result' = result
      \/ phase = "ready" /\ phase' = "stopped" /\ result' = "ok"
      \/ phase = "ready" /\ phase' = "stopped" /\ result' = "failed" /\ returned' = <<"empty source">>
      \/ phase = "lexing" /\ phase' = "ended" /\ Stage \in TokenStages /\ result' = result
      \/ phase = "parsing" /\ phase' = "ended" /\ result' = result
      \/ phase = "ended" /\ phase' = "stopped" /\ result' = "failed"
            /\ returned' = diag.errors /\ StageFailed
      \/ phase = "stopped" /\ phase' = "written" /\ UNCHANGED <<result, returned>>
  BY DEF RejectEmptySource, StartStage, EditTokens, NormalizeToStd, Transpile, EndStage, FailStage,
         FinishPipeline, WriteFiles, IsTokenStage
<1>2. Stages' = Stages /\ Stage' = Stage /\ (IsTokenStage' <=> IsTokenStage)
  BY DEF Stages, Stage, IsTokenStage
<1>3. FailureExplained'
  <2>1. CASE phase = "ended" /\ returned' = diag.errors /\ StageFailed
    BY <1>2, <2>1 DEF ErrorInv, FailureExplained, StageFailed, CountsAreRecorded
  <2>2. CASE phase = "stopped" /\ UNCHANGED <<result, returned>>
    BY <1>2, <2>2 DEF ErrorInv, FailureExplained
  <2>3. CASE returned' = <<"empty source">>
    BY <2>3 DEF FailureExplained
  <2>4. CASE result' # "failed"
    BY <2>4 DEF FailureExplained
  <2>5. QED
    BY <1>1, <2>1, <2>2, <2>3, <2>4 DEF ErrorInv
<1>4. (\A i \in DOMAIN reported : IsLostError(reported[i]) => FollowsRejected(i)) =>
          (\A i \in DOMAIN reported : IsLostError(reported[i]) => FollowsRejected(i))'
  BY DEF FollowsRejected, IsLostError
<1>5. QED
  BY <1>1, <1>2, <1>3, <1>4 DEF ErrorInv, NoErrorYet, CountsAreRecorded

\* Errors that are not diagnostics of a stage.
LEMMA FailingKeepsErrorInv ==
    ASSUME ErrorInv, ReportToClang \/ RejectTokens \/ TranspilationFails
    PROVE  ErrorInv'
<1>1. /\ UNCHANGED <<command, stageNo, reported, result, returned>>
      /\ phase \in {"lexing", "parsing"}
  BY DEF ReportToClang, RejectTokens, TranspilationFails, inputVars
<1>2. diag \in Client /\ diag.numErrors \in Nat /\ diag.errors \in Seq(Errors) /\ result = "none"
  BY <1>1 DEF ErrorInv, Client
<1>3. Stages' = Stages /\ Stage' = Stage /\ (IsTokenStage' <=> IsTokenStage)
  BY <1>1 DEF Stages, Stage, IsTokenStage
<1>4. CASE ReportToClang
  <2>1. diag' = [diag EXCEPT !.numErrors = diag.numErrors + 1]
    BY <1>4 DEF ReportToClang
  <2>2. diag' \in Client /\ diag'.numErrors > 0 /\ diag'.isConsumer = diag.isConsumer
          /\ diag'.errors = diag.errors
    BY <1>2, <2>1 DEF Client
  <2>3. phase = "lexing" /\ phase' = "lexing" /\ IsTokenStage
    BY <1>4 DEF ReportToClang
  <2>4. QED
    BY <1>1, <1>2, <1>3, <2>2, <2>3 DEF ErrorInv, NoErrorYet, FailureExplained
<1>5. CASE RejectTokens \/ TranspilationFails
  <2>1. diag' = [diag EXCEPT !.errors = Append(diag.errors, "stage")]
    BY <1>5 DEF RejectTokens, TranspilationFails
  <2>2. Append(diag.errors, "stage") \in Seq(Errors) /\ Append(diag.errors, "stage") # <<>>
    <3>1. "stage" \in Errors
      BY DEF Errors
    <3>2. Append(diag.errors, "stage") \in Seq(Errors)
      BY <1>2, <3>1
    <3>3. Len(Append(diag.errors, "stage")) = Len(diag.errors) + 1 /\ Len(diag.errors) \in Nat
      BY <1>2
    <3>4. Append(diag.errors, "stage") # <<>>
      <4>1. Len(<<>>) = 0
        OBVIOUS
      <4>2. QED
        BY <3>3, <4>1
    <3>5. QED
      BY <3>2, <3>4
  <2>3. diag' \in Client /\ diag'.errors # <<>> /\ diag'.isConsumer = diag.isConsumer
          /\ diag'.includeDiag = diag.includeDiag
    BY <1>2, <2>1, <2>2 DEF Client
  <2>4. phase' = "ended" /\ (phase = "parsing" \/ Stage \in TokenStages)
    BY <1>5 DEF RejectTokens, TranspilationFails, TokenStages
  <2>5. QED
    BY <1>1, <1>2, <1>3, <2>3, <2>4 DEF ErrorInv, NoErrorYet, CountsAreRecorded, FailureExplained
<1>6. QED
  BY <1>4, <1>5

\* A client is replaced: the stage installs its own, or the next stage begins.
LEMMA NewClientKeepsErrorInv ==
    ASSUME ErrorInv, InstallConsumer \/ FinishStage
    PROVE  ErrorInv'
<1>1. <<>> \in Seq(Errors) /\ <<>> \in Seq(Diags)
  OBVIOUS
<1>a. ASSUME reported' = <<>>, diag' \in Client, phase' \in {"ready", "parsing"}, result' = "none",
             NoErrorYet(diag'), phase' = "ready" => ~diag'.isConsumer,
             phase' = "parsing" => diag'.isConsumer, diag'.isConsumer => diag'.includeDiag
      PROVE  ErrorInv'
  <2>1. reported' \in Seq(Diags) /\ DOMAIN reported' = {}
    BY <1>1, <1>a
  <2>2. CountsAreRecorded(diag')
    BY <1>a DEF CountsAreRecorded, NoErrorYet
  <2>3. FailureExplained'
    BY <1>a DEF FailureExplained
  <2>4. QED
    BY <1>a, <2>1, <2>2, <2>3 DEF ErrorInv
<1>2. CASE InstallConsumer
  <2>1. /\ diag' = NewClient(TRUE, diag.errors)
        /\ diag.errors = <<>>
        /\ reported' = <<>>
        /\ phase' = "parsing" /\ result' = "none"
    BY <1>2 DEF InstallConsumer, ErrorInv
  <2>2. /\ diag' \in Client /\ diag'.isConsumer /\ diag'.includeDiag
        /\ NoErrorYet(diag')
    BY <1>1, <2>1, NewClientFacts DEF NoErrorYet
  <2>3. QED
    BY <1>a, <2>1, <2>2
<1>3. CASE FinishStage
  <2>1. /\ diag' = NewClient(FALSE, <<>>)
        /\ reported' = <<>>
        /\ phase' = "ready" /\ result' = "none"
    BY <1>3 DEF FinishStage, ErrorInv
  <2>2. diag' \in Client /\ ~diag'.isConsumer /\ NoErrorYet(diag')
    BY <1>1, <2>1, NewClientFacts DEF NoErrorYet
  <2>3. QED
    BY <1>a, <2>1, <2>2
<1>4. QED
  BY <1>2, <1>3

\* Every step keeps the invariant.
LEMMA NextErrorInv == ErrorInv /\ [PipelineNext]_pipelineVars => ErrorInv'
<1> SUFFICES ASSUME ErrorInv, [PipelineNext]_pipelineVars PROVE ErrorInv'
  OBVIOUS
<1>1. CASE \/ RejectEmptySource \/ StartStage \/ EditTokens \/ NormalizeToStd \/ Transpile
           \/ FailStage \/ FinishPipeline \/ WriteFiles
  <2>1. UNCHANGED <<command, stageNo, diag, reported>>
    BY <1>1 DEF RejectEmptySource, StartStage, EditTokens, NormalizeToStd, Transpile, FailStage,
                FinishPipeline, WriteFiles, inputVars
  <2>2. QED
    BY <1>1, <2>1, SameClient
<1>2. CASE ReportToClang \/ RejectTokens \/ TranspilationFails
  BY <1>2, FailingKeepsErrorInv
<1>3. CASE InstallConsumer \/ FinishStage
  BY <1>3, NewClientKeepsErrorInv
<1>4. CASE ReportDiagnostic
  BY <1>4, ReportKeepsErrorInv
<1>5. CASE UNCHANGED pipelineVars
  BY <1>5 DEF pipelineVars, ErrorInv, FailureExplained, Stages, Stage, IsTokenStage, NoErrorYet,
              CountsAreRecorded, FollowsRejected, IsLostError
<1>6. QED
  BY <1>1, <1>2, <1>3, <1>4, <1>5 DEF PipelineNext

LEMMA ErrorInvariance == PipelineSpec => []ErrorInv
BY InitErrorInv, NextErrorInv, PTL DEF PipelineSpec

\* A run that fails hands over an error that says why, unless it was the
\* preprocessor that complained to clang's own client (runStageAction moves
\* the list of the session, whatever is in it).
THEOREM FailuresAreExplained == PipelineSpec => []FailureExplained
<1>1. ErrorInv => FailureExplained
  BY DEF ErrorInv
<1>2. QED
  BY <1>1, ErrorInvariance, PTL

\* Whatever number of diagnostics of whatever levels clang reports in a stage,
\* only an error right after a diagnostic that is not accepted can be lost
\* (DiagConsumer's flag).
THEOREM ErrorsAreNotLost == PipelineSpec => []ErrorsAreRecorded
<1>1. ASSUME ErrorInv, phase = "ended", ~StageFailed
      PROVE  NoErrorYet(diag)
  <2>1. diag.numErrors \in Nat
    BY <1>1 DEF ErrorInv, Client
  <2>2. QED
    BY <1>1, <2>1 DEF StageFailed, NoErrorYet
<1>2. ErrorInv => ErrorsAreRecorded
  BY <1>1 DEF ErrorInv, ErrorsAreRecorded, IsLostError, FollowsRejected
<1>3. QED
  BY <1>2, ErrorInvariance, PTL

-----------------------------------------------------------------------------
(* The refinement.                                                         *)

Editors == {"directives", "macros", "to gnu", "to std", "kernel", "launcher"}

\* A text that has been edited, or the original one, but not an empty one.
Texts == Seq(Editors)

HasText(files) == "source" \in DOMAIN files /\ files.source \in Texts

\* A stage that has started works on a text that is not empty, and neither is
\* what it puts out, if it does not fail.
TextInv ==
    /\ command \in DOMAIN Pipelines
    /\ stageNo \in 1..Len(Stages) + 1
    /\ "source" \in DOMAIN staged /\ "normalized" \in DOMAIN output
    /\ phase = "ready" /\ stageNo > 1 => staged.source \in Texts
    /\ phase = "ready" /\ stageNo = 1 => staged.source = Empty \/ staged.source \in Texts
    /\ phase \in {"lexing", "parsing", "ended"} => staged.source \in Texts /\ stageNo <= Len(Stages)
    /\ phase = "ended" /\ diag.errors = <<>> => HasText(output.normalized)

StageNames == {"directives", "macros", "to gnu", "to std", "transpilation"}

LEMMA StagesAreSome ==
    ASSUME command \in DOMAIN Pipelines
    PROVE  Len(Stages) \in Nat \ {0}
<1>1. command \in {"normalize", "normalizeAndTranspile", "transpile"}
  BY DEF Pipelines
<1>2. CASE command = "normalize"
  BY <1>2 DEF Pipelines, Stages, Normalizing
<1>3. CASE command = "normalizeAndTranspile"
  <2>1. Normalizing \in Seq(StageNames) /\ "transpilation" \in StageNames
    BY DEF Normalizing, StageNames
  <2>2. Stages = Append(Normalizing, "transpilation")
    BY <1>3 DEF Pipelines, Stages
  <2>3. Len(Append(Normalizing, "transpilation")) = Len(Normalizing) + 1 /\ Len(Normalizing) \in Nat
    BY <2>1
  <2>4. QED
    BY <2>2, <2>3
<1>4. CASE command = "transpile"
  BY <1>4 DEF Pipelines, Stages
<1>5. QED
  BY <1>1, <1>2, <1>3, <1>4

LEMMA TextsAreNotEmpty == Empty \notin Texts
<1>1. SUFFICES ASSUME Empty \in Texts PROVE FALSE
  OBVIOUS
<1>2. Empty[1] \in Editors
  BY <1>1 DEF Empty, Texts
<1>3. QED
  BY <1>2 DEF Empty, Editors

\* An edited text is not the empty one.
LEMMA ResultIsText ==
    ASSUME NEW edits, NEW by \in Editors, NEW headers,
           staged.source \in Texts, diag.errors = <<>>
    PROVE  HasText(EndSourceFile(edits, by, headers))
<1>1. MainResult(edits, by) \in Texts
  BY DEF MainResult, Texts
<1>2. EndSourceFile(edits, by, headers) =
          [source |-> MainResult(edits, by), headers |-> MergedHeaders(edits, by, headers)]
  BY DEF EndSourceFile
<1>3. QED
  BY <1>1, <1>2 DEF HasText

LEMMA AppendedIsSome ==
    ASSUME NEW S, NEW s \in Seq(S), NEW x \in S
    PROVE  Append(s, x) # <<>>
<1>1. Len(Append(s, x)) = Len(s) + 1 /\ Len(s) \in Nat /\ Len(<<>>) = 0
  OBVIOUS
<1>2. QED
  BY <1>1

LEMMA InitTextInv == PipelineInit => TextInv
<1> SUFFICES ASSUME PipelineInit PROVE TextInv
  OBVIOUS
<1>1. Len(Stages) \in Nat \ {0} /\ stageNo = 1 /\ phase = "ready" /\ command \in DOMAIN Pipelines
  BY StagesAreSome DEF PipelineInit
<1>2. PICK source \in {Original, Empty}, given \in SUBSET Headers :
          staged = [source |-> source, headers |-> [h \in given |-> Original]]
  BY DEF PipelineInit
<1>3. Original \in Texts
  BY DEF Original, Texts
<1>4. "source" \in DOMAIN staged /\ (staged.source = Empty \/ staged.source \in Texts)
  BY <1>2, <1>3
<1>5. "normalized" \in DOMAIN output
  BY DEF PipelineInit
<1>6. QED
  BY <1>1, <1>4, <1>5 DEF TextInv

\* The steps that put out a text.
LEMMA OutputIsText ==
    ASSUME TextInv, EditTokens \/ NormalizeToStd \/ Transpile
    PROVE  "normalized" \in DOMAIN output' /\ (diag.errors = <<>> => HasText(output'.normalized))
<1>1. staged.source \in Texts /\ "normalized" \in DOMAIN output
  BY DEF TextInv, EditTokens, NormalizeToStd, Transpile
<1>2. CASE EditTokens \/ NormalizeToStd
  <2>1. PICK edits \in StageEdits :
            output' = [output EXCEPT !.normalized = EndSourceFile(edits, Stage, staged.headers)]
    BY <1>2 DEF EditTokens, NormalizeToStd
  <2>2. Stage \in Editors
    BY <1>2 DEF EditTokens, NormalizeToStd, IsTokenStage, TokenStages, Editors
  <2>3. output'.normalized = EndSourceFile(edits, Stage, staged.headers)
          /\ "normalized" \in DOMAIN output'
    BY <1>1, <2>1
  <2>4. QED
    BY <1>1, <2>2, <2>3, ResultIsText
<1>3. CASE Transpile
  <2>1. "kernel" \in Editors /\ "launcher" \in Editors
    BY DEF Editors
  <2>2. CASE device
    <3>1. PICK edits \in StageEdits, launcherEdits \in StageEdits, launcherFails \in BOOLEAN :
              output' = [kernel     |-> Fused(edits, "kernel", staged.headers),
                         launcher   |-> IF launcherFails THEN output.launcher
                                        ELSE Fused(launcherEdits, "launcher", HeadersLeft(edits)),
                         normalized |-> EndSourceFile(launcherEdits, "launcher", HeadersLeft(edits))]
      BY <1>3, <2>2 DEF Transpile
    <3>2. output'.normalized = EndSourceFile(launcherEdits, "launcher", HeadersLeft(edits))
            /\ "normalized" \in DOMAIN output'
      BY <3>1
    <3>3. QED
      BY <1>1, <2>1, <3>2, ResultIsText
  <2>3. CASE ~device
    <3>1. PICK edits \in StageEdits :
              output' = [output EXCEPT !.kernel = Fused(edits, "kernel", staged.headers),
                                       !.normalized = EndSourceFile(edits, "kernel", HeadersLeft(edits))]
      BY <1>3, <2>3 DEF Transpile
    <3>2. output'.normalized = EndSourceFile(edits, "kernel", HeadersLeft(edits))
            /\ "normalized" \in DOMAIN output'
      BY <1>1, <3>1
    <3>3. QED
      BY <1>1, <2>1, <3>2, ResultIsText
  <2>4. QED
    BY <2>2, <2>3
<1>4. QED
  BY <1>2, <1>3

LEMMA NextTextInv == TextInv /\ ErrorInv /\ [PipelineNext]_pipelineVars => TextInv'
<1> SUFFICES ASSUME TextInv, ErrorInv, [PipelineNext]_pipelineVars PROVE TextInv'
  OBVIOUS
<1>0. Len(Stages) \in Nat \ {0} /\ stageNo \in Nat \ {0}
  BY StagesAreSome DEF TextInv
<1>1. CASE EditTokens \/ NormalizeToStd \/ Transpile
  <2>1. /\ phase \in {"lexing", "parsing"} /\ phase' = "ended"
        /\ UNCHANGED <<command, stageNo, staged, diag>>
    BY <1>1 DEF EditTokens, NormalizeToStd, Transpile, EndStage, inputVars
  <2>2. QED
    BY <1>1, <2>1, OutputIsText DEF TextInv, Stages
<1>2. CASE ReportToClang \/ RejectTokens \/ InstallConsumer \/ ReportDiagnostic \/ TranspilationFails
  <2>1. /\ phase \in {"lexing", "parsing"}
        /\ phase' \in {"lexing", "parsing"} \/ (phase' = "ended" /\ diag'.errors # <<>>)
        /\ UNCHANGED <<command, stageNo, staged, output>>
    <3>1. diag \in Client /\ diag.errors \in Seq(Errors)
      BY DEF ErrorInv, Client
    <3>2. CASE RejectTokens \/ TranspilationFails
      <4>1. diag'.errors = Append(diag.errors, "stage")
        BY <3>1, <3>2 DEF RejectTokens, TranspilationFails, Client
      <4>2. diag'.errors # <<>>
        BY <3>1, <4>1, AppendedIsSome DEF Errors
      <4>3. QED
        BY <3>2, <4>2 DEF RejectTokens, TranspilationFails, inputVars
    <3>3. CASE ReportToClang \/ InstallConsumer \/ ReportDiagnostic
      BY <3>3 DEF ReportToClang, InstallConsumer, ReportDiagnostic, inputVars
    <3>4. QED
      BY <1>2, <3>2, <3>3
  <2>2. QED
    BY <2>1 DEF TextInv, Stages
<1>3. CASE StartStage
  <2>1. staged'.source = staged.source /\ "source" \in DOMAIN staged'
    BY <1>3 DEF StartStage, TextInv
  <2>2. /\ phase = "ready" /\ phase' = "lexing" /\ staged.source # Empty
        /\ stageNo <= Len(Stages)
        /\ UNCHANGED <<command, stageNo, output>>
    BY <1>3 DEF StartStage, inputVars
  <2>3. QED
    BY <1>0, <2>1, <2>2 DEF TextInv, Stages
<1>4. CASE FinishStage
  <2>1. /\ phase = "ended" /\ phase' = "ready" /\ diag.errors = <<>>
        /\ staged' = output.normalized /\ stageNo' = stageNo + 1
        /\ UNCHANGED <<command, output>>
    BY <1>4 DEF FinishStage, StageFailed, inputVars
  <2>2. QED
    BY <1>0, <2>1 DEF TextInv, HasText, Stages
<1>5. CASE RejectEmptySource \/ FailStage \/ FinishPipeline \/ WriteFiles
  <2>1. phase' \in {"stopped", "written"} /\ UNCHANGED <<command, stageNo, staged, output>>
    BY <1>5 DEF RejectEmptySource, FailStage, FinishPipeline, WriteFiles, inputVars
  <2>2. QED
    BY <2>1 DEF TextInv, Stages
<1>6. CASE UNCHANGED pipelineVars
  BY <1>6 DEF pipelineVars, TextInv, Stages
<1>7. QED
  BY <1>1, <1>2, <1>3, <1>4, <1>5, <1>6 DEF PipelineNext

LEMMA TextInvariance == PipelineSpec => []TextInv
BY InitTextInv, NextTextInv, ErrorInvariance, PTL DEF PipelineSpec

\* The state of the promise is no more than what TranspilerPromise has.
HasTrouble ==
    diag.numErrors > 0 \/ diag.errors # <<>> \/ staged.source = Empty \/ result = "failed"

\* Every step of the pipeline is a step of the promise, or none of its
\* business: stages are applied in order, at the first trouble the run fails,
\* and it succeeds only after the last stage and without trouble.
LEMMA StepKeepsPromise ==
    ASSUME ErrorInv, TextInv, TextInv', [PipelineNext]_pipelineVars
    PROVE  [Promise!PromiseNext]_(Promise!promiseVars)
<1>0. /\ Len(Stages) \in Nat \ {0} /\ stageNo \in 1..Len(Stages) + 1
      /\ diag \in Client /\ diag.numErrors \in Nat
      /\ staged.source \in Texts => staged.source # Empty
  BY StagesAreSome, TextsAreNotEmpty DEF TextInv, ErrorInv, Client
<1>1. CASE StartStage
  <2>1. staged'.source = staged.source
    BY <1>1 DEF StartStage, TextInv
  <2>2. QED
    BY <1>1, <2>1 DEF StartStage, inputVars, Promise!promiseVars, Stages
<1>2. CASE RejectEmptySource
  <2>1. result = "none" /\ result' = "failed" /\ UNCHANGED <<command, stageNo>> /\ HasTrouble /\ HasTrouble'
    BY <1>2 DEF RejectEmptySource, HasTrouble, inputVars
  <2>2. Promise!Fail
    BY <2>1 DEF Promise!Fail, HasTrouble, Stages
  <2>3. QED
    BY <2>2 DEF Promise!PromiseNext
<1>3. CASE EditTokens \/ NormalizeToStd \/ Transpile \/ WriteFiles
  BY <1>3 DEF EditTokens, NormalizeToStd, Transpile, WriteFiles, inputVars, Promise!promiseVars, Stages
<1>4. CASE ReportToClang \/ RejectTokens \/ InstallConsumer \/ ReportDiagnostic \/ TranspilationFails
  <2>1. result = "none" /\ UNCHANGED <<command, stageNo, staged, result>>
    BY <1>4 DEF ReportToClang, RejectTokens, InstallConsumer, ReportDiagnostic, TranspilationFails,
                inputVars, ErrorInv
  <2>2. NoErrorYet(diag') => NoErrorYet(diag)
    <3>1. CASE ReportToClang
      BY <3>1, <1>0 DEF ReportToClang, NoErrorYet, Client
    <3>2. CASE RejectTokens \/ TranspilationFails
      <4>1. diag'.errors = Append(diag.errors, "stage") /\ diag.errors \in Seq(Errors)
        BY <1>0, <3>2 DEF RejectTokens, TranspilationFails, Client
      <4>2. Append(diag.errors, "stage") # <<>>
        BY <4>1, AppendedIsSome DEF Errors
      <4>3. QED
        BY <4>1, <4>2 DEF NoErrorYet
    <3>3. CASE InstallConsumer
      BY <3>3 DEF InstallConsumer, ErrorInv, IsTokenStage, IsAstStage, TokenStages, AstStages
    <3>4. CASE ReportDiagnostic
      BY <3>4, <1>0, ReportedClient DEF ReportDiagnostic
    <3>5. QED
      BY <1>4, <3>1, <3>2, <3>3, <3>4
  <2>3. HasTrouble => HasTrouble'
    <3>1. diag' \in Client /\ diag'.numErrors \in Nat
      BY <1>4, FailingKeepsErrorInv, NewClientKeepsErrorInv, ReportKeepsErrorInv DEF ErrorInv, Client
    <3>2. QED
      BY <1>0, <2>1, <2>2, <3>1 DEF HasTrouble, NoErrorYet
  <2>4. CASE HasTrouble' = HasTrouble
    BY <2>1, <2>4 DEF Promise!promiseVars, HasTrouble, Stages
  <2>5. CASE ~HasTrouble /\ HasTrouble'
    BY <2>1, <2>5 DEF Promise!PromiseNext, Promise!SeeTrouble, HasTrouble, Stages
  <2>6. QED
    BY <2>3, <2>4, <2>5 DEF HasTrouble
<1>5. CASE FailStage
  <2>1. result = "none" /\ result' = "failed" /\ UNCHANGED <<command, stageNo>> /\ HasTrouble /\ HasTrouble'
    BY <1>5 DEF FailStage, StageFailed, HasTrouble, ErrorInv, inputVars
  <2>2. Promise!Fail
    BY <2>1 DEF Promise!Fail, HasTrouble, Stages
  <2>3. QED
    BY <2>2 DEF Promise!PromiseNext
<1>6. CASE FinishStage
  <2>1. /\ result = "none" /\ result' = "none" /\ UNCHANGED command /\ stageNo' = stageNo + 1
        /\ phase = "ended" /\ ~StageFailed /\ staged' = output.normalized
        /\ diag' = NewClient(FALSE, <<>>)
    BY <1>6 DEF FinishStage, ErrorInv, inputVars
  <2>2. ~HasTrouble
    BY <1>0, <2>1 DEF HasTrouble, StageFailed, TextInv
  <2>3. ~HasTrouble'
    <3>1. staged'.source \in Texts /\ Empty \notin Texts
      BY <2>1, TextsAreNotEmpty DEF StageFailed, TextInv, HasText
    <3>2. diag'.numErrors = 0 /\ diag'.errors = <<>>
      BY <2>1 DEF NewClient
    <3>3. ~(diag'.numErrors > 0) /\ ~(diag'.errors # <<>>)
      BY <3>2
    <3>4. ~(staged'.source = Empty)
      BY <3>1
    <3>5. ~(result' = "failed")
      BY <2>1
    <3>6. QED
      BY <3>3, <3>4, <3>5 DEF HasTrouble
  <2>4. stageNo <= Len(Stages) /\ Len(Stages)' = Len(Stages)
    BY <2>1 DEF TextInv, Stages
  <2>5. stageNo - 1 < Len(Stages) /\ (stageNo - 1)' = (stageNo - 1) + 1
    BY <1>0, <2>1, <2>4
  <2>6. Promise!ApplyStage
    BY <2>1, <2>2, <2>3, <2>4, <2>5 DEF Promise!ApplyStage, HasTrouble
  <2>7. QED
    BY <2>6 DEF Promise!PromiseNext
<1>7. CASE FinishPipeline
  <2>1. /\ result = "none" /\ result' = "ok" /\ phase = "ready" /\ stageNo > Len(Stages)
        /\ UNCHANGED <<command, stageNo, diag, staged>>
    BY <1>7 DEF FinishPipeline, NoStageLeft, inputVars
  <2>2. ~HasTrouble
    BY <1>0, <2>1 DEF HasTrouble, ErrorInv, NoErrorYet, TextInv
  <2>3. ~HasTrouble'
    BY <2>1, <2>2 DEF HasTrouble
  <2>4. Promise!Succeed
    BY <1>0, <2>1, <2>2, <2>3 DEF Promise!Succeed, HasTrouble, Stages
  <2>5. QED
    BY <2>4 DEF Promise!PromiseNext
<1>8. CASE UNCHANGED pipelineVars
  BY <1>8 DEF pipelineVars, Promise!promiseVars, Stages
<1>9. QED
  BY <1>1, <1>2, <1>3, <1>4, <1>5, <1>6, <1>7, <1>8 DEF PipelineNext

LEMMA InitKeepsPromise == PipelineInit => Promise!PromiseInit
<1> SUFFICES ASSUME PipelineInit PROVE Promise!PromiseInit
  OBVIOUS
<1>1. Len(Stages) \in Nat \ {0} /\ stageNo = 1 /\ result = "none"
  BY StagesAreSome DEF PipelineInit
<1>2. HasTrouble \in BOOLEAN
  BY DEF HasTrouble
<1>3. QED
  BY <1>1, <1>2 DEF Promise!PromiseInit, HasTrouble

\* A pipeline of any command, over any files and with any diagnostics, does
\* nothing that TranspilerPromise does not allow (the safety part of
\* KeepsPromise; that it ends is left to TLC).
THEOREM StepsKeepPromise ==
    PipelineSpec => Promise!PromiseInit /\ [][Promise!PromiseNext]_(Promise!promiseVars)
BY TextInvariance, ErrorInvariance, InitKeepsPromise, StepKeepsPromise, PTL DEF PipelineSpec
-----------------------------------------------------------------------------
(* What the stages have made of a file.                                    *)

\* The texts of file f, after each of the stages of a log.
TextsOf(stages, l, f) ==
    LET by[n \in 0..Len(l)] ==
            IF n = 0 THEN Original
            ELSE IF l[n][f] = "edited" THEN Append(by[n - 1], stages[n]) ELSE by[n - 1]
    IN  by

\* The texts that come of the stages alone, and not of a last pass.
StageTexts == Seq(StageNames)

LEMMA StagesHaveNames ==
    ASSUME command \in DOMAIN Pipelines
    PROVE  /\ Stages \in Seq(StageNames)
           /\ \A i \in DOMAIN Stages : Stages[i] = "transpilation" => i = Len(Stages)
<1>1. command \in {"normalize", "normalizeAndTranspile", "transpile"}
  BY DEF Pipelines
<1>0. Normalizing \in Seq(StageNames) /\ Len(Normalizing) = 4
        /\ \A i \in 1..4 : Normalizing[i] # "transpilation"
  BY DEF Normalizing, StageNames
<1>2. CASE command = "normalize"
  BY <1>0, <1>2 DEF Pipelines, Stages
<1>3. CASE command = "normalizeAndTranspile"
  <2>1. "transpilation" \in StageNames
    BY DEF StageNames
  <2>2. Stages = Append(Normalizing, "transpilation")
    BY <1>3 DEF Pipelines, Stages
  <2> DEFINE before == Normalizing
             last   == "transpilation"
  <2>3. before \in Seq(StageNames) /\ last \in StageNames /\ Len(before) = 4
    BY <1>0, <2>1
  <2> HIDE DEF before, last
  <2>4. ASSUME NEW names, NEW s \in Seq(names), NEW x \in names
        PROVE  /\ Append(s, x) \in Seq(names)
               /\ Len(Append(s, x)) = Len(s) + 1
               /\ \A i \in 1..Len(s) : Append(s, x)[i] = s[i]
    OBVIOUS
  <2>5. QED
    <3>1. /\ Append(before, last) \in Seq(StageNames)
          /\ Len(Append(before, last)) = Len(before) + 1
          /\ \A i \in 1..Len(before) : Append(before, last)[i] = before[i]
      BY <2>3, <2>4
    <3>2. QED
      BY <1>0, <2>2, <2>3, <3>1 DEF before, last
<1>4. CASE command = "transpile"
  BY <1>4 DEF Pipelines, Stages, StageNames
<1>5. QED
  BY <1>1, <1>2, <1>3, <1>4

\* The definition by recursion is one.
LEMMA TextsAreDefined ==
    ASSUME NEW stages \in Seq(StageNames),
           NEW l \in Seq(StageEdits), Len(l) <= Len(stages), NEW f \in Files
    PROVE  /\ TextsOf(stages, l, f) \in [0..Len(l) -> StageTexts]
           /\ TextsOf(stages, l, f)[0] = Original
           /\ \A n \in 1..Len(l) :
                 TextsOf(stages, l, f)[n] = IF l[n][f] = "edited" THEN Append(TextsOf(stages, l, f)[n - 1], stages[n])
                                    ELSE TextsOf(stages, l, f)[n - 1]
<1> DEFINE step  == [n \in 1..Len(l) |->
                        [t \in StageTexts |-> IF l[n][f] = "edited" THEN Append(t, stages[n]) ELSE t]]
           Texts0(g) == [n \in 0..Len(l) |->
                            IF n = 0 THEN Original
                            ELSE IF l[n][f] = "edited" THEN Append(g[n - 1], stages[n]) ELSE g[n - 1]]
<1>1. Len(l) \in Nat /\ Original \in StageTexts
  BY DEF Original, StageTexts
<1>2. step \in [1..Len(l) -> [StageTexts -> StageTexts]]
  <2>1. ASSUME NEW n \in 1..Len(l), NEW t \in StageTexts PROVE Append(t, stages[n]) \in StageTexts
    <3>1. stages[n] \in StageNames
      OBVIOUS
    <3>2. QED
      BY <3>1 DEF StageTexts
  <2>2. QED
    BY <2>1
<1>3. PICK g \in [0..Len(l) -> StageTexts] : Computes(g, Original, step, Before(Len(l)), Len(l))
  <2>1. step \in StepsOn(StageTexts, Len(l))
    BY <1>2 DEF StepsOn
  <2> HIDE DEF step
  <2>2. QED
    BY <1>1, <2>1, BeforeIsEarlier, RecursionExists
<1>4. ASSUME NEW n \in 1..Len(l)
      PROVE  g[n] = IF l[n][f] = "edited" THEN Append(g[n - 1], stages[n]) ELSE g[n - 1]
  <2>1. n - 1 \in 0..Len(l) /\ g[n - 1] \in StageTexts
    BY <1>1
  <2>2. g[n] = step[n][g[n - 1]]
    BY <1>3 DEF Computes, Before
  <2>3. QED
    BY <2>1, <2>2
<1>5. g = Texts0(g)
  <2>1. ASSUME NEW n \in 0..Len(l) PROVE g[n] = Texts0(g)[n]
    <3>1. Texts0(g)[n] = IF n = 0 THEN Original
                         ELSE IF l[n][f] = "edited" THEN Append(g[n - 1], stages[n]) ELSE g[n - 1]
      OBVIOUS
    <3> HIDE DEF Texts0
    <3>2. CASE n = 0
      BY <1>3, <3>1, <3>2 DEF Computes
    <3>3. CASE n # 0
      <4>1. n \in 1..Len(l)
        BY <1>1, <3>3
      <4>2. QED
        BY <1>4, <3>1, <3>3, <4>1
    <3>4. QED
      BY <3>2, <3>3
  <2>2. QED
    BY <2>1
<1>6. TextsOf(stages, l, f) = CHOOSE by : by = Texts0(by)
  BY DEF TextsOf
<1>7. TextsOf(stages, l, f) = Texts0(TextsOf(stages, l, f))
  <2> HIDE DEF Texts0
  <2> QED
    BY <1>5, <1>6
<1>8. /\ TextsOf(stages, l, f)[0] = Original
      /\ \A n \in 1..Len(l) :
            TextsOf(stages, l, f)[n] = IF l[n][f] = "edited" THEN Append(TextsOf(stages, l, f)[n - 1], stages[n])
                               ELSE TextsOf(stages, l, f)[n - 1]
  <2> DEFINE t == TextsOf(stages, l, f)
  <2>1. t = Texts0(t)
    BY <1>7
  <2> HIDE DEF t
  <2>2. \A n \in 0..Len(l) :
            t[n] = IF n = 0 THEN Original
                   ELSE IF l[n][f] = "edited" THEN Append(t[n - 1], stages[n]) ELSE t[n - 1]
    BY <2>1
  <2>3. 0 \in 0..Len(l) /\ \A n \in 1..Len(l) : n \in 0..Len(l) /\ n # 0
    BY <1>1
  <2>4. t[0] = Original /\ \A n \in 1..Len(l) : t[n] = IF l[n][f] = "edited" THEN Append(t[n - 1], stages[n])
                                                        ELSE t[n - 1]
    BY <2>2, <2>3
  <2>5. QED
    BY <2>4 DEF t
<1>9. \A n \in 0..Len(l) : TextsOf(stages, l, f)[n] = g[n]
  <2> DEFINE t == TextsOf(stages, l, f)
  <2>1. t[0] = g[0] /\ \A n \in 1..Len(l) : t[n - 1] = g[n - 1] => t[n] = g[n]
    BY <1>3, <1>4, <1>8 DEF Computes
  <2> HIDE DEF t
  <2>2. \A n \in 0..Len(l) : t[n] = g[n]
    BY <1>1, <2>1, RecursionUnique
  <2>3. QED
    BY <2>2 DEF t
<1>10. TextsOf(stages, l, f) = [n \in 0..Len(l) |-> TextsOf(stages, l, f)[n]]
  BY <1>7
<1>11. QED
  BY <1>8, <1>9, <1>10

\* One more stage.
LEMMA TextsGrow ==
    ASSUME NEW stages \in Seq(StageNames),
           NEW l \in Seq(StageEdits), Len(l) < Len(stages), NEW f \in Files, NEW e \in StageEdits
    PROVE  TextsOf(stages, Append(l, e), f)[Len(l) + 1] =
               IF e[f] = "edited" THEN Append(TextsOf(stages, l, f)[Len(l)], stages[Len(l) + 1])
               ELSE TextsOf(stages, l, f)[Len(l)]
<1> DEFINE m == Append(l, e)
           s == TextsOf(stages, l, f)
           t == TextsOf(stages, m, f)
<1>1. /\ Len(l) \in Nat /\ m \in Seq(StageEdits) /\ Len(m) = Len(l) + 1
      /\ m[Len(l) + 1] = e /\ \A i \in 1..Len(l) : m[i] = l[i]
  OBVIOUS
<1>2. Len(stages) \in Nat
  OBVIOUS
<1>3. s[0] = Original /\ \A n \in 1..Len(l) : s[n] = IF l[n][f] = "edited" THEN Append(s[n - 1], stages[n])
                                                     ELSE s[n - 1]
  BY <1>1, <1>2, TextsAreDefined
<1>4. t[0] = Original /\ \A n \in 1..Len(m) : t[n] = IF m[n][f] = "edited" THEN Append(t[n - 1], stages[n])
                                                     ELSE t[n - 1]
  <2> HIDE DEF m
  <2> QED
    BY <1>1, <1>2, TextsAreDefined
<1> HIDE DEF m, s, t
<1>5. \A n \in 1..Len(l) : s[n - 1] = t[n - 1] => s[n] = t[n]
  BY <1>1, <1>3, <1>4
<1>6. \A n \in 0..Len(l) : s[n] = t[n]
  <2>1. s[0] = t[0] /\ Len(l) \in Nat
    BY <1>1, <1>3, <1>4
  <2>2. QED
    BY <1>5, <2>1, RecursionUnique, Zenon
<1>7. s[Len(l)] = t[Len(l)]
  BY <1>1, <1>6
<1>8. t[Len(l) + 1] = IF m[Len(l) + 1][f] = "edited" THEN Append(t[Len(l)], stages[Len(l) + 1])
                      ELSE t[Len(l)]
  BY <1>1, <1>4
<1>9. QED
  BY <1>1, <1>7, <1>8 DEF m, s, t
-----------------------------------------------------------------------------
(* What the stages work on, and what they put out.                         *)

\* Header h, as whoever is given these files finds it.
HeaderOf(files, h) == IF h \in DOMAIN files.headers THEN files.headers[h] ELSE Original

\* The text of file f, by the log.
LogText(f) == IF \E i \in DOMAIN log : log[i][f] = "emptied" THEN Empty ELSE EditedBy(f)

FollowLog(files) ==
    files.source = EditedBy("main") /\ \A h \in Headers : HeaderOf(files, h) = LogText(h)

\* Each stage adds its edits to those before it, and there is no launcher
\* before the last one.
FilesInv ==
    /\ log \in Seq(StageEdits)
    /\ "headers" \in DOMAIN staged
    /\ phase \in {"ready", "lexing", "parsing"} => Len(log) = stageNo - 1
    /\ phase \in {"ready", "lexing", "parsing"} /\ stageNo <= Len(Stages) /\ staged.source # Empty =>
          FollowLog(staged)
    /\ phase = "ended" /\ diag.errors = <<>> =>
          /\ Len(log) = stageNo
          /\ "headers" \in DOMAIN output.normalized
          /\ stageNo < Len(Stages) => FollowLog(output.normalized)
    /\ output.launcher # NoOutput =>
          stageNo >= Len(Stages) /\ phase \notin {"lexing", "parsing"}
    /\ phase = "ready" /\ output.launcher # NoOutput => stageNo > Len(Stages)
    /\ DOMAIN output = {"normalized", "kernel", "launcher"}
    /\ LauncherSeesKernelFiles

LEMMA EditedByIs == \A f : EditedBy(f) = TextsOf(Stages, log, f)[Len(log)]
BY DEF EditedBy, TextsOf

LEMMA EditedByIsText ==
    ASSUME command \in DOMAIN Pipelines, log \in Seq(StageEdits), Len(log) <= Len(Stages),
           NEW f \in Files
    PROVE  EditedBy(f) \in StageTexts /\ EditedBy(f) # Empty
<1>1. TextsOf(Stages, log, f) \in [0..Len(log) -> StageTexts] /\ Len(log) \in Nat
  BY StagesHaveNames, TextsAreDefined
<1>2. EditedBy(f) \in StageTexts
  <2>1. Len(log) \in 0..Len(log)
    BY <1>1
  <2>2. QED
    BY <1>1, <2>1, EditedByIs
<1>3. Empty \notin StageTexts
  <2>1. SUFFICES ASSUME Empty \in Seq(StageNames) PROVE FALSE
    BY DEF StageTexts
  <2>2. Empty[1] \in StageNames
    BY <2>1 DEF Empty
  <2>3. QED
    BY <2>2 DEF Empty, StageNames
<1>4. QED
  BY <1>2, <1>3

\* One more stage, and its edits, in the log.
LEMMA LogGrows ==
    ASSUME command \in DOMAIN Pipelines, log \in Seq(StageEdits), Len(log) < Len(Stages),
           NEW e \in StageEdits, log' = Append(log, e), UNCHANGED command
    PROVE  /\ log' \in Seq(StageEdits) /\ Len(log') = Len(log) + 1
           /\ \A f \in Files :
                 /\ EditedBy(f)' = IF e[f] = "edited" THEN Append(EditedBy(f), Stages[Len(log) + 1])
                                   ELSE EditedBy(f)
                 /\ (\E i \in DOMAIN log' : log'[i][f] = "emptied")
                        <=> (\E i \in DOMAIN log : log[i][f] = "emptied") \/ e[f] = "emptied"
<1>1. /\ log' \in Seq(StageEdits) /\ Len(log') = Len(log) + 1 /\ Len(log) \in Nat
      /\ log'[Len(log) + 1] = e /\ \A i \in 1..Len(log) : log'[i] = log[i]
  OBVIOUS
<1>2. Stages' = Stages
  BY DEF Stages
<1>3. ASSUME NEW f \in Files
      PROVE  EditedBy(f)' = IF e[f] = "edited" THEN Append(EditedBy(f), Stages[Len(log) + 1])
                            ELSE EditedBy(f)
  <2>1. EditedBy(f)' = TextsOf(Stages', log', f)[Len(log')]
    BY DEF EditedBy, TextsOf
  <2>2. EditedBy(f)' = TextsOf(Stages, Append(log, e), f)[Len(log) + 1]
    BY <1>1, <1>2, <2>1
  <2>3. Stages \in Seq(StageNames)
    BY StagesHaveNames
  <2>4. TextsOf(Stages, Append(log, e), f)[Len(log) + 1] =
            IF e[f] = "edited" THEN Append(TextsOf(Stages, log, f)[Len(log)], Stages[Len(log) + 1])
            ELSE TextsOf(Stages, log, f)[Len(log)]
    BY <2>3, TextsGrow
  <2>5. QED
    BY <2>2, <2>4, EditedByIs
<1>4. ASSUME NEW f \in Files
      PROVE  (\E i \in DOMAIN log' : log'[i][f] = "emptied")
                 <=> (\E i \in DOMAIN log : log[i][f] = "emptied") \/ e[f] = "emptied"
  <2>1. DOMAIN log = 1..Len(log) /\ DOMAIN log' = 1..Len(log) + 1
    BY <1>1
  <2>2. QED
    BY <1>1, <2>1
<1>5. QED
  BY <1>1, <1>3, <1>4

\* A header, in the files that a stage puts out.
LEMMA MergedHeader ==
    ASSUME NEW edits \in StageEdits, NEW by, NEW files,
           files.headers = MergedHeaders(edits, by, staged.headers), NEW h \in Headers
    PROVE  HeaderOf(files, h) =
               IF edits[h] = "kept" THEN HeaderOf(staged, h)
               ELSE IF edits[h] = "emptied" \/ HeaderOf(staged, h) = Empty THEN Empty
               ELSE Append(HeaderOf(staged, h), by)
<1> DEFINE new == HeaderResults(edits, by)
           old == staged.headers
<1>1. files.headers = [x \in DOMAIN new \cup DOMAIN old |-> IF x \in DOMAIN new THEN new[x] ELSE old[x]]
  <2>1. files.headers = Merged(new, old)
    BY DEF MergedHeaders
  <2> HIDE DEF new, old
  <2>2. QED
    BY <2>1 DEF Merged
<1>2. /\ DOMAIN new = {x \in Headers : edits[x] # "kept"}
      /\ h \in DOMAIN new =>
            new[h] = IF edits[h] = "emptied" \/ HeaderText(h) = Empty THEN Empty
                     ELSE Append(HeaderText(h), by)
  BY DEF HeaderResults
<1>3. HeaderText(h) = HeaderOf(staged, h)
  BY DEF HeaderText, HeaderOf
<1> HIDE DEF new, old
<1>4. CASE edits[h] = "kept"
  <2>1. h \notin DOMAIN new
    BY <1>2, <1>4
  <2>2. h \in DOMAIN files.headers <=> h \in DOMAIN old
    BY <1>1, <2>1
  <2>3. h \in DOMAIN old => files.headers[h] = old[h]
    BY <1>1, <2>1
  <2>4. QED
    BY <1>4, <2>2, <2>3 DEF HeaderOf, old
<1>5. CASE edits[h] # "kept"
  <2>1. h \in DOMAIN new
    BY <1>2, <1>5
  <2>2. h \in DOMAIN files.headers /\ files.headers[h] = new[h]
    BY <1>1, <2>1
  <2>3. QED
    BY <1>2, <1>3, <1>5, <2>1, <2>2 DEF HeaderOf
<1>6. QED
  BY <1>4, <1>5

\* The edits of a stage, made to files that follow the log, follow the log
\* with those edits.
LEMMA EditsFollowLog ==
    ASSUME command \in DOMAIN Pipelines, log \in Seq(StageEdits), Len(log) < Len(Stages),
           FollowLog(staged), diag.errors = <<>>,
           NEW e \in StageEdits, log' = Append(log, e), UNCHANGED command,
           NEW files, files = EndSourceFile(e, Stages[Len(log) + 1], staged.headers)
    PROVE  files.source = EditedBy("main")' /\ \A h \in Headers : HeaderOf(files, h) = LogText(h)'
<1> DEFINE by == Stages[Len(log) + 1]
<1>1. e \in [Files -> Edits]
  BY StageEditsAssumption
<1>2. "main" \in Files /\ \A h \in Headers : h \in Files
  BY DEF Files
<1>3. /\ files.source = MainResult(e, by)
      /\ files.headers = MergedHeaders(e, by, staged.headers)
  BY DEF EndSourceFile
<1>4. files.source = EditedBy("main")'
  <2>1. EditedBy("main")' = IF e["main"] = "edited" THEN Append(EditedBy("main"), by)
                            ELSE EditedBy("main")
    BY <1>2, LogGrows
  <2>2. QED
    BY <1>3, <2>1 DEF MainResult, FollowLog
<1>5. ASSUME NEW h \in Headers PROVE HeaderOf(files, h) = LogText(h)'
  <2>1. e[h] \in {"kept", "edited", "emptied"} /\ h \in Files
    BY <1>1, <1>2 DEF Edits
  <2>2. HeaderOf(files, h) =
            IF e[h] = "kept" THEN HeaderOf(staged, h)
            ELSE IF e[h] = "emptied" \/ HeaderOf(staged, h) = Empty THEN Empty
            ELSE Append(HeaderOf(staged, h), by)
    BY <1>3, MergedHeader
  <2>3. /\ EditedBy(h)' = IF e[h] = "edited" THEN Append(EditedBy(h), by) ELSE EditedBy(h)
        /\ (\E i \in DOMAIN log' : log'[i][h] = "emptied")
               <=> (\E i \in DOMAIN log : log[i][h] = "emptied") \/ e[h] = "emptied"
    BY <2>1, LogGrows
  <2>4. HeaderOf(staged, h) = IF \E i \in DOMAIN log : log[i][h] = "emptied" THEN Empty ELSE EditedBy(h)
    BY DEF FollowLog, LogText
  <2>5. EditedBy(h) # Empty
    <3>1. Len(log) <= Len(Stages)
      BY StagesHaveNames
    <3>2. QED
      BY <2>1, <3>1, EditedByIsText
  <2>6. LogText(h)' = IF \E i \in DOMAIN log' : log'[i][h] = "emptied" THEN Empty ELSE EditedBy(h)'
    BY DEF LogText
  <2> HIDE DEF by
  <2>7. QED
    BY <2>1, <2>2, <2>3, <2>4, <2>5, <2>6
<1>6. QED
  BY <1>4, <1>5

LEMMA InitFilesInv == PipelineInit => FilesInv
<1> SUFFICES ASSUME PipelineInit PROVE FilesInv
  OBVIOUS
<1>1. /\ Len(Stages) \in Nat \ {0} /\ stageNo = 1 /\ phase = "ready" /\ log = <<>>
      /\ command \in DOMAIN Pipelines
  BY StagesAreSome DEF PipelineInit
<1>2. PICK source \in {Original, Empty}, given \in SUBSET Headers :
          staged = [source |-> source, headers |-> [h \in given |-> Original]]
  BY DEF PipelineInit
<1>3. log \in Seq(StageEdits) /\ Len(log) = 0
  BY <1>1
<1>4. output = [normalized |-> NoOutput, kernel |-> NoOutput, launcher |-> NoOutput]
  BY DEF PipelineInit
<1>5. ASSUME NEW f \in Files PROVE EditedBy(f) = Original
  <2>1. TextsOf(Stages, log, f)[0] = Original
    <3>1. Stages \in Seq(StageNames) /\ Len(log) <= Len(Stages)
      BY <1>1, <1>3, StagesHaveNames
    <3>2. QED
      BY <1>3, <3>1, TextsAreDefined
  <2>2. QED
    BY <1>3, <2>1, EditedByIs
<1>6. ASSUME staged.source # Empty PROVE FollowLog(staged)
  <2>1. staged.source = Original /\ \A h \in Headers : HeaderOf(staged, h) = Original
    BY <1>2, <1>6 DEF HeaderOf
  <2>2. \A h \in Headers : LogText(h) = EditedBy(h)
    BY <1>1 DEF LogText
  <2>3. QED
    BY <1>5, <2>1, <2>2 DEF FollowLog, Files
<1>7. LauncherSeesKernelFiles
  BY <1>4 DEF LauncherSeesKernelFiles
<1>8. QED
  BY <1>1, <1>2, <1>3, <1>4, <1>6, <1>7 DEF FilesInv

LEMMA LogUnchanged ==
    ASSUME UNCHANGED <<command, log>>
    PROVE  /\ \A f : EditedBy(f)' = EditedBy(f)
           /\ \A h : LogText(h)' = LogText(h)
<1>1. Stages' = Stages
  BY DEF Stages
<1>2. \A f : EditedBy(f)' = TextsOf(Stages', log', f)[Len(log')]
  BY DEF EditedBy, TextsOf
<1>3. \A f : EditedBy(f)' = EditedBy(f)
  BY <1>1, <1>2, EditedByIs
<1>4. QED
  BY <1>3 DEF LogText

\* The text without the edit of a last pass.
LEMMA InputOfPass ==
    ASSUME NEW text \in StageTexts, NEW by \in {"kernel", "launcher"}
    PROVE  Input(text, by) = text /\ Input(Append(text, by), by) = text
<1>1. Len(text) \in Nat
  BY DEF StageTexts
<1>2. ASSUME text # <<>> PROVE Last(text) # by
  <2>1. Len(text) # 0 /\ \A i \in 1..Len(text) : text[i] \in StageNames
    BY <1>2 DEF StageTexts
  <2>2. text[Len(text)] \in StageNames
    BY <1>1, <2>1
  <2>3. QED
    BY <2>2 DEF Last, StageNames
<1>3. Input(text, by) = text
  BY <1>2 DEF Input
<1> DEFINE longer == Append(text, by)
<1>4. /\ longer \in Seq(StageNames \cup {by}) /\ Len(longer) = Len(text) + 1
      /\ longer[Len(longer)] = by /\ \A i \in 1..Len(text) : longer[i] = text[i]
  BY DEF StageTexts
<1>5. longer # <<>> /\ Last(longer) = by
  <2> HIDE DEF longer
  <2> QED
    BY <1>1, <1>4 DEF Last
<1>6. Front(longer) = text
  <2>1. Front(longer) = SubSeq(longer, 1, Len(longer) - 1)
    BY DEF Front
  <2> HIDE DEF longer
  <2>2. /\ Front(longer) \in Seq(StageNames \cup {by}) /\ Len(Front(longer)) = Len(text)
        /\ \A i \in 1..Len(text) : Front(longer)[i] = longer[i]
    BY <1>1, <1>4, <2>1
  <2>3. text \in Seq(StageNames \cup {by})
    BY DEF StageTexts
  <2>4. QED
    BY <1>4, <2>2, <2>3
<1>7. Input(longer, by) = text
  <2> HIDE DEF longer
  <2> QED
    BY <1>5, <1>6 DEF Input
<1>8. QED
  BY <1>3, <1>7

\* What a last pass puts out is, but for its own edit, what the stages before
\* have left.
LEMMA FusedFiles ==
    ASSUME command \in DOMAIN Pipelines, log \in Seq(StageEdits), Len(log) <= Len(Stages),
           FollowLog(staged), NEW e \in StageEdits, NEW by \in {"kernel", "launcher"},
           NEW files, files = Fused(e, by, staged.headers)
    PROVE  /\ Input(files.source, by) = staged.source
           /\ \A h \in Headers :
                 HeaderOf(files, h) = Empty \/ Input(HeaderOf(files, h), by) = HeaderOf(staged, h)
<1>1. e \in [Files -> Edits] /\ "main" \in Files /\ \A h \in Headers : h \in Files
  BY StageEditsAssumption DEF Files
<1>2. files.source = MainResult(e, by) /\ files.headers = MergedHeaders(e, by, staged.headers)
  BY DEF Fused
<1>3. Input(files.source, by) = staged.source
  <2>1. staged.source \in StageTexts
    BY <1>1, EditedByIsText DEF FollowLog
  <2>2. QED
    BY <1>2, <2>1, InputOfPass DEF MainResult
<1>4. ASSUME NEW h \in Headers
      PROVE  HeaderOf(files, h) = Empty \/ Input(HeaderOf(files, h), by) = HeaderOf(staged, h)
  <2>1. HeaderOf(files, h) =
            IF e[h] = "kept" THEN HeaderOf(staged, h)
            ELSE IF e[h] = "emptied" \/ HeaderOf(staged, h) = Empty THEN Empty
            ELSE Append(HeaderOf(staged, h), by)
    BY <1>2, MergedHeader
  <2>2. HeaderOf(staged, h) = Empty \/ HeaderOf(staged, h) \in StageTexts
    BY <1>1, EditedByIsText DEF FollowLog, LogText
  <2>3. HeaderOf(staged, h) \in StageTexts =>
            /\ Input(HeaderOf(staged, h), by) = HeaderOf(staged, h)
            /\ Input(Append(HeaderOf(staged, h), by), by) = HeaderOf(staged, h)
    BY InputOfPass
  <2>4. QED
    BY <2>1, <2>2, <2>3
<1>5. QED
  BY <1>3, <1>4

LEMMA FusedFromSameFiles ==
    ASSUME command \in DOMAIN Pipelines, log \in Seq(StageEdits), Len(log) <= Len(Stages),
           FollowLog(staged), NEW e \in StageEdits, NEW f \in StageEdits,
           output'.kernel = Fused(e, "kernel", staged.headers),
           output'.launcher = Fused(f, "launcher", staged.headers)
    PROVE  LauncherSeesKernelFiles'
<1>1. \A h : FusedHeader(output'.kernel, h) = HeaderOf(output'.kernel, h)
             /\ FusedHeader(output'.launcher, h) = HeaderOf(output'.launcher, h)
  BY DEF FusedHeader, HeaderOf
<1>2. /\ Input(output'.kernel.source, "kernel") = staged.source
      /\ \A h \in Headers : HeaderOf(output'.kernel, h) = Empty
                              \/ Input(HeaderOf(output'.kernel, h), "kernel") = HeaderOf(staged, h)
  BY FusedFiles
<1>3. /\ Input(output'.launcher.source, "launcher") = staged.source
      /\ \A h \in Headers : HeaderOf(output'.launcher, h) = Empty
                              \/ Input(HeaderOf(output'.launcher, h), "launcher") = HeaderOf(staged, h)
  BY FusedFiles
<1>4. SameInput(output'.kernel.source, output'.launcher.source)
  BY <1>2, <1>3 DEF SameInput
<1>5. \A h \in Headers : SameInput(FusedHeader(output'.kernel, h), FusedHeader(output'.launcher, h))
  BY <1>1, <1>2, <1>3 DEF SameInput
<1>6. QED
  BY <1>4, <1>5 DEF LauncherSeesKernelFiles

\* The parts of FilesInv that a step keeps that does not touch the outputs.
LEMMA LauncherStays ==
    ASSUME LauncherSeesKernelFiles, UNCHANGED output
    PROVE  LauncherSeesKernelFiles'
BY DEF LauncherSeesKernelFiles

LEMMA TranspileKeepsFiles ==
    ASSUME TextInv, FilesInv, Transpile
    PROVE  FilesInv'
<1>1. /\ phase = "parsing" /\ phase' = "ended" /\ Stage = "transpilation"
      /\ UNCHANGED <<command, device, stageNo, diag, staged>>
  BY DEF Transpile, EndStage, inputVars
<1>2. /\ command \in DOMAIN Pipelines /\ stageNo \in Nat \ {0} /\ stageNo <= Len(Stages)
      /\ Len(Stages) \in Nat /\ staged.source \in Texts
  BY <1>1, StagesAreSome DEF TextInv
<1>3. stageNo = Len(Stages)
  <2>1. stageNo \in DOMAIN Stages
    BY <1>2, StagesHaveNames
  <2>2. QED
    BY <1>1, <1>2, <2>1, StagesHaveNames DEF Stage
<1>4. /\ log \in Seq(StageEdits) /\ Len(log) = stageNo - 1 /\ FollowLog(staged)
      /\ output.launcher = NoOutput /\ DOMAIN output = {"normalized", "kernel", "launcher"}
      /\ "headers" \in DOMAIN staged
  BY <1>1, <1>2, TextsAreNotEmpty DEF FilesInv
<1>5. Stages' = Stages
  BY <1>1 DEF Stages
<1>6. ASSUME NEW e \in StageEdits, log' = Append(log, e)
      PROVE  log' \in Seq(StageEdits) /\ Len(log') = stageNo
  BY <1>2, <1>4, <1>6
<1>7. ASSUME NEW e \in StageEdits, NEW by, diag.errors = <<>>
      PROVE  "headers" \in DOMAIN EndSourceFile(e, by, HeadersLeft(e))
  BY <1>7 DEF EndSourceFile
<1>8. CASE device
  <2>1. PICK edits \in StageEdits, launcherEdits \in StageEdits, launcherFails \in BOOLEAN :
            /\ output' = [kernel     |-> Fused(edits, "kernel", staged.headers),
                          launcher   |-> IF launcherFails THEN output.launcher
                                         ELSE Fused(launcherEdits, "launcher", HeadersLeft(edits)),
                          normalized |-> EndSourceFile(launcherEdits, "launcher", HeadersLeft(edits))]
            /\ EndStage(launcherEdits)
    BY <1>8 DEF Transpile
  <2>2. DOMAIN output' = {"normalized", "kernel", "launcher"}
    BY <2>1
  <2>3. /\ output'.kernel = Fused(edits, "kernel", staged.headers)
        /\ output'.launcher = IF launcherFails THEN NoOutput
                              ELSE Fused(launcherEdits, "launcher", staged.headers)
        /\ output'.normalized = EndSourceFile(launcherEdits, "launcher", HeadersLeft(launcherEdits))
    BY <1>4, <2>1 DEF HeadersLeft
  <2>4. log' \in Seq(StageEdits) /\ Len(log') = stageNo
    BY <1>6, <2>1 DEF EndStage
  <2>5. LauncherSeesKernelFiles'
    <3>1. CASE launcherFails
      BY <2>3, <3>1 DEF LauncherSeesKernelFiles
    <3>2. CASE ~launcherFails
      <4>1. Len(log) <= Len(Stages)
        BY <1>2, <1>4
      <4>2. QED
        BY <1>2, <1>4, <2>3, <3>2, <4>1, FusedFromSameFiles
    <3>3. QED
      BY <3>1, <3>2
  <2>6. QED
    BY <1>1, <1>2, <1>3, <1>4, <1>5, <1>7, <2>2, <2>3, <2>4, <2>5 DEF FilesInv
<1>9. CASE ~device
  <2>1. PICK edits \in StageEdits :
            /\ output' = [output EXCEPT !.kernel = Fused(edits, "kernel", staged.headers),
                                        !.normalized = EndSourceFile(edits, "kernel", HeadersLeft(edits))]
            /\ EndStage(edits)
    BY <1>9 DEF Transpile
  <2>2. /\ DOMAIN output' = {"normalized", "kernel", "launcher"}
        /\ output'.launcher = NoOutput
        /\ output'.normalized = EndSourceFile(edits, "kernel", HeadersLeft(edits))
    BY <1>4, <2>1
  <2>3. log' \in Seq(StageEdits) /\ Len(log') = stageNo
    BY <1>6, <2>1 DEF EndStage
  <2>4. LauncherSeesKernelFiles'
    BY <2>2 DEF LauncherSeesKernelFiles
  <2>5. QED
    BY <1>1, <1>2, <1>3, <1>4, <1>5, <1>7, <2>2, <2>3, <2>4 DEF FilesInv
<1>10. QED
  BY <1>8, <1>9

LEMMA EditKeepsFiles ==
    ASSUME TextInv, FilesInv, EditTokens \/ NormalizeToStd
    PROVE  FilesInv'
<1>1. /\ phase \in {"lexing", "parsing"} /\ phase' = "ended"
      /\ UNCHANGED <<command, device, stageNo, diag, staged>>
  BY DEF EditTokens, NormalizeToStd, EndStage, inputVars
<1>2. /\ command \in DOMAIN Pipelines /\ stageNo \in Nat \ {0} /\ stageNo <= Len(Stages)
      /\ Len(Stages) \in Nat /\ staged.source \in Texts
  BY <1>1, StagesAreSome DEF TextInv
<1>3. /\ log \in Seq(StageEdits) /\ Len(log) = stageNo - 1 /\ FollowLog(staged)
      /\ output.launcher = NoOutput /\ DOMAIN output = {"normalized", "kernel", "launcher"}
      /\ "headers" \in DOMAIN staged
  BY <1>1, <1>2, TextsAreNotEmpty DEF FilesInv
<1>4. PICK e \in StageEdits :
          /\ output' = [output EXCEPT !.normalized = EndSourceFile(e, Stage, staged.headers)]
          /\ log' = Append(log, e)
  BY DEF EditTokens, NormalizeToStd, EndStage
<1>5. /\ output'.normalized = EndSourceFile(e, Stage, staged.headers)
      /\ output'.launcher = NoOutput /\ DOMAIN output' = DOMAIN output
  BY <1>3, <1>4
<1>6. log' \in Seq(StageEdits) /\ Len(log') = stageNo
  BY <1>2, <1>3, <1>4
<1>7. Stage = Stages[Len(log) + 1] /\ Len(log) < Len(Stages) /\ Stages' = Stages
  BY <1>1, <1>2, <1>3 DEF Stage, Stages
<1>8. ASSUME diag.errors = <<>>
      PROVE  "headers" \in DOMAIN output'.normalized /\ FollowLog(output.normalized)'
  <2>1. "headers" \in DOMAIN output'.normalized
    BY <1>5, <1>8 DEF EndSourceFile
  <2> DEFINE files == output'.normalized
  <2>2. files = EndSourceFile(e, Stages[Len(log) + 1], staged.headers)
    BY <1>5, <1>7
  <2> HIDE DEF files
  <2>3. files.source = EditedBy("main")' /\ \A h \in Headers : HeaderOf(files, h) = LogText(h)'
    BY <1>1, <1>2, <1>3, <1>4, <1>7, <1>8, <2>2, EditsFollowLog
  <2>4. FollowLog(output.normalized)'
    <3>1. \A h : HeaderOf(output.normalized, h)' = HeaderOf(files, h)
      BY DEF HeaderOf, files
    <3>2. QED
      BY <2>3, <3>1 DEF FollowLog, files
  <2>5. QED
    BY <2>1, <2>4
<1>9. LauncherSeesKernelFiles'
  BY <1>5 DEF LauncherSeesKernelFiles
<1>10. QED
  BY <1>1, <1>3, <1>5, <1>6, <1>8, <1>9 DEF FilesInv

LEMMA NextFilesInv == TextInv /\ ErrorInv /\ FilesInv /\ [PipelineNext]_pipelineVars => FilesInv'
<1> SUFFICES ASSUME TextInv, ErrorInv, FilesInv, [PipelineNext]_pipelineVars PROVE FilesInv'
  OBVIOUS
<1>0. command \in DOMAIN Pipelines /\ Len(Stages) \in Nat \ {0} /\ stageNo \in Nat \ {0}
  BY StagesAreSome DEF TextInv
<1>1. CASE EditTokens \/ NormalizeToStd
  BY <1>1, EditKeepsFiles
<1>2. CASE Transpile
  BY <1>2, TranspileKeepsFiles
<1>3. CASE ReportToClang \/ RejectTokens \/ InstallConsumer \/ ReportDiagnostic \/ TranspilationFails
  <2>1. /\ phase \in {"lexing", "parsing"}
        /\ phase' \in {"lexing", "parsing"} \/ (phase' = "ended" /\ diag'.errors # <<>>)
        /\ UNCHANGED <<command, stageNo, staged, output, log>>
    <3>1. CASE RejectTokens \/ TranspilationFails
      <4>1. diag.errors \in Seq(Errors) /\ "stage" \in Errors /\ diag'.errors = Append(diag.errors, "stage")
        BY <3>1 DEF ErrorInv, Client, Errors, RejectTokens, TranspilationFails
      <4>2. diag'.errors # <<>>
        BY <4>1, AppendedIsSome
      <4>3. QED
        BY <3>1, <4>2 DEF RejectTokens, TranspilationFails, inputVars
    <3>2. CASE ReportToClang \/ InstallConsumer \/ ReportDiagnostic
      BY <3>2 DEF ReportToClang, InstallConsumer, ReportDiagnostic, inputVars
    <3>3. QED
      BY <1>3, <3>1, <3>2
  <2>2. FollowLog(staged)' <=> FollowLog(staged)
    BY <2>1, LogUnchanged DEF FollowLog, HeaderOf
  <2>3. LauncherSeesKernelFiles'
    BY <2>1, LauncherStays DEF FilesInv
  <2>4. Stages' = Stages
    BY <2>1 DEF Stages
  <2>5. QED
    BY <2>1, <2>2, <2>3, <2>4 DEF FilesInv
<1>4. CASE StartStage
  <2>1. /\ phase = "ready" /\ phase' = "lexing" /\ stageNo <= Len(Stages) /\ staged.source # Empty
        /\ UNCHANGED <<command, stageNo, diag, output, log>>
        /\ staged' = [staged EXCEPT !.headers = WithStub(@)]
    BY <1>4 DEF StartStage, inputVars
  <2>2. /\ "source" \in DOMAIN staged /\ "headers" \in DOMAIN staged
        /\ FollowLog(staged) /\ output.launcher = NoOutput
    BY <1>0, <2>1 DEF TextInv, FilesInv
  <2>3. /\ staged'.source = staged.source /\ staged'.headers = WithStub(staged.headers)
        /\ "headers" \in DOMAIN staged'
    BY <2>1, <2>2
  <2>4. \A h : HeaderOf(staged, h)' = HeaderOf(staged, h)
    <3> DEFINE old == staged.headers
               new == staged'.headers
    <3>1. new = [k \in DOMAIN old \cup {Stub} |-> IF k \in DOMAIN old THEN old[k] ELSE Original]
      BY <2>3 DEF WithStub, Merged
    <3> HIDE DEF old, new
    <3>2. TAKE h
    <3>3. (IF h \in DOMAIN new THEN new[h] ELSE Original) = (IF h \in DOMAIN old THEN old[h] ELSE Original)
      BY <3>1
    <3>4. QED
      BY <3>3 DEF HeaderOf, old, new
  <2>5. FollowLog(staged)'
    BY <2>1, <2>2, <2>3, <2>4, LogUnchanged DEF FollowLog
  <2>6. LauncherSeesKernelFiles'
    BY <2>1, LauncherStays DEF FilesInv
  <2>7. QED
    BY <2>1, <2>2, <2>3, <2>5, <2>6 DEF FilesInv
<1>5. CASE FinishStage
  <2>1. /\ phase = "ended" /\ phase' = "ready" /\ diag.errors = <<>>
        /\ staged' = output.normalized /\ stageNo' = stageNo + 1
        /\ UNCHANGED <<command, output, log>>
    BY <1>5 DEF FinishStage, StageFailed, inputVars
  <2>2. Stages' = Stages
    BY <2>1 DEF Stages
  <2>3. ASSUME stageNo' <= Len(Stages) PROVE FollowLog(staged)'
    <3>1. FollowLog(output.normalized)
      BY <1>0, <2>1, <2>3 DEF FilesInv
    <3>2. \A h : HeaderOf(staged, h)' = HeaderOf(output.normalized, h)
      BY <2>1 DEF HeaderOf
    <3>3. QED
      BY <2>1, <3>1, <3>2, LogUnchanged DEF FollowLog
  <2>4. LauncherSeesKernelFiles'
    BY <2>1, LauncherStays DEF FilesInv
  <2>5. QED
    BY <1>0, <2>1, <2>2, <2>3, <2>4 DEF FilesInv
<1>6. CASE RejectEmptySource \/ FailStage \/ FinishPipeline \/ WriteFiles
  <2>1. /\ phase' \in {"stopped", "written"}
        /\ UNCHANGED <<command, stageNo, staged, output, log>>
    BY <1>6 DEF RejectEmptySource, FailStage, FinishPipeline, WriteFiles, inputVars
  <2>2. LauncherSeesKernelFiles'
    BY <2>1, LauncherStays DEF FilesInv
  <2>3. Stages' = Stages
    BY <2>1 DEF Stages
  <2>4. output.launcher # NoOutput => stageNo >= Len(Stages)
    BY DEF FilesInv
  <2>5. QED
    BY <2>1, <2>2, <2>3, <2>4 DEF FilesInv
<1>7. CASE UNCHANGED pipelineVars
  <2>1. UNCHANGED <<command, stageNo, phase, diag, staged, output, log>>
    BY <1>7 DEF pipelineVars
  <2>2. Stages' = Stages
    BY <2>1 DEF Stages
  <2>3. FollowLog(staged)' = FollowLog(staged) /\ FollowLog(output.normalized)' = FollowLog(output.normalized)
    BY <2>1, LogUnchanged DEF FollowLog, HeaderOf
  <2>4. LauncherSeesKernelFiles'
    BY <2>1, LauncherStays DEF FilesInv
  <2>5. QED
    BY <2>1, <2>2, <2>3, <2>4 DEF FilesInv
<1>8. QED
  BY <1>1, <1>2, <1>3, <1>4, <1>5, <1>6, <1>7 DEF PipelineNext

LEMMA FilesInvariance == PipelineSpec => []FilesInv
BY TextInvariance, ErrorInvariance, InitFilesInv, NextFilesInv, PTL DEF PipelineSpec

\* Whatever the stages do to the files, and whatever headers there are: each
\* stage works on what all those before it have left, of the main file and of
\* every header.
THEOREM StagesSeeAllEdits == PipelineSpec => []EditsAccumulate
<1>1. FilesInv => EditsAccumulate
  <2>1. \A h : HeaderText(h) = HeaderOf(staged, h)
    BY DEF HeaderText, HeaderOf
  <2>2. QED
    BY <2>1 DEF FilesInv, EditsAccumulate, FollowLog, LogText
<1>2. QED
  BY <1>1, FilesInvariance, PTL

\* Kernel and launcher come from the same main file and the same headers,
\* also when the first pass has edited, emptied or kept any of them.
THEOREM SameFilesForBothPasses == PipelineSpec => []LauncherSeesKernelFiles
<1>1. FilesInv => LauncherSeesKernelFiles
  BY DEF FilesInv
<1>2. QED
  BY <1>1, FilesInvariance, PTL
=============================================================================
