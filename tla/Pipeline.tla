------------------------------ MODULE Pipeline ------------------------------
(***************************************************************************)
(* One run of the tool: the stages of a pipeline, each of which runs clang *)
(* over the main file and the headers as the stage before has left them,   *)
(* and the files the tool writes in the end.                               *)
(*                                                                         *)
(* A text is the sequence of the stages that have edited it, so that the   *)
(* properties can tell what a stage has worked on.                         *)
(***************************************************************************)
EXTENDS Diagnostics, SequencesExt

CONSTANTS
    Headers,    \* the headers that the main file includes
    StageEdits, \* what the rewriter of a stage may do to the files
    MaxDiags    \* clang reports at most so many diagnostics in a stage

Normalizing == <<"directives", "macros", "to gnu", "to std">>

\* The stages that work on the tokens, and those that work on the AST.
TokenStages == {"directives", "macros", "to gnu"}
AstStages   == {"to std", "transpilation"}

Pipelines == [normalize            |-> Normalizing,
              normalizeAndTranspile |-> Append(Normalizing, "transpilation"),
              transpile            |-> <<"transpilation">>]

Original == <<>>
Empty    == <<"empty">>

\* What a rewriter does to a file.
Edits == {"kept", "edited", "emptied"}
Files == {"main"} \cup Headers

ASSUME StageEditsAssumption == StageEdits \subseteq [Files -> Edits]

Stub     == "okl_intrinsic.h"
NoOutput == [source |-> Empty, headers |-> <<>>]

VARIABLES
    command,    \* the function that was called
    device,     \* isDeviceCategory(backend)
    stageNo,    \* the stage of the loop in runPipeline
    phase,      \* of the stage: "ready", "lexing", "parsing", "ended"; then "stopped", "written"
    diag,       \* the diagnostic client and the lists of the session
    reported,   \* history: what clang has reported to the DiagConsumer of the stage
    staged,     \* TranspilerSession::_stagedFiles
    output,     \* TranspilerSession::_output
    log,        \* history: per stage, the edits it made
    result,     \* "none", "ok" or "failed"
    returned,   \* the errors returned with "failed"
    written     \* the files and the exit code of the tool

pipelineVars == <<command, device, stageNo, phase, diag, reported, staged, output, log,
                  result, returned, written>>

Stages == Pipelines[command]
Stage  == Stages[stageNo]
IsTokenStage == stageNo <= Len(Stages) /\ Stage \in TokenStages
IsAstStage   == stageNo <= Len(Stages) /\ Stage \in AstStages

PipelineInit ==
    /\ command \in DOMAIN Pipelines
    /\ device \in BOOLEAN
    /\ stageNo = 1
    /\ phase = "ready"
    /\ diag = NewClient(FALSE, <<>>)
    /\ reported = <<>>
    /\ \E source \in {Original, Empty}, given \in SUBSET Headers :
          staged = [source |-> source, headers |-> [h \in given |-> Original]]
    /\ output = [normalized |-> NoOutput, kernel |-> NoOutput, launcher |-> NoOutput]
    /\ log = <<>>
    /\ result = "none"
    /\ returned = <<>>
    /\ written = [files |-> {}, exit |-> -1]

inputVars == <<command, device>>

-----------------------------------------------------------------------------
(* runStageAction, before clang runs.                                      *)

RejectEmptySource ==
    /\ phase = "ready" /\ result = "none"
    /\ stageNo <= Len(Stages)
    /\ staged.source = Empty
    /\ result' = "failed"
    /\ returned' = <<"empty source">>
    /\ phase' = "stopped"
    /\ UNCHANGED <<inputVars, stageNo, diag, reported, staged, output, log, written>>

\* std::map::merge adds the entries whose keys are not there yet.
Merged(map, others) ==
    [k \in DOMAIN map \cup DOMAIN others |-> IF k \in DOMAIN map THEN map[k] ELSE others[k]]

\* addInstrinsicStub puts an empty header among the staged ones, unless it is
\* there already.
WithStub(headers) == Merged(headers, [h \in {Stub} |-> Original])

StartStage ==
    /\ phase = "ready" /\ result = "none"
    /\ stageNo <= Len(Stages)
    /\ staged.source # Empty
    /\ staged' = [staged EXCEPT !.headers = WithStub(@)]
    /\ phase' = "lexing"
    /\ UNCHANGED <<inputVars, stageNo, diag, reported, output, log, result, returned, written>>

-----------------------------------------------------------------------------
(* The texts that a stage leaves.                                          *)

\* What the stage reads: its own staged copy, or the file.
HeaderText(h) == IF h \in DOMAIN staged.headers THEN staged.headers[h] ELSE Original

\* getRewriterResultForMainFile: a rewrite buffer with nothing left in it
\* counts as one that was not touched.
MainResult(edits, by) ==
    IF edits["main"] = "edited" THEN Append(staged.source, by) ELSE staged.source

\* getRewriterResultForHeaders: only the headers that have a buffer.
HeaderResults(edits, by) ==
    [h \in {h \in Headers : edits[h] # "kept"} |->
        IF edits[h] = "emptied" \/ HeaderText(h) = Empty THEN Empty ELSE Append(HeaderText(h), by)]

\* Mutant: std::map::merge keeps what is there, and is called the other way.
StagedHeadersWin(edits, by, headers) == Merged(headers, HeaderResults(edits, by))

MergedHeaders(edits, by, headers) == Merged(HeaderResults(edits, by), headers)

\* EndSourceFileAction: nothing is put out once there are errors.
EndSourceFile(edits, by, headers) ==
    IF diag.errors # <<>> THEN output.normalized
    ELSE [source |-> MainResult(edits, by), headers |-> MergedHeaders(edits, by, headers)]

EndStage(edits) ==
    /\ phase' = "ended"
    /\ log' = Append(log, edits)

-----------------------------------------------------------------------------
(* The stages that work on the tokens.  They are done in                   *)
(* BeginSourceFileAction; then CreateASTConsumer calls EndSourceFileAction *)
(* and returns no consumer, so that clang does not parse.                  *)

\* The preprocessor reports an error, to clang's own client.
ReportToClang ==
    /\ phase = "lexing" /\ IsTokenStage
    /\ diag.numErrors = 0
    /\ diag' = [diag EXCEPT !.numErrors = @ + 1]
    /\ UNCHANGED <<inputVars, stageNo, phase, reported, staged, output, log, result, returned, written>>

\* "no tokens in source?", or the attributes could not be traversed.
RejectTokens ==
    /\ phase = "lexing" /\ Stage \in {"directives", "to gnu"}
    /\ diag' = [diag EXCEPT !.errors = Append(@, "stage")]
    /\ phase' = "ended"
    /\ UNCHANGED <<inputVars, stageNo, reported, staged, output, log, result, returned, written>>

EditTokens ==
    /\ phase = "lexing" /\ IsTokenStage
    /\ \E edits \in StageEdits :
          /\ output' = [output EXCEPT !.normalized = EndSourceFile(edits, Stage, staged.headers)]
          /\ EndStage(edits)
    /\ UNCHANGED <<inputVars, stageNo, diag, reported, staged, result, returned, written>>

-----------------------------------------------------------------------------
(* The stages that work on the AST.                                        *)

\* CreateASTConsumer.
InstallConsumer ==
    /\ phase = "lexing" /\ IsAstStage
    /\ diag' = NewClient(TRUE, diag.errors)
    /\ phase' = "parsing"
    /\ UNCHANGED <<inputVars, stageNo, reported, staged, output, log, result, returned, written>>

\* A note belongs to the diagnostic before it.
ReportDiagnostic ==
    /\ phase = "parsing"
    /\ Len(reported) < MaxDiags
    /\ \E d \in Diags :
          /\ reported = <<>> => d.level # "note"
          /\ diag' = Report(diag, d)
          /\ reported' = Append(reported, d)
    /\ UNCHANGED <<inputVars, stageNo, phase, staged, output, log, result, returned, written>>

\* clang hands over the translation unit even after errors.
NormalizeToStd ==
    /\ phase = "parsing" /\ Stage = "to std"
    /\ \E edits \in StageEdits :
          /\ output' = [output EXCEPT !.normalized = EndSourceFile(edits, Stage, staged.headers)]
          /\ EndStage(edits)
    /\ UNCHANGED <<inputVars, stageNo, diag, reported, staged, result, returned, written>>

\* The first pass fails, in the walk or in a handler.
TranspilationFails ==
    /\ phase = "parsing" /\ Stage = "transpilation"
    /\ diag' = [diag EXCEPT !.errors = Append(@, "stage")]
    /\ phase' = "ended"
    /\ UNCHANGED <<inputVars, stageNo, reported, staged, output, log, result, returned, written>>

\* Mutant: gatherTransformedFiles merges the staged headers themselves, and
\* merge moves them.
HeadersNotMerged(edits) ==
    [h \in DOMAIN staged.headers \cap {h \in Headers : edits[h] # "kept"} |-> staged.headers[h]]

\* gatherTransformedFiles merges a clone of the staged headers, "to preserve
\* them for possible laucher generator".
HeadersLeft(edits) == staged.headers

\* fuseIncludeDeps.
Fused(edits, by, headers) ==
    [source |-> MainResult(edits, by), headers |-> MergedHeaders(edits, by, headers)]

\* HandleTranslationUnit.  For a device there is a second pass, with a
\* rewriter of its own (setLauncherMode), which is the one that
\* EndSourceFileAction asks.  That pass may fail: it has no output then, and
\* nobody is told.
Transpile ==
    /\ phase = "parsing" /\ Stage = "transpilation"
    /\ \E edits, launcherEdits \in StageEdits, launcherFails \in BOOLEAN :
          LET headers == HeadersLeft(edits)
              kernel  == Fused(edits, "kernel", staged.headers)
          IN  IF device
              THEN /\ output' =
                        [kernel     |-> kernel,
                         launcher   |-> IF launcherFails THEN output.launcher
                                        ELSE Fused(launcherEdits, "launcher", headers),
                         normalized |-> EndSourceFile(launcherEdits, "launcher", headers)]
                   /\ EndStage(launcherEdits)
              ELSE /\ output' = [output EXCEPT !.kernel = kernel,
                                               !.normalized = EndSourceFile(edits, "kernel", headers)]
                   /\ EndStage(edits)
    /\ UNCHANGED <<inputVars, stageNo, diag, reported, staged, result, returned, written>>

-----------------------------------------------------------------------------
(* runStageAction, after clang has run, and the loop of runPipeline.       *)

\* Mutant: the client's count is not looked at.
SessionErrorsOnly == diag.errors # <<>>

StageFailed == diag.numErrors > 0 \/ diag.errors # <<>>

\* The errors are moved out of the session; there may be none.
FailStage ==
    /\ phase = "ended"
    /\ StageFailed
    /\ result' = "failed"
    /\ returned' = diag.errors
    /\ phase' = "stopped"
    /\ UNCHANGED <<inputVars, stageNo, diag, reported, staged, output, log, written>>

\* updateSourceHeaders.  The client goes with the compiler of the stage.
FinishStage ==
    /\ phase = "ended"
    /\ ~StageFailed
    /\ staged' = output.normalized
    /\ stageNo' = stageNo + 1
    /\ diag' = NewClient(FALSE, <<>>)
    /\ reported' = <<>>
    /\ phase' = "ready"
    /\ UNCHANGED <<inputVars, output, log, result, returned, written>>

\* Mutant: one stage too many is waited for.
NoStageIsLast == stageNo > Len(Stages) + 1

NoStageLeft == stageNo > Len(Stages)

FinishPipeline ==
    /\ phase = "ready" /\ result = "none"
    /\ NoStageLeft
    /\ result' = "ok"
    /\ phase' = "stopped"
    /\ UNCHANGED <<inputVars, stageNo, diag, reported, staged, output, log, returned, written>>

\* main: a failed transpilation exits with 0, and an empty launcher is not
\* written.
WriteFiles ==
    /\ phase = "stopped"
    /\ written' =
          [files |-> IF result = "failed" THEN {}
                     ELSE IF command = "normalize" THEN {"normalized"}
                     ELSE {"kernel", "kernel metadata"}
                             \cup (IF output.launcher = NoOutput THEN {}
                                   ELSE {"launcher", "launcher metadata"}),
           exit  |-> IF result = "failed" /\ command = "normalize" THEN 1 ELSE 0]
    /\ phase' = "written"
    /\ UNCHANGED <<inputVars, stageNo, diag, reported, staged, output, log, result, returned>>

PipelineNext ==
    \/ RejectEmptySource \/ StartStage
    \/ ReportToClang \/ RejectTokens \/ EditTokens
    \/ InstallConsumer \/ ReportDiagnostic
    \/ NormalizeToStd \/ TranspilationFails \/ Transpile
    \/ FailStage \/ FinishStage \/ FinishPipeline \/ WriteFiles

\* One thread runs the stages to their end.
PipelineSpec == PipelineInit /\ [][PipelineNext]_pipelineVars /\ WF_pipelineVars(PipelineNext)

-----------------------------------------------------------------------------
(* What has to hold.                                                       *)

\* A stage that succeeds has not lost an error: whatever clang reported first
\* in the stage, or right after a diagnostic that counts, is recorded and
\* fails the stage.  (An error right after a note or after an error that a
\* handler took may be lost.)
ErrorsAreRecorded ==
    phase = "ended" /\ ~StageFailed =>
        \A i \in DOMAIN reported :
            Accepted(reported[i]) /\ reported[i].level = "error" =>
                i > 1 /\ ~Accepted(reported[i - 1])

\* "Accept only Warning, Error and Fatal": an error that no handler takes is
\* accepted, and the stage fails.
AcceptedErrorsFailTheStage ==
    phase = "ended" /\ ~StageFailed =>
        ~\E i \in DOMAIN reported : Accepted(reported[i]) /\ reported[i].level = "error"

\* A failure comes with an error that says why, unless it is an error that
\* the preprocessor told clang's own client in one of the stages that work on
\* the tokens.
FailureExplained ==
    result = "failed" /\ returned = <<>> => ~diag.isConsumer /\ Stage \in TokenStages

\* The stages so far that have edited file f.
EditedBy(f) ==
    LET by[n \in 0..Len(log)] ==
            IF n = 0 THEN Original
            ELSE IF log[n][f] = "edited" THEN Append(by[n - 1], Stages[n]) ELSE by[n - 1]
    IN  by[Len(log)]

\* A stage works on what all the stages before it have left, of the main file
\* and of each header, whether the user passed its text or clang found the
\* file.
EditsAccumulate ==
    phase = "ready" /\ stageNo <= Len(Stages) /\ staged.source # Empty =>
        /\ staged.source = EditedBy("main")
        /\ \A h \in Headers :
              HeaderText(h) = IF \E i \in DOMAIN log : log[i][h] = "emptied" THEN Empty
                              ELSE EditedBy(h)

\* The text without the edit of the last pass.
Input(text, by) == IF text # <<>> /\ Last(text) = by THEN Front(text) ELSE text

\* Header h as the preprocessor of the fused text finds it.
FusedHeader(text, h) == IF h \in DOMAIN text.headers THEN text.headers[h] ELSE Original

\* The two texts come from one, if a pass has not emptied it.
SameInput(kernel, launcher) ==
    Empty \in {kernel, launcher} \/ Input(kernel, "kernel") = Input(launcher, "launcher")

\* Kernel and launcher are made of the same files, those that the stages
\* before have left.
LauncherSeesKernelFiles ==
    output.launcher # NoOutput =>
        /\ SameInput(output.kernel.source, output.launcher.source)
        /\ \A h \in Headers :
              SameInput(FusedHeader(output.kernel, h), FusedHeader(output.launcher, h))

\* The tool comes to an end, whatever clang reports.
Terminates == <>(phase = "written")

\* The pipeline keeps the promise of TranspilerPromise.
Promise == INSTANCE TranspilerPromise WITH
    stages     <- Len(Stages),
    applied    <- stageNo - 1,
    trouble    <- diag.numErrors > 0 \/ diag.errors # <<>> \/ staged.source = Empty \/ result = "failed",
    result     <- result

KeepsPromise == Promise!PromiseSpec
=============================================================================
