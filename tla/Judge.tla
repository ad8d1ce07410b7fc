-------------------------------- MODULE Judge --------------------------------
(***************************************************************************)
(* The judge (backend/soj_backend/judge.py), the image checks it uses      *)
(* (image_validation.py) and the choice of the image to show               *)
(* (artifact_display.py): pure operators.                                  *)
(*                                                                         *)
(* A text is a sequence of characters, of which only "CR", "LF" and "SP"   *)
(* are special.  An image file is a record of what the checks tell apart:  *)
(* the media type its first and last bytes look like (outer), the format   *)
(* the decoder finds (format), whether all frames stay within              *)
(* MAX_DECODED_IMAGE_PIXELS (small), and size and frames (pixels).         *)
(***************************************************************************)
EXTENDS Integers, Sequences, FiniteSets

CONSTANT None  \* no artifact, no pixels, no exit code, no reason, no problem

JudgeVerdicts == {"accepted", "wrong_answer", "wrong_image", "wrong_text_and_image",
                  "execution_failure", "judge_error"}
JudgeReasons  == {"output_mismatch", "image_mismatch", "output_and_image_mismatch",
                  "artifact_missing", "artifact_path_mismatch", "artifact_media_type_mismatch",
                  "artifact_invalid", "non_zero_exit", "stderr_not_empty", "timed_out",
                  "output_truncated", "execution_error", "invalid_problem_id", "problem_not_found"}
JudgeResults  == [verdict : JudgeVerdicts, reason : JudgeReasons \cup {None}]

\* None, Python's, is no exit code, no reason and no result.
ASSUME NoneAssumption == None \notin Int /\ None \notin JudgeReasons /\ None \notin JudgeResults

Judgment(verdict, why) == [verdict |-> verdict, reason |-> why]

\* value.replace("\r", ""): the k-th character that stays, for each k.
Kept(text) == {i \in 1..Len(text) : text[i] # "CR"}
Rank(text, i) == Cardinality({j \in Kept(text) : j <= i})
WithoutCR(text) ==
    [k \in 1..Cardinality(Kept(text)) |-> text[CHOOSE i \in Kept(text) : Rank(text, i) = k]]

Blanks == {"SP", "LF"}
\* The last position that rstrip leaves.
LastKept(body) ==
    LET dark == {i \in 1..Len(body) : body[i] \notin Blanks}
    IN CHOOSE n \in dark \cup {0} : \A i \in dark : i <= n

\* normalize_text_output
NormalizeText(text) == SubSeq(WithoutCR(text), 1, LastKept(WithoutCR(text)))

\* mutant: the exit code is not looked at.
FlagsOnly(spec, execution) ==
    IF execution.timed_out THEN Judgment("execution_failure", "timed_out")
    ELSE IF execution.truncated THEN Judgment("execution_failure", "output_truncated")
    ELSE None

\* _execution_policy_failure: the flags before the problem's policies.
PolicyFailure(spec, execution) ==
    IF execution.timed_out THEN Judgment("execution_failure", "timed_out")
    ELSE IF execution.truncated THEN Judgment("execution_failure", "output_truncated")
    ELSE IF spec.exit_code = "zero" /\ execution.exit_code # 0
         THEN Judgment("execution_failure", "non_zero_exit")
    ELSE IF spec.stderr = "must_be_empty" /\ execution.stderr # <<>>
         THEN Judgment("execution_failure", "stderr_not_empty")
    ELSE None

JudgeText(spec, execution) ==
    LET actual == execution.stdout \o (IF spec.stderr = "merge" THEN execution.stderr ELSE <<>>)
    IN IF NormalizeText(actual) = NormalizeText(spec.expected)
       THEN Judgment("accepted", None)
       ELSE Judgment("wrong_answer", "output_mismatch")

MatchesMediaType(file, media) == file.outer = media

DecodePixels(file, media) ==
    IF file.format = media /\ file.small THEN file.pixels ELSE None

JudgeImage(spec, artifact) ==
    LET Wrong(why) == Judgment("wrong_image", why)
    IN IF artifact = None THEN Wrong("artifact_missing")
       ELSE IF artifact.path # spec.path THEN Wrong("artifact_path_mismatch")
       ELSE IF artifact.media # spec.media THEN Wrong("artifact_media_type_mismatch")
       ELSE IF \/ ~MatchesMediaType(artifact.file, spec.media)
               \/ DecodePixels(artifact.file, spec.media) = None
               \/ DecodePixels(spec.expected, spec.media) = None
            THEN Wrong("artifact_invalid")
       ELSE IF DecodePixels(artifact.file, spec.media) = DecodePixels(spec.expected, spec.media)
            THEN Judgment("accepted", None)
            ELSE Wrong("image_mismatch")

\* mutant: a failed execution is judged like any other.
ErrorsJudged(execution) == FALSE
ExecutionFailed(execution) == execution.status = "ERROR"

\* ShellgeiJudge.judge: an unknown exit code is passed on as 0.
JudgeExecution(spec, execution) ==
    LET input == [execution EXCEPT !.exit_code = IF @ = None THEN 0 ELSE @]
        failure == PolicyFailure(spec, input)
    IN IF spec = None THEN Judgment("judge_error", "problem_not_found")
       ELSE IF ExecutionFailed(execution) THEN Judgment("execution_failure", "execution_error")
       ELSE IF spec.type = "text" THEN IF failure # None THEN failure ELSE JudgeText(spec, input)
       ELSE IF failure # None THEN failure
       ELSE JudgeImage(spec, execution.artifact)

\* select_display_artifact: the GIF only if it can be decoded.
SelectDisplayArtifact(execution) ==
    LET gif == execution.display
    IN IF gif # None /\ MatchesMediaType(gif.file, "gif") /\ DecodePixels(gif.file, "gif") # None
       THEN gif ELSE execution.artifact
=============================================================================
