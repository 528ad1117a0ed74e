------------------------- MODULE ErrorClassification -------------------------
(***************************************************************************)
(* What the worker makes of an error (src/worker/analyze-job-error.ts and  *)
(* classifyBedrockError of src/ai/bedrock-ocr.ts): retryable, or permanent *)
(* with a failure code.                                                    *)
(*                                                                         *)
(* An error is its name and its code; the classes of the program carry     *)
(* their own name.  Of the errors that are treated alike the sets below    *)
(* hold one or two.                                                        *)
(***************************************************************************)

NoCode == "no code"

Err(name, code) == [name |-> name, code |-> code]

\* The rejections of a call whose signal was aborted.
Aborts == {Err("AbortError", NoCode), Err("Error", "ABORT_ERR")}

\* Errors of the network and of the credentials, which the SDK passes on.
Transient == {Err("Error", "ECONNRESET"), Err("Error", "ENOTFOUND"),
              Err("CredentialsProviderError", NoCode)}

\* Answers of Bedrock: it is busy, or it refuses this request.
Busy == {Err("ThrottlingException", NoCode), Err("ServiceUnavailableException", NoCode)}
Refusals == {Err("ValidationException", NoCode), Err("AccessDeniedException", NoCode)}

\* What is wrong with the image or with what was recognised.
BadSource == {Err("ObjectNotFoundError", NoCode), Err("InvalidSourceObjectError", NoCode)}
BadOcr == {Err("InvalidOcrImageError", NoCode), Err("InvalidOcrResponseError", NoCode)}

\* What saving may fail with: the claim is lost, or PostgreSQL reports a code.
DatabaseErrors == {Err("ProcessingClaimLostError", NoCode), Err("error", "57014")}

NoError == Err("none", NoCode)

Errors == Aborts \union Transient \union Busy \union Refusals
            \union BadSource \union BadOcr \union DatabaseErrors

\* What each stage of the handler may fail with, besides Aborts.
Raised == [
  objectStore |-> BadSource \union Transient,
  ocr |-> BadOcr \union Busy \union Refusals \union Transient,
  database |-> DatabaseErrors]

Stages == DOMAIN Raised

-----------------------------------------------------------------------------
IsAbortError(e) == e.name = "AbortError" \/ e.code = "ABORT_ERR"

RetryableCodes ==
  {"ThrottlingException", "ServiceUnavailableException", "InternalServerException",
   "ModelTimeoutException", "ModelNotReadyException", "ModelErrorException",
   "ServiceQuotaExceededException", "TimeoutError",
   "ECONNRESET", "ECONNREFUSED", "ETIMEDOUT"}

\* Neither its name nor its code is one of those: not retryable, known or not.
ClassifyBedrockError(e) ==
  IF {e.name, e.code} \intersect RetryableCodes # {} THEN "RETRYABLE" ELSE "NON_RETRYABLE"

Retryable == "RETRYABLE"

ClassifyByStage(stage, e) ==
  CASE e.name = "ObjectNotFoundError" /\ stage = "objectStore" -> "SOURCE_OBJECT_NOT_FOUND"
    [] e.name = "InvalidSourceObjectError" /\ stage = "objectStore" -> "SOURCE_OBJECT_INVALID"
    [] e.name = "InvalidOcrImageError" /\ stage = "ocr" -> "UNSUPPORTED_IMAGE"
    [] e.name = "InvalidOcrResponseError" /\ stage = "ocr" -> "INVALID_OCR_RESPONSE"
    [] e \notin BadOcr /\ stage = "ocr" /\ ClassifyBedrockError(e) # Retryable ->
         "OCR_NON_RETRYABLE"
    [] OTHER -> Retryable

\* Retryable, or the failure code of a permanent error.
ClassifyAnalyzeJobError(stage, e) ==
  IF IsAbortError(e) THEN Retryable ELSE ClassifyByStage(stage, e)
=============================================================================
