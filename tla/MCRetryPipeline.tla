--------------------------- MODULE MCRetryPipeline ---------------------------
(* Instances of RetryPipeline: "o" takes the OpenAI path, "a" the other. *)
EXTENDS RetryPipeline

MixedFormat == [r \in Requests |-> IF r = "o" THEN "openai" ELSE "anthropic"]
==============================================================================
