-------------------------------- MODULE Generation --------------------------------
(* One call of generate_structured (memme-llm generate.rs) on one of the four providers     *)
(* (openai.rs, anthropic.rs, gemini.rs, ollama.rs): the provider asks its endpoint again     *)
(* after a failure that may pass, the call asks the provider again, with what was wrong,     *)
(* after a completion that its caller cannot parse.  Waiting between attempts, temperatures   *)
(* and the wording of messages are left out.                                                  *)
EXTENDS Naturals, Sequences

CONSTANTS
    MaxRetries,   \* max_retries of StructuredGenConfig
    Attempts      \* the attempts of a provider

ASSUME GenerationAssumption == MaxRetries \in Nat /\ Attempts \in Nat \ {0}

VARIABLES
    provider,   \* which of the providers is asked
    asking,     \* how far the call has come: idle, sent, judge (a completion is with its caller), done
    round,      \* completions asked of the provider before this one
    attempt,    \* requests made for this completion
    talk,       \* the conversation: the roles of what follows the caller's own messages
    ending,     \* how the call has ended
    requests,   \* history: requests made
    rejections  \* history: completions that the caller could not parse

genVars == <<provider, asking, round, attempt, talk, ending, requests, rejections>>

Kinds == {"openai", "anthropic", "gemini", "ollama"}

\* What a request meets: a completion, a success without one, a body that breaks off, a limit, a fault of
\* the server, no connection or no answer in time, a bad key, a 400 for its length, for its content or for
\* something else, any other 4xx.
Answers == {"text", "junk", "torn", "limited", "down", "lost", "denied", "long", "filtered", "bad", "other"}

GenInit ==
    /\ provider \in Kinds
    /\ asking = "idle" /\ round = 0 /\ attempt = 0 /\ talk = <<>> /\ ending = "none"
    /\ requests = 0 /\ rejections = 0

--------------------------------------------------------------------------------
(* What the providers make of an answer: the content, an error to try again after, or one to return *)

\* The answers whose error each provider returns at once.  A success without content is tried again by
\* all; a torn one is only by Ollama's, for which any 4xx is final, a limit as well.
OpenAIFinal == {"torn", "denied", "long", "filtered"}
AnthropicFinal == {"torn", "denied", "long"}
GeminiFinal == {"torn", "denied", "long", "filtered", "bad"}
OllamaFinal == {"limited", "denied", "long", "filtered", "bad", "other"}

Final ==
    CASE provider = "openai" -> OpenAIFinal
      [] provider = "anthropic" -> AnthropicFinal
      [] provider = "gemini" -> GeminiFinal
      [] provider = "ollama" -> OllamaFinal

Verdict(answer) == IF answer = "text" THEN "content" ELSE IF answer \in Final THEN "error" ELSE "again"

Ended(how) == asking' = "done" /\ ending' = how

--------------------------------------------------------------------------------
(* The steps *)

GenerateStart ==
    /\ asking = "idle"
    /\ asking' = "sent" /\ attempt' = 1 /\ requests' = 1
    /\ UNCHANGED <<provider, round, talk, ending, rejections>>

\* Mutant: the call tries again after the errors of its provider as well.
RetryAll ==
    /\ asking = "sent"
    /\ \E answer \in Answers :
        \/ /\ Verdict(answer) = "content"
           /\ asking' = "judge"
           /\ UNCHANGED <<round, attempt, ending, requests>>
        \/ /\ Verdict(answer) = "again" /\ attempt < Attempts
           /\ attempt' = attempt + 1 /\ requests' = requests + 1
           /\ UNCHANGED <<asking, round, ending>>
        \/ /\ Verdict(answer) = "error" \/ (Verdict(answer) = "again" /\ attempt = Attempts)
           /\ IF round < MaxRetries
              THEN round' = round + 1 /\ attempt' = 1 /\ requests' = requests + 1 /\ UNCHANGED <<asking, ending>>
              ELSE Ended("failed") /\ UNCHANGED <<round, attempt, requests>>
    /\ UNCHANGED <<provider, talk, rejections>>

\* The provider's loop: a failure that may pass is tried again until the attempts are used up.
ProviderAnswer ==
    /\ asking = "sent"
    /\ \E answer \in Answers :
        \/ /\ Verdict(answer) = "content"
           /\ asking' = "judge"
           /\ UNCHANGED <<attempt, ending, requests>>
        \/ /\ Verdict(answer) = "again" /\ attempt < Attempts
           /\ attempt' = attempt + 1 /\ requests' = requests + 1
           /\ UNCHANGED <<asking, ending>>
        \/ /\ Verdict(answer) = "error" \/ (Verdict(answer) = "again" /\ attempt = Attempts)
           /\ Ended("failed")
           /\ UNCHANGED <<attempt, requests>>
    /\ UNCHANGED <<provider, round, talk, rejections>>

Accept == asking = "judge" /\ Ended("parsed") /\ UNCHANGED <<provider, round, attempt, talk, requests, rejections>>

\* A completion that its caller cannot parse joins the conversation with its error, and the model is
\* asked again; the last one ends the call.
Reject ==
    /\ asking = "judge"
    /\ rejections' = rejections + 1
    /\ IF round < MaxRetries
       THEN /\ talk' = talk \o <<"assistant", "user">>
            /\ round' = round + 1 /\ attempt' = 1 /\ requests' = requests + 1
            /\ asking' = "sent" /\ UNCHANGED ending
       ELSE Ended("unparsed") /\ UNCHANGED <<talk, round, attempt, requests>>
    /\ UNCHANGED provider

GenNext == GenerateStart \/ ProviderAnswer \/ Accept \/ Reject

GenSpec == GenInit /\ [][GenNext]_genVars

--------------------------------------------------------------------------------
(* Properties *)

\* "Network/transport errors are not retried here - each LlmProvider already has its own retry loop"
\* (generate.rs:56): the two loops do not multiply.  Only a completion that was rejected buys another
\* round of attempts, and the model is told of the rejected ones and of nothing else, in turns.
RetriesDoNotMultiply ==
    /\ requests <= Attempts * (1 + rejections)
    /\ rejections <= MaxRetries + 1
    /\ asking = "sent" => Len(talk) = 2 * rejections
    /\ ending = "unparsed" => rejections = MaxRetries + 1
================================================================================
