----------------------------- MODULE ProviderCall -----------------------------
(***************************************************************************)
(* One prompt sent to the providers: RunExecutionService tries the         *)
(* candidates in turn, each call in a pool of one thread under a timer, or *)
(* streams from one provider; ProviderHttpTransport retries a connection.  *)
(***************************************************************************)
EXTENDS Providers

CONSTANTS
  Fallbacks,    \* provider_fallback_order, a sequence of names
  MaxRetries,   \* retries of a connection (2 in the code)
  MaxChunks     \* bound: chunks of a streamed answer

ASSUME RetriesAssumption == MaxRetries \in Nat

VARIABLES
  settings,     \* providers configured, the default one, whether failover is enabled
  call,         \* what was asked, the candidates left and the place reached
  thread,       \* the thread that talks to a provider: parts of the answer so far
  output,       \* what the caller received
  answers,      \* whole answers that providers gave
  expirations,  \* timers that expired
  prompted      \* providers that received the prompt

provider_vars == <<settings, call, thread, output, answers, expirations, prompted>>

-----------------------------------------------------------------------------
resolve_provider_name(asked) == IF asked = NoProvider THEN settings.default ELSE asked

\* A provider that is asked for by name is the only candidate.
provider_candidates(asked) ==
  LET primary == resolve_provider_name(asked)
      others == SelectSeq(Fallbacks, LAMBDA p : p # primary)
      rest == SelectSeq(list_provider_capabilities(settings.configured),
                        LAMBDA p : p \notin Range(<<primary>> \o others)) IN
  IF asked # NoProvider \/ ~settings.failover THEN <<primary>> ELSE <<primary>> \o others \o rest

Quiet == [pc |-> "idle", provider |-> NoProvider, attempt |-> 0, parts |-> <<>>]
submitted(provider) == [Quiet EXCEPT !.pc = "connecting", !.provider = provider]
transport == IF call.mode = "stream" THEN capabilities[thread.provider].stream
             ELSE capabilities[thread.provider].complete

ProviderInit(choices) ==
  /\ settings \in choices
  /\ call = [pc |-> "idle", mode |-> "complete", asked |-> NoProvider, left |-> <<>>]
  /\ thread = Quiet /\ output = <<>> /\ answers = 0 /\ expirations = 0 /\ prompted = {}

-----------------------------------------------------------------------------
(* The caller *)

\* A stream has no failover and no timer: it is raised at once when its provider is missing.
Prompt ==
  /\ call.pc = "idle"
  /\ \E asked \in {NoProvider} \cup KnownProviders : \E mode \in {"complete", "stream"} :
       LET name == resolve_provider_name(asked)
           pc == IF mode = "complete" THEN "choosing"
                 ELSE IF name \in settings.configured THEN "streaming" ELSE "raised" IN
       /\ call' = [pc |-> pc, mode |-> mode, asked |-> asked,
                   left |-> IF mode = "complete" THEN provider_candidates(asked) ELSE <<>>]
       /\ thread' = IF pc = "streaming" THEN submitted(name) ELSE Quiet
  /\ UNCHANGED <<settings, output, answers, expirations, prompted>>

TryNext ==
  /\ call.pc = "choosing"
  /\ IF call.left # <<>> /\ Head(call.left) \in settings.configured
     THEN thread' = submitted(Head(call.left)) /\ call' = [call EXCEPT !.pc = "waiting", !.left = Tail(@)]
     ELSE /\ call' = IF call.left = <<>> THEN [call EXCEPT !.pc = "raised"] ELSE [call EXCEPT !.left = Tail(@)]
          /\ UNCHANGED thread
  /\ UNCHANGED <<settings, output, answers, expirations, prompted>>

Finished == {"ended", "failed"}

\* The timer gives the answer up, but the pool is left only when its thread is done.
Expire ==
  /\ call.pc = "waiting" /\ thread.pc \notin Finished
  /\ call' = [call EXCEPT !.pc = "expired"]
  /\ expirations' = expirations + 1
  /\ UNCHANGED <<settings, thread, output, answers, prompted>>

Return ==
  /\ call.pc \in {"waiting", "streaming"} /\ thread.pc = "ended"
  /\ call' = [call EXCEPT !.pc = "returned"]
  /\ output' = thread.parts
  /\ UNCHANGED <<settings, thread, answers, expirations, prompted>>

GiveUp ==
  /\ \/ call.pc = "waiting" /\ thread.pc = "failed"
     \/ call.pc = "expired" /\ thread.pc \in Finished
     \/ call.pc = "streaming" /\ thread.pc = "failed"
  /\ call' = [call EXCEPT !.pc = IF call.mode = "stream" THEN "raised" ELSE "choosing"]
  /\ thread' = Quiet
  /\ UNCHANGED <<settings, output, answers, expirations, prompted>>

-----------------------------------------------------------------------------
(* The thread *)

\* The echo, or a document: complete hands it over whole, and so does a stream made of it.
Answer ==
  /\ thread.pc = "connecting" /\ transport \in {"echo", "json"}
  /\ thread' = [thread EXCEPT !.pc = "ended", !.parts = <<<<thread.provider, thread.attempt, 1>>>>]
  /\ answers' = answers + 1
  /\ prompted' = prompted \cup {thread.provider}
  /\ UNCHANGED <<settings, call, output, expirations>>

Open ==
  /\ thread.pc = "connecting" /\ transport = "events"
  /\ thread' = [thread EXCEPT !.pc = "reading"]
  /\ prompted' = prompted \cup {thread.provider}
  /\ UNCHANGED <<settings, call, output, answers, expirations>>

Chunk ==
  LET part == <<thread.provider, thread.attempt, Len(thread.parts) + 1>> IN
  /\ thread.pc = "reading" /\ Len(thread.parts) < MaxChunks
  /\ thread' = [thread EXCEPT !.parts = Append(@, part)]
  /\ output' = IF call.mode = "stream" THEN Append(output, part) ELSE output
  /\ UNCHANGED <<settings, call, answers, expirations, prompted>>

\* [DONE], or a connection that ends early, which is not told apart.
EndOfStream ==
  /\ thread.pc = "reading"
  /\ thread' = [thread EXCEPT !.pc = "ended"]
  /\ \E whole \in BOOLEAN : answers' = IF whole THEN answers + 1 ELSE answers
  /\ UNCHANGED <<settings, call, output, expirations, prompted>>

\* URLError and HTTP 5xx are tried again; HTTP 4xx, a connection lost while the answer is
\* read and an answer that cannot be parsed are not.
retried_Lost(error) == error \in {"unreachable", "http_5xx", "lost"}
retried(error) == error \in {"unreachable", "http_5xx"}
CallError ==
  /\ thread.pc \in {"connecting", "reading"} /\ transport # "echo"
  /\ \E error \in {"unreachable", "http_5xx", "http_4xx", "lost"} :
       /\ thread.pc = "reading" => error = "lost"
       /\ thread' = IF retried(error) /\ thread.attempt < MaxRetries
                    THEN [thread EXCEPT !.pc = "connecting", !.attempt = @ + 1]
                    ELSE [thread EXCEPT !.pc = "failed"]
       /\ prompted' = IF error = "unreachable" THEN prompted ELSE prompted \cup {thread.provider}
  /\ UNCHANGED <<settings, call, output, answers, expirations>>

ProviderNext ==
  \/ Prompt \/ TryNext \/ Expire \/ Return \/ GiveUp
  \/ Answer \/ Open \/ Chunk \/ EndOfStream \/ CallError

-----------------------------------------------------------------------------
(* Properties *)

\* What a caller receives, streamed or whole, comes from a single attempt at a single
\* provider; the providers give more than one whole answer to a prompt only where a timer
\* expired; and a prompt for a named provider goes to no other
\* (_complete_with_failover, _run_complete_with_timeout, stream_sse_json).
OneAnswerPerCall ==
  /\ \A n \in DOMAIN output : output[n] = <<output[1][1], output[1][2], n>>
  /\ answers <= 1 + expirations
  /\ call.asked # NoProvider => prompted \subseteq {call.asked}
=============================================================================
