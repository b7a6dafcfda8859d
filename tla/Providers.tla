------------------------------- MODULE Providers -------------------------------
(***************************************************************************)
(* The language-model providers: what each can do, how it is called, which *)
(* of them the settings make ready, and which is the default.              *)
(***************************************************************************)
EXTENDS Integers, Sequences, FiniteSets, FiniteSetsExt, SequencesExt

NoProvider == ""

\* context in tokens, tiers of quality, speed and cost, and how complete and stream call it:
\* an answer in one JSON document, a stream of events, or the echo, which calls nobody.
Row(hint, context, quality, speed, cost, complete, stream) ==
  [model_hint |-> hint, context |-> context, quality |-> quality, speed |-> speed, cost |-> cost,
   complete |-> complete, stream |-> stream]
LocalEchoProvider == Row("local_echo", 32000, 1, 5, 1, "echo", "echo")
OpenAIChatCompletionsProvider == Row("gpt", 128000, 5, 4, 4, "json", "events")
CodexSidecarProvider == Row("codex", 128000, 4, 3, 2, "json", "events")
CodexOAuthExperimentalProvider == Row("codex", 128000, 4, 3, 2, "events", "events")
AnthropicMessagesProvider == Row("claude", 200000, 5, 3, 4, "json", "json")
GeminiGenerateContentProvider == Row("gemini", 1000000, 4, 4, 3, "json", "json")

capabilities ==
  [local_echo |-> LocalEchoProvider, openai |-> OpenAIChatCompletionsProvider,
   codex_sidecar |-> CodexSidecarProvider, codex_oauth_experimental |-> CodexOAuthExperimentalProvider,
   anthropic |-> AnthropicMessagesProvider, gemini |-> GeminiGenerateContentProvider]
KnownProviders == DOMAIN capabilities
by_name == <<"anthropic", "codex_oauth_experimental", "codex_sidecar", "gemini", "local_echo", "openai">>

\* The echo is always there; another provider when its secrets are set.
configured_providers(secrets) == {"local_echo"} \cup secrets
list_provider_capabilities(configured) == SelectSeq(by_name, LAMBDA name : name \in configured)

\* A stored preference counts when it is configured; the default of the environment always.
resolve_default_provider(configured, stored, environment) ==
  IF stored \in configured THEN stored ELSE environment
=============================================================================
