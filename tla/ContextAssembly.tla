-------------------------- MODULE ContextAssembly --------------------------
(***************************************************************************)
(* The context of a prompt: ContextAssembler gathers a task's events,      *)
(* baton and last bundle into sections, SimpleContextOptimizer makes them  *)
(* fit a token budget, moving large logs into references, and              *)
(* ContextService keeps the bundle.                                        *)
(*                                                                         *)
(* A text is what it says (a value), its form and its number of            *)
(* characters; shortening is taken to cut at exactly the width asked for.  *)
(***************************************************************************)
EXTENDS Integers, Sequences, FiniteSets, FiniteSetsExt, SequencesExt

LogLike   == {"log_output", "tool_output", "file_content"}
EventLike == {"project_event", "memory"}
Preserved == {"constraint", "error", "schema", "code_patch"}
\* What an event is taken for; of those that are nothing else, two are told apart by name.
EventTypes == LogLike \cup {"schema", "code_patch", "error", "project_event", "memory", "routing"}

CONSTANTS
  Assemblers,   \* requests that assemble a context of the task
  Kinds,        \* events that may be recorded: type, says, size, title, marked, errors
  Batons,       \* hand-off packets that may be passed: says, size, constraints
  EventLimit,   \* events the assembler reads (80 in the code)
  RecentFull,   \* events kept in full (recent_events_full_count)
  MinSamples,   \* comparisons before layered mode may be given up
  MaxBundles,   \* bound: bundles kept
  MaxRestarts   \* bound: restarts of the service

ASSUME ContextAssumption ==
  /\ EventLimit \in Nat \ {0}
  /\ \A e \in Kinds : /\ DOMAIN e = {"type", "says", "size", "title", "marked", "errors"}
                      /\ e.type \in EventTypes /\ {e.size, e.title, e.errors} \subseteq Nat
  /\ \A b \in Batons : b.size \in Nat

VARIABLES
  profile,        \* layering, dual mode and the token budget; the assemblers at work, and
                  \* as a bound the number of events and batons recorded
  recorded_events, \* project events of the task, oldest first
  batons,         \* packets of the task, oldest first
  references,     \* context_references: ref_id to the text it stands for
  layers,         \* context_reference_layers: what L2 of each ref_id holds
  bundles,        \* context_bundles, oldest first
  layering_cache, \* the decision on layered mode that the process remembers
  assembly,       \* the assemblers at work
  restarts

context_vars == <<profile, recorded_events, batons, references, layers, bundles, layering_cache,
                  assembly, restarts>>

-----------------------------------------------------------------------------
(* The policy *)

LargeContent == 2000
MaxBaton     == 3500
MaxSummary   == 400
MaxPlain     == 700

estimate_tokens(chars) == (chars + 3) \div 4

build_ref_id_ByType(type, says) == <<type>>
\* The digest of the text tells two texts of a type apart.
build_ref_id(type, says) == <<type, says>>

-----------------------------------------------------------------------------
(* The store *)

latest(rows, count) == SubSeq(rows, Max({1, Len(rows) - count + 1}), Len(rows))
latest_packet == latest(batons, 1)
latest_events == latest(recorded_events, EventLimit)
latest_bundle == latest(bundles, 1)
recent_bundles == latest(bundles, 500)
get_context_reference(id) == references[id]

\* The text of a reference that exists is kept.
upsert_context_reference(texts) ==
  [id \in DOMAIN references \cup DOMAIN texts |->
     IF id \in DOMAIN references THEN references[id] ELSE texts[id]]
upsert_context_reference_layer(ids, content) == [i \in ids |-> content] @@ layers
save_context_bundle(row) == bundles' = Append(bundles, row)

-----------------------------------------------------------------------------
(* Assembling: sections from the rows read *)

Text(says, size) == [says |-> says, form |-> "verbatim", size |-> size]
Section(type, title, text, critical, errors) ==
  [type |-> type, title |-> title, text |-> text, critical |-> critical, errors |-> errors]

\* Events other than logs are critical by their type or by a marker in their text.
event_section(e) ==
  Section(IF e.type \in {"memory", "routing"} THEN "project_event" ELSE e.type, e.title, Text(e.says, e.size),
          e.type \in Preserved \/ (e.type \notin LogLike /\ e.marked), e.errors)

\* packets holds the latest packet, or none.
baton_sections(packets) ==
  IF packets = <<>> THEN <<>>
  ELSE LET b == Head(packets) IN
       <<Section("baton", 19, Text(b.says, b.size), FALSE, 0)>>
         \o (IF b.constraints = {} THEN <<>>
             ELSE <<Section("constraint", 20, Text(b.constraints, 100), TRUE, 0)>>)

routing_section(events) ==
  IF \E e \in Range(events) : e.type = "routing"
  THEN <<Section("routing", 16, Text("routing", 80), FALSE, 0)>> ELSE <<>>
\* At most five lines, each of an event that speaks of memory.
memory_section(events) ==
  LET lines == Min({5, Cardinality({n \in DOMAIN events : events[n].type = "memory"})})
  IN  IF lines = 0 THEN <<>> ELSE <<Section("memory", 15, Text("memory", 165 * lines), FALSE, 0)>>
prior_section(prior) ==
  IF prior = <<>> THEN <<>> ELSE <<Section("prior_bundle", 22, Text("prior", 120), FALSE, 0)>>

assemble(packets, events, prior) ==
  <<Section("task", 13, Text("task", 120), TRUE, 0)>> \o baton_sections(packets)
    \o routing_section(events) \o memory_section(events)
    \o [n \in DOMAIN events |-> event_section(events[n])] \o prior_section(prior)

-----------------------------------------------------------------------------
(* Optimizing, one section after another *)

Shortened(text, width) == IF text.size <= width THEN text ELSE [text EXCEPT !.form = "summary", !.size = width]

\* The reference, an abstract (L0 with layering, else the longer summary), how to retrieve
\* it, and up to four lines that look like errors.
placeholder(s, layered) ==
  [says |-> s.text.says, form |-> "reference",
   size |-> 200 + (IF layered THEN 120 ELSE 240) + 160 * Min({4, s.errors})]

refers(s) == s.type \in LogLike /\ s.text.size > LargeContent /\ ~s.critical

\* keep: whether the section is among the last RecentFull of the events.
transform_section(s, keep, layered) ==
  LET preserve == s.critical \/ s.type \in Preserved
      text == IF refers(s) THEN placeholder(s, layered)
              ELSE IF s.type = "baton" /\ s.text.size > MaxBaton
                   THEN [s.text EXCEPT !.form = "truncated", !.size = MaxBaton + 50]
              ELSE IF s.type \in EventLike /\ ~keep /\ ~preserve THEN Shortened(s.text, MaxSummary)
              ELSE IF ~preserve THEN Shortened(s.text, MaxPlain)
              ELSE s.text
  IN  [s EXCEPT !.text = text]

kept_in_full(sections, n) ==
  /\ sections[n].type \in EventLike
  /\ Cardinality({m \in DOMAIN sections : m > n /\ sections[m].type \in EventLike}) < RecentFull

section_tokens_Bare(s) == estimate_tokens(s.text.size)
\* Ten more for the title and the blank lines.
section_tokens(s) == estimate_tokens(s.text.size) + 10

\* What is left of the budget bounds a further cut; below 80 characters nothing is left.
reduced(s, remaining) ==
  LET width == Min({Max({remaining * 4 - 40, 0}), MaxSummary})
  IN  IF remaining <= 12 \/ width < 80 THEN [s EXCEPT !.text.size = 0]
      ELSE [s EXCEPT !.text = Shortened(@, width)]

Nothing == [sections |-> <<>>, tokens |-> 0, refs |-> {}, warned |-> FALSE]

\* A critical section is kept whatever it costs.
placed_AllEqual(out, s, budget) ==
  IF out.tokens + section_tokens(s) <= budget
  THEN [out EXCEPT !.sections = Append(@, s), !.tokens = @ + section_tokens(s)] ELSE out
placed(out, s, budget) ==
  LET cost == section_tokens(s)
      remaining == Max({budget - out.tokens, 0})
      smaller == reduced(s, remaining)
  IN  IF out.tokens + cost <= budget
      THEN [out EXCEPT !.sections = Append(@, s), !.tokens = @ + cost]
      ELSE IF s.critical
      THEN [out EXCEPT !.sections = Append(@, s), !.tokens = @ + cost, !.warned = TRUE]
      ELSE IF smaller.text.size > 0 /\ section_tokens(smaller) <= remaining
      THEN [out EXCEPT !.sections = Append(@, smaller), !.tokens = @ + section_tokens(smaller)]
      ELSE out

considered(out, sections, n, layered) ==
  placed(out, transform_section(sections[n], kept_in_full(sections, n), layered), profile.budget)
optimized(sections, layered) ==
  LET out[n \in 0..Len(sections)] ==
        IF n = 0 THEN Nothing ELSE considered(out[n - 1], sections, n, layered)
  IN  out[Len(sections)]

\* The logs that are moved away, the references that stand for them, and the first text
\* that a pass writes under each.
ref(s) == build_ref_id(s.type, s.text.says)
logs_of(sections) == {n \in DOMAIN sections : refers(sections[n])}
refs_of(sections) == {ref(sections[n]) : n \in logs_of(sections)}
first_texts(sections) ==
  [i \in refs_of(sections) |-> sections[Min({n \in logs_of(sections) : ref(sections[n]) = i})].text]

total(numbers) ==
  LET sum[n \in 0..Len(numbers)] == IF n = 0 THEN 0 ELSE sum[n - 1] + numbers[n]
  IN  sum[Len(numbers)]

\* "## " and a newline around each title, a blank line between sections.
rendered(sections) ==
  total([n \in DOMAIN sections |-> sections[n].title + sections[n].text.size + 4])
    + 2 * Max({Len(sections) - 1, 0})

-----------------------------------------------------------------------------
(* Layered mode is given up when it makes prompts longer *)

Idle == [pc |-> "idle"]

comparisons == SelectSeq(recent_bundles, LAMBDA b : b.legacy > 0)
\* In thousandths: the mean of (layered - legacy) / legacy is above two per cent.
underperforms ==
  FoldLeft(LAMBDA sum, b : sum + ((b.layered - b.legacy) * 1000) \div b.legacy, 0, comparisons)
    > 20 * Len(comparisons)

resolve_layering_mode ==
  CASE ~profile.layering -> [layered |-> FALSE, cache |-> layering_cache]
    [] profile.layering /\ layering_cache # "unknown" ->
         [layered |-> layering_cache = "layered", cache |-> layering_cache]
    [] profile.layering /\ layering_cache = "unknown" /\ Len(comparisons) < MinSamples ->
         [layered |-> TRUE, cache |-> "unknown"]
    [] OTHER -> [layered |-> ~underperforms,
                 cache |-> IF underperforms THEN "legacy_fallback" ELSE "layered"]

-----------------------------------------------------------------------------
(* The steps *)

ContextInit(profiles) ==
  /\ profile \in profiles
  /\ recorded_events = <<>> /\ batons = <<>> /\ bundles = <<>>
  /\ references = <<>> /\ layers = <<>>
  /\ layering_cache = "unknown"
  /\ assembly = [a \in Assemblers |-> Idle]
  /\ restarts = 0

\* save_project_event and save_baton_packet, by whoever works on the task.  The text of an
\* event carries its time, here its position.
Recorded == Len(recorded_events) + Len(batons)
RecordEvent ==
  /\ Recorded < profile.records
  /\ \E e \in Kinds :
       recorded_events' = Append(recorded_events, [e EXCEPT !.says = <<@, Len(recorded_events) + 1>>])
  /\ UNCHANGED <<profile, batons, references, layers, bundles, layering_cache, assembly, restarts>>
PassBaton ==
  /\ Recorded < profile.records
  /\ \E b \in Batons : batons' = Append(batons, b)
  /\ UNCHANGED <<profile, recorded_events, references, layers, bundles, layering_cache, assembly, restarts>>

\* The latest baton is read first, then the events and the last bundle.
ReadBaton(a) ==
  /\ a \in profile.crew /\ assembly[a] = Idle /\ Len(bundles) < MaxBundles
  /\ assembly' = [assembly EXCEPT ![a] = [pc |-> "reading", packets |-> latest_packet]]
  /\ UNCHANGED <<profile, recorded_events, batons, references, layers, bundles, layering_cache, restarts>>

ReadEvents(a) ==
  LET mode == resolve_layering_mode IN
  /\ assembly[a].pc = "reading"
  /\ assembly' = [assembly EXCEPT ![a] =
       [pc |-> "optimizing", raw |-> assemble(assembly[a].packets, latest_events, latest_bundle),
        layered |-> mode.layered, pass |-> mode.layered, out |-> Nothing, first |-> Nothing]]
  /\ layering_cache' = mode.cache
  /\ UNCHANGED <<profile, recorded_events, batons, references, layers, bundles, restarts>>

\* A pass over the sections; pass says whether it is the layered one.  Its writes to the
\* store, which name each reference by its text, are taken together.
Optimize(a) ==
  LET w == assembly[a] IN
  /\ w.pc = "optimizing"
  /\ references' = upsert_context_reference(first_texts(w.raw))
  /\ layers' = upsert_context_reference_layer(refs_of(w.raw), IF w.pass THEN "original" ELSE "summary")
  /\ assembly' = [assembly EXCEPT ![a] =
       [w EXCEPT !.pc = "optimized", !.out = [optimized(w.raw, w.pass) EXCEPT !.refs = refs_of(w.raw)]]]
  /\ UNCHANGED <<profile, recorded_events, batons, bundles, layering_cache, restarts>>

\* In dual mode the legacy optimizer runs as well, for its count alone.
Compare(a) ==
  LET w == assembly[a] IN
  /\ w.pc = "optimized" /\ w.pass /\ profile.dual
  /\ assembly' = [assembly EXCEPT ![a] = [w EXCEPT !.pc = "optimizing", !.pass = FALSE, !.first = w.out]]
  /\ UNCHANGED <<profile, recorded_events, batons, references, layers, bundles, layering_cache, restarts>>

\* raw is kept for the properties; legacy is 0 where nothing was compared.
SaveBundle(a) ==
  LET w == assembly[a]
      dual == w.layered /\ profile.dual
      best == IF dual THEN w.first ELSE w.out IN
  /\ w.pc = "optimized" /\ (dual => ~w.pass)
  /\ save_context_bundle(
       [raw |-> w.raw, sections |-> best.sections, refs |-> best.refs, warned |-> best.warned,
        tokens |-> estimate_tokens(rendered(best.sections)),
        layered |-> estimate_tokens(rendered(best.sections)),
        legacy |-> IF dual THEN estimate_tokens(rendered(w.out.sections)) ELSE 0])
  /\ assembly' = [assembly EXCEPT ![a] = Idle]
  /\ UNCHANGED <<profile, recorded_events, batons, references, layers, layering_cache, restarts>>

\* The process ends between two store calls, and forgets its decision on layering.
Restart ==
  /\ restarts < MaxRestarts
  /\ restarts' = restarts + 1
  /\ assembly' = [a \in Assemblers |-> Idle] /\ layering_cache' = "unknown"
  /\ UNCHANGED <<profile, recorded_events, batons, references, layers, bundles>>

ContextNext ==
  \/ RecordEvent \/ PassBaton \/ Restart
  \/ \E a \in Assemblers : ReadBaton(a) \/ ReadEvents(a) \/ Optimize(a) \/ Compare(a) \/ SaveBundle(a)

-----------------------------------------------------------------------------
(* Properties *)

\* A bundle holds, word for word, every critical section that was gathered for it, the
\* constraints of the baton among them, whatever the budget (optimize).
CriticalKeptVerbatim ==
  \A b \in Range(bundles) : \A s \in Range(b.raw) :
    s.critical => \E t \in Range(b.sections) : t.type = s.type /\ t.text = s.text

\* The reference that stands for a log in a bundle gives back the very text it replaced,
\* and goes on doing so whatever is assembled later (_save_reference, retrieve).
ReferencesGiveBackTheText ==
  \A b \in Range(bundles) :
    /\ b.refs \subseteq DOMAIN references
    /\ \A s \in Range(b.raw) : refers(s) =>
         get_context_reference(ref(s)) = s.text

\* Unless a critical section had to exceed it, a prompt keeps to its budget, but for what
\* its titles have over the room of ten tokens that optimize reckons for each.
BudgetKept ==
  \A b \in Range(bundles) : ~b.warned =>
    b.tokens <= profile.budget
      + total([n \in DOMAIN b.sections |-> estimate_tokens(Max({0, b.sections[n].title - 34}))])
=============================================================================
