-------------------------------- MODULE Config --------------------------------
(***************************************************************************)
(* The life of config.json: the wizard of `agent_runner --setup` (setup.cpp) *)
(* edits it, AgentConfig (models.cpp) saves, loads and validates it, main()  *)
(* takes it into use and reads it again on SIGHUP, and people edit the file. *)
(*                                                                          *)
(* A configuration is a record with the fields whose treatment differs; the  *)
(* JSON file is a record with some of these fields.  "" is the empty string, *)
(* -1 a number left to the provider; worker_model stands for the layers the  *)
(* wizard asks about, supervisor_model for the one it does not.              *)
(***************************************************************************)
EXTENDS Integers

CONSTANTS Typed,        \* numbers a user types
          HandWritten,  \* files people write: records with some of the fields
          MaxEdits,     \* bound: how often somebody edits the file
          MaxWizards    \* bound: how often the wizard runs

ASSUME ConfigAssumption == Typed \subseteq Int /\ MaxEdits \in Nat /\ MaxWizards \in Nat

Providers == {"anthropic", "openai", "azure", "ollama", "custom"}

NoFile == [none |-> TRUE]

NoSpec == [model |-> "", max_tokens |-> -1]

DefaultConfig ==
    [provider |-> "anthropic", api_key |-> "", base_url |-> "", default_model |-> "opus",
     worker_model |-> NoSpec, supervisor_model |-> NoSpec, max_tokens |-> 2048,
     temperature |-> -1, memory_session_enabled |-> TRUE, max_network_retries |-> 3, worker_threads |-> 4, request_timeout |-> 60,
     supervisor_stuck_timeout_ms |-> 300000, max_tokens_per_run |-> 0]

VARIABLES
    file,       \* config.json
    edits,      \* bound: edits so far
    wizards,    \* bound: wizards so far
    step,       \* the wizard's next step; "" when it does not run
    draft,      \* the cfg of run_wizard()
    ppc,        \* the process: "down", "prompt"
    cfg,        \* cfg of main()
    accepted,   \* history: the last configuration validate() accepted
    written     \* history: the configuration the wizard wrote to the file

wizardVars == <<wizards, step, draft>>
processVars == <<ppc, cfg, accepted>>
cfVars == <<file, edits, wizardVars, processVars, written>>

CfInit ==
    /\ file = NoFile /\ edits = 0 /\ wizards = 0 /\ step = "" /\ draft = DefaultConfig
    /\ ppc = "down" /\ cfg = DefaultConfig /\ accepted = DefaultConfig
    /\ written = NoFile

-----------------------------------------------------------------------------
(* AgentConfig.                                                             *)

\* Fault: a 0 is taken for "not set".
ToJsonNonzero(c) ==
    [f \in {g \in DOMAIN c : g \notin {"max_tokens_per_run", "max_network_retries"} \/ c[g] > 0}
        |-> c[f]]

\* Every field is written, a token limit only when there is one.
ToJson(c) ==
    [f \in {g \in DOMAIN c : g # "max_tokens_per_run" \/ c[g] > 0} |-> c[f]]

\* Fields the file does not have keep the value they had, and what the program
\* does not know is passed over.
FromJson(j, c) == [f \in DOMAIN c |-> IF f \in DOMAIN j THEN j[f] ELSE c[f]]

Load == FromJson(file, DefaultConfig)

ValidConfig(c) ==
    /\ c.provider \notin {"ollama", "custom"} => c.api_key \notin {"", "YOUR_API_KEY_HERE"}
    /\ c.default_model # ""
    /\ c.max_tokens \in 64..32768
    /\ c.worker_threads \in 1..32
    /\ c.request_timeout \in 5..600

-----------------------------------------------------------------------------
(* The answers to a question of the wizard; Enter takes the default.        *)

Ask(default, answers) == {default} \union answers

\* What the wizard takes for max_tokens.
MostTokens == 128000

\* It asks until the number is in its range.
AskInt(default, lo, hi) == Ask(default, Typed) \cap lo..hi

\* ask_float(): "skip" leaves the number to the provider.
AskFloat(default, lo, hi) == {-1} \union AskInt(default, lo, hi)

\* pick_model(): a listed model, or a custom one, for which Enter keeps the
\* current one.
PickModel(current) == Ask(current, {"sonnet"})

\* ask_model_spec(): "no" forgets the override there was.
AskModelSpec(c) ==
    {NoSpec} \union [model : PickModel(c.default_model),
                     max_tokens : AskInt(c.max_tokens, 64, MostTokens)]

Key(c) == Ask(c.api_key, {"key"})

\* The optional endpoint: "no" keeps the one of the provider before.
Proxy(c, url) == {c.base_url} \union Ask(IF c.base_url = "" THEN url ELSE c.base_url, {"proxy"})

Connections(c) ==
    CASE c.provider \in {"anthropic", "openai"} -> [key : Key(c), url : Proxy(c, c.provider)]
      [] c.provider = "ollama" ->
            [key : Key(c), url : Ask(IF c.base_url = "" THEN "local" ELSE c.base_url, {"proxy"})]
      [] OTHER -> [key : Key(c), url : Ask(c.base_url, {"proxy"})]

-----------------------------------------------------------------------------
(* run_wizard(), one action for the questions of a step.                    *)

At(s, next) == step = s /\ step' = next
               /\ UNCHANGED <<file, edits, wizards, processVars, written>>

\* What cannot be loaded is a fresh start.
BeginWizard ==
    /\ step = "" /\ ppc = "down" /\ step' = "provider"
    /\ wizards < MaxWizards /\ wizards' = wizards + 1
    /\ draft' = IF file = NoFile THEN DefaultConfig ELSE Load
    /\ UNCHANGED <<file, edits, processVars, written>>

AskProvider ==
    /\ At("provider", "connection")
    /\ \E p \in Providers : draft' = [draft EXCEPT !.provider = p]

AskConnection ==
    /\ At("connection", "model")
    /\ \E c \in Connections(draft) : draft' = [draft EXCEPT !.api_key = c.key, !.base_url = c.url]

AskModels ==
    /\ At("model", "generation")
    /\ \E m \in PickModel(draft.default_model) :
           LET d == [draft EXCEPT !.default_model = m]
           IN \E s \in AskModelSpec(d) : draft' = [d EXCEPT !.worker_model = s]

AskGeneration ==
    /\ At("generation", "behaviour")
    /\ \E n \in AskInt(draft.max_tokens, 64, MostTokens), t \in AskFloat(draft.temperature, 0, 2) :
           draft' = [draft EXCEPT !.max_tokens = n, !.temperature = t]

AskBehaviour ==
    /\ At("behaviour", "memory")
    /\ \E r \in AskInt(draft.max_network_retries, 0, 10),
          w \in AskInt(draft.worker_threads, 1, 64),
          t \in AskInt(draft.request_timeout, 10, 600) :
           draft' = [draft EXCEPT !.max_network_retries = r, !.worker_threads = w,
                                  !.request_timeout = t]

\* Logging, paths, workspace and memory; a word that does not begin with y is
\* a no.
AskMemory ==
    /\ At("memory", "supervisor")
    /\ \E on \in BOOLEAN : draft' = [draft EXCEPT !.memory_session_enabled = on]

\* Asked in whole seconds, kept in milliseconds.
AskSupervisor ==
    /\ At("supervisor", "save")
    /\ \E s \in AskInt(draft.supervisor_stuck_timeout_ms \div 1000, 30, 3600) :
           draft' = [draft EXCEPT !.supervisor_stuck_timeout_ms = s * 1000]

\* "Save to ...? [Y/n]"; nothing is validated.
SaveDraft ==
    /\ step = "save" /\ step' = ""
    /\ \/ file' = ToJson(draft) /\ written' = draft
       \/ UNCHANGED <<file, written>>
    /\ draft' = DefaultConfig
    /\ UNCHANGED <<edits, wizards, processVars>>

-----------------------------------------------------------------------------
(* main().                                                                  *)

EditFile ==
    /\ step = "" /\ edits < MaxEdits /\ edits' = edits + 1
    /\ file' \in HandWritten /\ written' = NoFile
    /\ UNCHANGED <<wizardVars, processVars>>

\* ANTHROPIC_API_KEY wins over the file; a rejected configuration ends the
\* process.
Boot(env) ==
    /\ ppc = "down" /\ step = "" /\ file # NoFile
    /\ LET c == [Load EXCEPT !.api_key = IF env = "" THEN @ ELSE env]
       IN /\ ValidConfig(c)
          /\ cfg' = c /\ accepted' = c
    /\ ppc' = "prompt"
    /\ UNCHANGED <<file, edits, wizardVars, written>>

Shutdown ==
    /\ ppc = "prompt" /\ ppc' = "down"
    /\ cfg' = DefaultConfig /\ accepted' = DefaultConfig
    /\ UNCHANGED <<file, edits, wizardVars, written>>

\* SIGHUP, seen at the next line of input.  The fields are read into cfg
\* itself before it is validated, and the environment is not asked again.  A file
\* that is not JSON throws before anything is read from it.
Reload ==
    /\ ppc = "prompt" /\ file # NoFile
    /\ cfg' = FromJson(file, cfg)
    /\ accepted' = IF ValidConfig(cfg') THEN cfg' ELSE accepted
    /\ UNCHANGED <<ppc, file, edits, wizardVars, written>>

-----------------------------------------------------------------------------
WizardSteps ==
    \/ AskProvider \/ AskConnection \/ AskModels \/ AskGeneration \/ AskBehaviour
    \/ AskMemory \/ AskSupervisor \/ SaveDraft

CfNext ==
    \/ BeginWizard \/ WizardSteps \/ EditFile \/ (\E env \in {"", "env"} : Boot(env))
    \/ Shutdown \/ Reload

CfSpec == CfInit /\ [][CfNext]_cfVars

-----------------------------------------------------------------------------
(* Properties.                                                              *)

\* What the wizard wrote is what the next process or the next wizard loads,
\* although not every field is written and a missing one takes its default: a
\* token limit of a file written by hand that is no limit is loaded as none.
WrittenIsLoaded ==
    written # NoFile =>
        Load = [written EXCEPT !.max_tokens_per_run = IF @ > 0 THEN @ ELSE 0]

\* "Config reload failed ... -- keeping old config": the configuration in use
\* is one that validate() has accepted.
RejectedReloadKeepsConfig == ppc = "prompt" => cfg = accepted
=============================================================================
