----------------------------- MODULE CommandLine ------------------------------
(***************************************************************************)
(* The front of the conversation loop of main(): where a line comes from    *)
(* (the goal of the command line, or readline), what takes it (main()'s own  *)
(* commands, the CommandSystem, exit, the agents) and when the loop ends;    *)
(* with the commands of command_registry.cpp that change g_settings.         *)
(*                                                                          *)
(* A line is what the loop tells apart: [cmd, args], args being the key and  *)
(* value pairs CommandSystem::execute() makes of the rest.  A number is      *)
(* "typed" or a value the program gives it; "bad" is a text that std::stoi   *)
(* or std::stod rejects.  What a run does is module Session's.              *)
(***************************************************************************)
EXTENDS Naturals, FiniteSets

CONSTANTS Lines,      \* lines that may be typed
          Goals,      \* what -g may give: lines, and NoLine
          NoLine,
          MaxTyped    \* bound: lines typed

OwnCommands == {"/new", "/conv", "/convs", "/switch ", "/workspace", "/experience"}
Roles == {"supervisor", "director", "manager", "worker"}
Numbers == {"max_retries", "timeout", "temperature", "max_tokens"}
Flags == {"auto_approve", "verbose", "parallel", "strict"}

ASSUME CommandLineAssumption == NoLine \in Goals /\ MaxTyped \in Nat

VARIABLES
    at,        \* where the loop is
    given,     \* goal_text
    first,     \* the flag `first`
    single,    \* --no-loop
    tty,       \* IS_STDIN_TTY()
    line,      \* current_goal
    typed,     \* bound: lines read
    runs,      \* history: goals given to the agents
    settings,  \* g_settings: the values of /set
    models,    \* g_settings: the model of each role
    fallback   \* g_settings: enable_multi_provider and fallback_providers

settingVars == <<settings, models, fallback>>
optionVars == <<given, single, tty>>
clVars == <<at, optionVars, first, line, typed, runs, settingVars>>

Defaults ==
    [k \in Numbers \union Flags \union {"model"} |->
        IF k \in Numbers \union {"model"} THEN "default"
        ELSE IF k \in {"auto_approve", "parallel"} THEN "true" ELSE "false"]

DefaultModels == [r \in Roles |-> [model |-> "default", provider |-> "anthropic"]]
NoFallback == [on |-> FALSE, providers |-> {}]

ClInit ==
    /\ at = "prompt" /\ given \in Goals /\ single \in BOOLEAN /\ tty \in BOOLEAN
    /\ first = TRUE /\ line = NoLine /\ typed = 0 /\ runs = 0
    /\ settings = Defaults /\ models = DefaultModels /\ fallback = NoFallback

-----------------------------------------------------------------------------
(* Reading a line.                                                          *)

\* Fault: the goal of the command line stays the next one.
TakeGivenAgain ==
    /\ at = "prompt" /\ first /\ given # NoLine
    /\ at' = "line" /\ line' = given
    /\ UNCHANGED <<optionVars, first, typed, runs, settingVars>>

TakeGiven ==
    /\ at = "prompt" /\ first /\ given # NoLine
    /\ at' = "line" /\ line' = given /\ first' = FALSE
    /\ UNCHANGED <<optionVars, typed, runs, settingVars>>

\* An empty line is read again.
ReadLine ==
    /\ at = "prompt" /\ (~first \/ given = NoLine) /\ typed < MaxTyped
    /\ \E l \in Lines : line' = l
    /\ at' = "line" /\ typed' = typed + 1
    /\ UNCHANGED <<optionVars, first, runs, settingVars>>

\* At the end of the input readline() returns null, read_line() an empty line,
\* and the loop asks again, for ever and without waiting.
InputEnds ==
    /\ at = "prompt" /\ (~first \/ given = NoLine)
    /\ at' = "spinning"
    /\ UNCHANGED <<optionVars, first, line, typed, runs, settingVars>>

-----------------------------------------------------------------------------
(* Who takes it.                                                            *)

Handled == at' = "prompt" /\ UNCHANGED <<optionVars, first, line, typed, runs>>

OwnCommand ==
    /\ at = "line" /\ line.cmd \in OwnCommands
    /\ Handled /\ UNCHANGED settingVars

Exit ==
    /\ at = "line" /\ line.cmd = "exit" /\ at' = "ended"
    /\ UNCHANGED <<optionVars, first, line, typed, runs, settingVars>>

\* Fault: --no-loop ends only a goal of the command line.
RunGoalLoops ==
    /\ at = "line" /\ line.cmd = "goal"
    /\ runs' = runs + 1
    /\ at' = IF given # NoLine /\ ~first /\ ~tty THEN "ended" ELSE "prompt"
    /\ UNCHANGED <<optionVars, first, line, typed, settingVars>>

\* A run, and the test at the end of the loop's body.
RunGoal ==
    /\ at = "line" /\ line.cmd = "goal"
    /\ runs' = runs + 1
    /\ at' = IF single \/ (given # NoLine /\ ~first /\ ~tty) THEN "ended" ELSE "prompt"
    /\ UNCHANGED <<optionVars, first, line, typed, settingVars>>

\* CommandSystem::execute(): every other line that begins with a slash is
\* taken, a path too: an unknown name and an open quote are only reported.
Command(name) == at = "line" /\ line.cmd = name
Refused ==
    /\ at = "line" /\ line.cmd \in {"/unknown", "/unclosed"}
    /\ Handled /\ UNCHANGED settingVars

Has(k) == k \in DOMAIN line.args
Arg(k, default) == IF Has(k) THEN line.args[k] ELSE default

\* The roles a /model is for; of an unknown agent nothing is changed.
For == LET who == Arg("agent", "all")
       IN  IF who = "all" THEN Roles ELSE {who} \cap Roles

\* A handler that converts one of these keys throws; nothing catches it.
Converts(keys) == \A k \in keys \cap DOMAIN line.args : line.args[k] # "bad"
Aborts ==
    /\ at = "line"
    /\ \/ line.cmd = "/set" /\ ~Converts(Numbers)
       \/ line.cmd = "/retry" /\ ~Converts({"max"})
       \/ line.cmd = "/model" /\ Has("name") /\ For # {} /\ ~Converts({"temperature", "max_tokens"})
       \/ line.cmd = "/print" /\ ~Converts({"iterations", "limit", "interval"})
    /\ at' = "aborted"
    /\ UNCHANGED <<optionVars, first, line, typed, runs, settingVars>>

-----------------------------------------------------------------------------
(* Commands that change g_settings.  No agent reads it.                     *)

\* Unknown keys are passed over; a flag is true only for "true".
SetSettings ==
    /\ Command("/set") /\ Converts(Numbers) /\ Handled
    /\ settings' = [k \in DOMAIN settings |->
                      IF ~Has(k) THEN settings[k]
                      ELSE IF k \in Flags /\ line.args[k] # "true" THEN "false"
                      ELSE line.args[k]]
    /\ UNCHANGED <<models, fallback>>

Reset ==
    /\ Command("/reset") /\ Handled
    /\ settings' = Defaults /\ models' = DefaultModels /\ fallback' = NoFallback

\* The strategy is not kept.
RetryPolicyCommand ==
    /\ Command("/retry") /\ Converts({"max"}) /\ Handled
    /\ settings' = [settings EXCEPT !["max_retries"] = Arg("max", @)]
    /\ UNCHANGED <<models, fallback>>

Presets ==
    [debug |-> [verbose |-> "true", max_retries |-> "1", strict |-> "false"],
     production |-> [verbose |-> "false", max_retries |-> "3", auto_approve |-> "true",
                     parallel |-> "true"],
     quality |-> [strict |-> "true", max_retries |-> "5", temperature |-> "0.3"],
     fast |-> [max_retries |-> "1", auto_approve |-> "true", parallel |-> "true",
               temperature |-> "0.9"]]

\* A preset leaves what it does not name as the last one set it.
Preset ==
    /\ Command("/preset") /\ Handled
    /\ settings' = IF Arg("name", "") \in DOMAIN Presets
                   THEN [k \in DOMAIN settings |->
                            IF k \in DOMAIN Presets[line.args["name"]]
                            THEN Presets[line.args["name"]][k] ELSE settings[k]]
                   ELSE settings
    /\ UNCHANGED <<models, fallback>>

\* Without a provider a model is Anthropic's; only `all` is the default model.
Model ==
    /\ Command("/model") /\ Handled
    /\ Has("name") /\ For # {} => Converts({"temperature", "max_tokens"})
    /\ LET new == [model |-> line.args["name"], provider |-> Arg("provider", "anthropic")]
       IN  IF Has("name")
           THEN /\ models' = [r \in Roles |-> IF r \in For THEN new ELSE models[r]]
                /\ settings' = IF For = Roles THEN [settings EXCEPT !["model"] = new.model]
                               ELSE settings
           ELSE UNCHANGED <<models, settings>>
    /\ UNCHANGED fallback

\* `remove` does nothing.
Provider ==
    /\ Command("/provider") /\ Handled
    /\ LET action == Arg("action", "list")
       IN  fallback' = [on |-> action = "enable" \/ (fallback.on /\ action # "disable"),
                        providers |-> IF action = "add" /\ Has("name")
                                      THEN fallback.providers \union {line.args["name"]}
                                      ELSE fallback.providers]
    /\ UNCHANGED <<settings, models>>

\* Commands that only print, or are still to be written: /help, /status, /stats, /clear (of statistics nobody
\* counts), /log, /export, /bench, /profile, /history, /alias, /watch, /save,
\* /load, /config.
PrintOnly ==
    /\ Command("/print") /\ Converts({"iterations", "limit", "interval"}) /\ Handled
    /\ UNCHANGED settingVars

-----------------------------------------------------------------------------
ClNext ==
    \/ TakeGiven \/ ReadLine \/ InputEnds \/ OwnCommand \/ Exit \/ RunGoal \/ Refused \/ Aborts
    \/ SetSettings \/ Reset \/ RetryPolicyCommand \/ Preset \/ Model \/ Provider \/ PrintOnly

ClSpec == ClInit /\ [][ClNext]_clVars

-----------------------------------------------------------------------------
(* Properties.                                                              *)

\* "--no-loop  Exit after one goal", and a goal of the command line without a
\* terminal: whatever commands, refused and empty lines come before, between
\* and after, at most one goal reaches the agents.
OneGoalOnly == single \/ (given # NoLine /\ ~tty) => runs <= 1
=============================================================================
