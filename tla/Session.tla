------------------------------- MODULE Session -------------------------------
(***************************************************************************)
(* The conversation loop of main() (src/main.cpp) with the MemoryStore of   *)
(* the session (memory_store.cpp): conversations are begun, switched and    *)
(* resumed, runs are answered and persisted, the configuration is reloaded, *)
(* Ctrl+C is forwarded to the run by a watcher thread, and the process ends *)
(* or crashes between any two steps and is started again.                   *)
(*                                                                          *)
(* A summary is abstracted to the run it comes from and its number of lines, *)
(* a learned fact to whether there is one.  The run itself is one step;      *)
(* modules DirectorRun and Supervision have it.                              *)
(***************************************************************************)
EXTENDS Naturals, Sequences, FiniteSets

CONSTANTS Convs,       \* conversation ids
          NoConv,      \* conv_id.empty()
          MaxGoals,     \* bound: runs of all processes together
          MaxMemory    \* bound: summaries in memory after a /switch

ASSUME SessionAssumption ==
    NoConv \notin Convs /\ MaxGoals \in Nat /\ MaxMemory \in Nat

\* A run is [conv, n], a summary [of, lines]: the run it is of, one or two lines.

VARIABLES
    spc,          \* where the process is; "down" when there is none
    sessionOn,    \* cfg.memory_session_enabled
    longOn,       \* cfg.memory_long_term_enabled
    convId,       \* conv_id
    history,      \* history: the runs whose two turns it holds
    longTerm,     \* session_memory->long_term_
    learned,      \* session_memory->session_ holds what a Worker recorded
    begun,        \* bound: runs begun so far
    current,      \* the run in progress
    ws,           \* use_workspace of that run
    interrupt,    \* g_shutdown_requested
    cancel,       \* cancel_flag of the run
    watcher,      \* the thread shutdown_watcher: "none", "watching", "gone"
    convDirs,     \* disk: conversations/<id>/ that exist
    memoryMd,     \* disk: the summaries in <id>/MEMORY.md
    runBlocks,    \* disk: the runs told of at the end of <id>/MEMORY.md
    ltFiles,      \* disk: current/memory/long_term/summary_<i>.md
    savedJson,    \* disk: current/memory/session.json holds something
    persisted     \* history: runs this process has persisted

configVars == <<sessionOn, longOn>>
convVars == <<convId, history>>
memoryVars == <<longTerm, learned>>
runVars == <<begun, current, ws>>
threadVars == <<cancel, watcher>>
mdVars == <<memoryMd, runBlocks>>
diskVars == <<convDirs, mdVars, ltFiles, savedJson>>
seVars == <<spc, configVars, convVars, memoryVars, runVars, interrupt, threadVars,
          diskVars, persisted>>

\* Not written by anybody: <workspace>/session.json and <workspace>/long_term/,
\* which the process loads from.
LegacyJson == FALSE
LegacyLongTerm == << >>

\* load_session() adds to what is there, load_long_term() appends.
LoadedSession(saved) == learned \/ saved
LoadedLongTerm(files) == longTerm \o files

Elems(s) == {s[i] : i \in DOMAIN s}

NoRun == [conv |-> NoConv, n |-> 0]

SeInit ==
    /\ spc = "down" /\ sessionOn \in BOOLEAN /\ longOn \in BOOLEAN
    /\ convId = NoConv /\ history = << >> /\ longTerm = << >> /\ learned = FALSE
    /\ begun = 0 /\ current = NoRun /\ ws = FALSE
    /\ interrupt = FALSE /\ cancel = FALSE /\ watcher = "none"
    /\ convDirs = {} /\ memoryMd = [c \in Convs |-> << >>]
    /\ runBlocks = [c \in Convs |-> << >>]
    /\ ltFiles = << >> /\ savedJson = FALSE /\ persisted = {}

-----------------------------------------------------------------------------
(* The process.                                                             *)

\* Loads the memory of earlier processes if the configuration has it.
StartProcess ==
    /\ spc = "down" /\ spc' = "loaded"
    /\ longTerm' = IF sessionOn THEN LoadedLongTerm(LegacyLongTerm) ELSE longTerm
    /\ learned' = IF sessionOn THEN LoadedSession(LegacyJson) ELSE learned
    /\ UNCHANGED <<configVars, convVars, runVars, interrupt, threadVars, diskVars,
                   persisted>>

\* --conv <id>: the first 17 characters of the argument's text are compared
\* with a literal of 16, so no conversation is resumed and the text becomes
\* the first goal; with an empty id substr(17) throws, which is a Stop.
ApplyConvArgument ==
    /\ spc = "loaded" /\ spc' = "prompt"
    /\ UNCHANGED <<configVars, convVars, memoryVars, runVars, interrupt, threadVars,
                   diskVars, persisted>>

\* exit or a crash anywhere: only the disk is left.
Stop ==
    /\ spc # "down" /\ spc' = "down"
    /\ convId' = NoConv /\ history' = << >> /\ longTerm' = << >> /\ learned' = FALSE
    /\ current' = NoRun /\ ws' = FALSE /\ persisted' = {}
    /\ interrupt' = FALSE /\ cancel' = FALSE /\ watcher' = "none"
    /\ UNCHANGED <<configVars, begun, diskVars>>

\* SIGINT is only noted, for the rest of the process.
Interrupt ==
    /\ spc # "down" /\ ~interrupt /\ interrupt' = TRUE
    /\ UNCHANGED <<spc, configVars, convVars, memoryVars, runVars, threadVars,
                   diskVars, persisted>>

\* SIGHUP: from_json() has written cfg before validate() can reject it.
ReloadConfig ==
    /\ spc = "prompt"
    /\ sessionOn' \in BOOLEAN /\ longOn' \in BOOLEAN
    /\ UNCHANGED <<spc, convVars, memoryVars, runVars, interrupt, threadVars,
                   diskVars, persisted>>

-----------------------------------------------------------------------------
(* Commands that change something.                                          *)

\* /new forgets the turns; what the session's memory holds stays.
New ==
    /\ spc = "prompt"
    /\ convId' = NoConv /\ history' = << >>
    /\ UNCHANGED <<spc, configVars, memoryVars, runVars, interrupt, threadVars,
                   diskVars, persisted>>

\* load_conversation_md() reads line by line: of a summary of several lines
\* the first is loaded.
LoadConversationMd(c) ==
    longTerm \o [i \in DOMAIN memoryMd[c] |-> [memoryMd[c][i] EXCEPT !.lines = 1]]

\* Fault: the turns of the conversation that is left stay.
SwitchKeepsHistory(c) ==
    /\ spc = "prompt" /\ c \in convDirs
    /\ convId' = c /\ UNCHANGED history
    /\ longTerm' = IF sessionOn THEN LoadConversationMd(c) ELSE longTerm
    /\ UNCHANGED <<spc, configVars, learned, runVars, interrupt, threadVars,
                   diskVars, persisted>>

\* /switch <id> adds what MEMORY.md holds to the memory, also to what was
\* loaded from it before; the bound keeps that finite.
Switch(c) ==
    /\ spc = "prompt" /\ c \in convDirs
    /\ Len(longTerm) + Len(memoryMd[c]) <= MaxMemory
    /\ convId' = c /\ history' = << >>
    /\ longTerm' = IF sessionOn THEN LoadConversationMd(c) ELSE longTerm
    /\ UNCHANGED <<spc, configVars, learned, runVars, interrupt, threadVars,
                   diskVars, persisted>>

-----------------------------------------------------------------------------
(* A run.                                                                   *)

\* A new conversation gets an id no directory has; WorkspaceManager::init()
\* may fail, and the run goes on without a workspace.
BeginRun ==
    /\ spc = "prompt" /\ begun < MaxGoals
    /\ convId' \in (IF convId = NoConv THEN Convs \ convDirs ELSE {convId})
    /\ begun' = begun + 1 /\ current' = [conv |-> convId', n |-> begun']
    /\ \/ ws' = TRUE /\ convDirs' = convDirs \union {convId'}
       \/ ws' = FALSE /\ UNCHANGED convDirs
    /\ cancel' = FALSE /\ watcher' = "watching"
    /\ spc' = "running"
    /\ UNCHANGED <<configVars, history, memoryVars, interrupt, mdVars, ltFiles,
                   savedJson, persisted>>

\* The loop of shutdown_watcher.
Watch ==
    /\ watcher = "watching" /\ spc # "down"
    /\ \/ cancel /\ watcher' = "gone" /\ UNCHANGED cancel
       \/ ~cancel /\ interrupt /\ cancel' = TRUE /\ UNCHANGED watcher
    /\ UNCHANGED <<spc, configVars, convVars, memoryVars, runVars, interrupt, diskVars,
                   persisted>>

\* A Supervisor that gives up on a run cancels it with the same flag.
SupervisorCancels ==
    /\ spc = "running" /\ ~cancel /\ cancel' = TRUE
    /\ UNCHANGED <<spc, configVars, convVars, memoryVars, runVars, interrupt, watcher,
                   diskVars, persisted>>

\* supervisor.run() returns.  Workers have recorded what they learned,
\* whatever the status; then the flag is raised for the watcher to see.
Answer ==
    /\ spc = "running"
    /\ spc' \in {"joinDone", "joinFailed"} /\ cancel' = TRUE
    /\ learned' \in {learned, TRUE}
    /\ UNCHANGED <<configVars, convVars, longTerm, runVars, interrupt, watcher,
                   diskVars, persisted>>

\* join() and, of a failed run, the error message.
JoinFailed ==
    /\ spc = "joinFailed" /\ watcher = "gone"
    /\ spc' = "prompt" /\ cancel' = FALSE /\ watcher' = "none"
    /\ current' = NoRun /\ ws' = FALSE
    /\ UNCHANGED <<configVars, convVars, memoryVars, begun, interrupt, diskVars, persisted>>

JoinDone ==
    /\ spc = "joinDone" /\ watcher = "gone"
    /\ spc' = "summary" /\ cancel' = FALSE /\ watcher' = "none"
    /\ history' = Append(history, current)
    /\ UNCHANGED <<configVars, convId, memoryVars, runVars, interrupt, diskVars, persisted>>

\* save_long_term() writes a file for each summary in memory and leaves the
\* files beyond them.
SaveLongTerm(s) ==
    [i \in 1..(IF Len(s) > Len(ltFiles) THEN Len(s) ELSE Len(ltFiles)) |->
        IF i \in DOMAIN s THEN s[i] ELSE ltFiles[i]]

\* generate_and_store_summary(): nothing is stored when the call fails or the
\* answer is empty.
GenerateAndStoreSummary(text) ==
    /\ longTerm' = Append(longTerm, text)
    /\ ltFiles' = SaveLongTerm(longTerm')

Summarise ==
    /\ spc = "summary" /\ spc' = "persist"
    /\ \/ /\ longOn /\ ws
          /\ \E n \in 1..2 : GenerateAndStoreSummary([of |-> current, lines |-> n])
       \/ UNCHANGED <<longTerm, ltFiles>>
    /\ UNCHANGED <<configVars, convVars, learned, runVars, interrupt, threadVars,
                   convDirs, mdVars, savedJson, persisted>>

\* save_conversation_md() writes MEMORY.md anew with all summaries in memory,
\* of whatever conversation, and append_run_to_memory_md() tells of the run
\* that has just ended: what was told of earlier runs is gone.
SaveConversationMd == memoryMd' = [memoryMd EXCEPT ![convId] = longTerm]
AppendRun(written) == Append(written, current)
SaveSession == savedJson' = learned

Summarised == \E s \in Elems(longTerm) : s.of = current

\* Fault: only the latest summary is written.
PersistLatest ==
    /\ spc = "persist" /\ spc' = "prompt"
    /\ IF sessionOn /\ ws
       THEN /\ memoryMd' = [memoryMd EXCEPT ![convId] =
                                IF longTerm = << >> THEN << >> ELSE <<longTerm[Len(longTerm)]>>]
            /\ runBlocks' = runBlocks
            /\ SaveSession
            /\ persisted' = IF Summarised THEN persisted \union {current} ELSE persisted
       ELSE UNCHANGED <<mdVars, savedJson, persisted>>
    /\ current' = NoRun /\ ws' = FALSE
    /\ UNCHANGED <<configVars, convVars, memoryVars, begun, interrupt, threadVars,
                   convDirs, ltFiles>>

Persist ==
    /\ spc = "persist" /\ spc' = "prompt"
    /\ IF sessionOn /\ ws
       THEN /\ SaveConversationMd
            /\ runBlocks' = [runBlocks EXCEPT ![convId] = AppendRun(<< >>)]
            /\ SaveSession
            /\ persisted' = IF Summarised THEN persisted \union {current} ELSE persisted
       ELSE UNCHANGED <<mdVars, savedJson, persisted>>
    /\ current' = NoRun /\ ws' = FALSE
    /\ UNCHANGED <<configVars, convVars, memoryVars, begun, interrupt, threadVars,
                   convDirs, ltFiles>>

-----------------------------------------------------------------------------
SeNext ==
    \/ StartProcess \/ ApplyConvArgument \/ Stop \/ Interrupt \/ ReloadConfig
    \/ New \/ (\E c \in Convs : Switch(c)) \/ BeginRun \/ Watch \/ SupervisorCancels
    \/ Answer \/ JoinFailed \/ JoinDone \/ Summarise \/ Persist

SeSpec == SeInit /\ [][SeNext]_seVars

-----------------------------------------------------------------------------
(* Properties.                                                              *)

\* The context put before a goal is only ever of the conversation the goal
\* belongs to, whatever was begun, switched or failed in between.
HistoryOfConversation == \A i \in DOMAIN history : history[i].conv = convId

\* Within one process MEMORY.md of a conversation keeps the summary of every
\* run of it that was persisted, or its first line, although the file is
\* written anew each time, by way of other conversations and of changes of the
\* configuration.
MemoryFileKeepsSummaries ==
    \A r \in persisted : \E s \in Elems(memoryMd[r.conv]) : s.of = r
=============================================================================
