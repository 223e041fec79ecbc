----------------------------- MODULE MCServices ------------------------------
(***************************************************************************)
(* The parts of a session that share no state with each other in the code,   *)
(* checked side by side: the Director's run, the conversation loop and the   *)
(* lines typed to it, the configuration, the way to the model and its        *)
(* transport, the tools and what Workers learn.                              *)
(* A behaviour is about one of them (focus) and the others stay in an        *)
(* initial state, so that the state space is the sum of theirs.  One about    *)
(* the tools reads files or lists the directory.                             *)
(***************************************************************************)
EXTENDS DirectorRun, Session, MCConfig, ModelAccess, HttpTransport, Tools, Learning,
    CommandLine

VARIABLE focus

partVars == <<vars, seVars, cfVars, maVars, htVars, toolsVars, learningVars, clVars>>
mcVars == <<focus, partVars>>

Parts == {"director", "session", "config", "model", "transport", "files", "listings", "learning",
          "line"}

DirectorAtRest == ~workspace /\ req = CHOOSE r \in Requests : TRUE
SessionAtRest == ~sessionOn /\ ~longOn
LineAtRest == given = NoLine /\ ~single /\ ~tty
TransportAtRest == response = CHOOSE r \in Responses : TRUE
ToolsAtRest == \A f \in Files : ~Exists(f)

\* The tools that nobody calls.  A shell removes files as delete_file does.
LeftOut == IF focus = "files" THEN {"list_dir", "delete_file", "create_tool", "dynamic"}
           ELSE {"read_file"}

MCInit ==
    /\ focus \in Parts
    /\ Init /\ SeInit /\ CfInit /\ MaInit /\ HtInit /\ ToInit /\ LrInit /\ ClInit
    /\ focus # "director" => DirectorAtRest
    /\ focus # "session" => SessionAtRest
    /\ focus # "transport" => TransportAtRest
    /\ focus \notin {"files", "listings"} => ToolsAtRest
    /\ focus # "line" => LineAtRest

MCNext ==
    /\ UNCHANGED focus
    /\ \/ /\ focus = "director" /\ Next
          /\ UNCHANGED <<seVars, cfVars, maVars, htVars, toolsVars, learningVars, clVars>>
       \/ /\ focus = "session" /\ SeNext
          /\ UNCHANGED <<vars, cfVars, maVars, htVars, toolsVars, learningVars, clVars>>
       \/ /\ focus = "config" /\ CfNext
          /\ UNCHANGED <<vars, seVars, maVars, htVars, toolsVars, learningVars, clVars>>
       \/ /\ focus = "model" /\ MaNext
          /\ UNCHANGED <<vars, seVars, cfVars, htVars, toolsVars, learningVars, clVars>>
       \/ /\ focus = "transport" /\ HtNext
          /\ UNCHANGED <<vars, seVars, cfVars, maVars, toolsVars, learningVars, clVars>>
       \/ /\ focus \in {"files", "listings"} /\ ToNext
          /\ \A t \in Callers : call'[t].tool \notin LeftOut
          /\ UNCHANGED <<vars, seVars, cfVars, maVars, htVars, learningVars, clVars>>
       \/ /\ focus = "learning" /\ LrNext
          /\ UNCHANGED <<vars, seVars, cfVars, maVars, htVars, toolsVars, clVars>>
       \/ /\ focus = "line" /\ ClNext
          /\ UNCHANGED <<vars, seVars, cfVars, maVars, htVars, toolsVars, learningVars>>

\* None of the parts owes a step: what must happen is checked elsewhere.
MCSpec == MCInit /\ [][MCNext]_mcVars

\* The threads that invoke tools are alike.
MCSymmetry == Permutations(Callers)

-----------------------------------------------------------------------------
(* Requests, plans and reviews of the Director.                             *)

MCIds == {"subtask-1", "subtask-2", "rule-subtask-1"}

\* One request per route: chat, single tool with a rule, pipeline, file creation.
MCRequests ==
    {[heuristic |-> "L0", creation |-> FALSE, rule |-> FALSE],
     [heuristic |-> "L1", creation |-> FALSE, rule |-> TRUE],
     [heuristic |-> "L3", creation |-> TRUE, rule |-> FALSE]}

T(d, c, v) == [id |-> d, creates |-> c, validates |-> v]

\* A plan of one, of two, with a repeated id, and two that are compacted:
\* without a validation, and with one subtask that both creates and validates.
MCPlans ==
    {<<T("subtask-1", FALSE, FALSE)>>,
     <<T("subtask-1", FALSE, FALSE), T("subtask-2", FALSE, FALSE)>>,
     <<T("subtask-1", TRUE, FALSE), T("subtask-1", FALSE, TRUE)>>,
     <<T("subtask-2", FALSE, FALSE), T("subtask-1", TRUE, FALSE), T("subtask-1", FALSE, FALSE)>>,
     <<T("subtask-1", FALSE, FALSE), T("subtask-2", TRUE, TRUE), T("subtask-2", TRUE, FALSE)>>}

\* Every review of up to two entries, and some that are longer than any plan.
MCReviews ==
    LET F == [id : {"subtask-1", "subtask-2"}, approved : BOOLEAN]
    IN  UNION {[1..n -> F] : n \in 0..2}
        \union {<<f, f, g>> : f \in F, g \in F}

-----------------------------------------------------------------------------
(* Responses of the model's server.                                         *)

R(sized, body) ==
    [sized |-> sized, pieces |-> <<Piece("head"), Piece("head_end")>> \o body]

\* Three events; in chunks that fit events and that do not; an error object;
\* and a whole answer, with its length and without.
MCResponses ==
    {R(FALSE, Event(1) \o Event(2) \o Event(3) \o <<Piece("done")>>),
     R(FALSE, <<Piece("frame")>> \o Event(1) \o <<Piece("frame")>> \o Event(2)
              \o <<Piece("frame"), Piece("done")>>),
     R(FALSE, <<Event(1)[1], Piece("frame"), Event(1)[2]>> \o Event(2) \o <<Piece("done")>>),
     R(TRUE, <<Piece("text")>>),
     R(TRUE, <<Piece("text"), Piece("text")>>),
     R(FALSE, <<Piece("text"), Piece("text")>>)}

-----------------------------------------------------------------------------
(* Lines typed to the session.                                              *)

NoArgs == [k \in {} |-> ""]
L(c, a) == [cmd |-> c, args |-> a]

\* A goal, a command of main(), one of each kind of command with what it
\* converts and what it cannot, and what is refused.
MCLines ==
    {L(c, NoArgs) : c \in {"goal", "exit", "/switch ", "/unknown", "/reset", "/model", "/print"}}
    \union {L("/set", [max_retries |-> "typed"]), L("/set", [temperature |-> "bad"]),
            L("/set", [strict |-> "yes", parallel |-> "true"]),
            L("/retry", [max |-> "typed"]), L("/preset", [name |-> "quality"]),
            L("/preset", [name |-> "fast"]), L("/preset", [name |-> "other"]),
            L("/model", [name |-> "m"]), L("/model", [name |-> "m", agent |-> "worker"]),
            L("/retry", [max |-> "bad"]), L("/model", [name |-> "m", max_tokens |-> "bad"]),
            L("/print", [limit |-> "bad"]), L("/provider", [action |-> "enable"]),
            L("/provider", [action |-> "add", name |-> "p"])}

\* What -g may give: nothing, a goal or a command.
MCGoals == {[cmd |-> "none", args |-> NoArgs], L("goal", NoArgs), L("/switch ", NoArgs)}
MCNoLine == L("none", NoArgs)
=============================================================================
