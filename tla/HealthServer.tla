----------------------------- MODULE HealthServer -----------------------------
(***************************************************************************)
(* HealthServer (health_server.hpp, POSIX): the thread that serves /health,  *)
(* its clients, and stop(), which main() reaches when it returns.            *)
(*                                                                          *)
(* sock_ is a plain int written by the thread and read by stop(); only the   *)
(* flag running_ is atomic, so that stop() may have read sock_ before it     *)
(* cleared the flag.                                                        *)
(***************************************************************************)
EXTENDS Naturals

CONSTANT MaxClients     \* bound: connections

ASSUME HealthAssumption == MaxClients \in Nat

VARIABLES
    hs,        \* where serve() is
    running,   \* running_
    sock,      \* the socket behind sock_; "none" is -1
    pending,   \* connections waiting for accept()
    client,      \* the connection being served
    connected, \* bound: connections so far
    mainAt,     \* where main() is
    missed     \* stop() has read sock_ early and found none

clientVars == <<pending, client, connected>>
mainVars == <<mainAt, missed>>
hsVars == <<hs, running, sock, clientVars, mainVars>>

HsInit ==
    /\ hs = "none" /\ running = FALSE /\ sock = "none"
    /\ pending = 0 /\ client = "none" /\ connected = 0
    /\ mainAt = "begin" /\ missed = FALSE

-----------------------------------------------------------------------------
(* main(): start() once, stop() by the destructor.                          *)

StartServer ==
    /\ mainAt = "begin" /\ mainAt' = "main"
    /\ running' = TRUE /\ hs' = "make"
    /\ UNCHANGED <<sock, clientVars, missed>>

\* Fault: the flag is not cleared, the shutdown alone has to do.
StopServerFlagless ==
    /\ mainAt = "main" /\ mainAt' = "look"
    /\ missed' \in {FALSE, sock = "none"}
    /\ UNCHANGED <<hs, running, sock, clientVars>>

StopServer ==
    /\ mainAt = "main" /\ mainAt' = "look"
    /\ running' = FALSE
    /\ missed' \in {FALSE, sock = "none"}
    /\ UNCHANGED <<hs, sock, clientVars>>

\* shutdown(): it wakes accept(), and has no effect before listen().
ShutSocket ==
    /\ mainAt = "look" /\ mainAt' = "join"
    /\ sock' = IF sock = "listening" /\ ~missed THEN "shut" ELSE sock
    /\ UNCHANGED <<hs, running, clientVars, missed>>

JoinServer ==
    /\ mainAt = "join" /\ hs = "gone"
    /\ mainAt' = "stopped"
    /\ UNCHANGED <<hs, running, sock, clientVars, missed>>

-----------------------------------------------------------------------------
(* serve().                                                                 *)

\* socket(), or an error that ends the thread.
MakeSocket ==
    /\ hs = "make"
    /\ \/ hs' = "listen" /\ sock' = "made" /\ UNCHANGED running
       \/ hs' = "gone" /\ running' = FALSE /\ UNCHANGED sock
    /\ UNCHANGED <<clientVars, mainVars>>

\* bind() and listen(); the port may be taken.
Listen ==
    /\ hs = "listen"
    /\ \/ hs' = "loop" /\ sock' = "listening" /\ UNCHANGED running
       \/ hs' = "gone" /\ sock' = "none" /\ running' = FALSE
    /\ UNCHANGED <<clientVars, mainVars>>

\* The test of the loop, and the end of the thread behind it.
TestRunning ==
    /\ hs = "loop"
    /\ IF running THEN hs' = "accept" /\ UNCHANGED sock
                  ELSE hs' = "gone" /\ sock' = "none"
    /\ UNCHANGED <<running, clientVars, mainVars>>

Accept ==
    /\ hs = "accept"
    /\ \/ /\ sock = "shut" /\ hs' = "gone" /\ sock' = "none"
          /\ UNCHANGED <<pending, client>>
       \/ /\ sock = "listening" /\ pending > 0
          /\ hs' = "recv" /\ pending' = pending - 1 /\ client' = "quiet"
          /\ UNCHANGED sock
    /\ UNCHANGED <<running, connected, mainVars>>

\* recv() without a timeout: it waits for the client to say or end something.
\* The error of a connection that was reset is taken, and not looked at.
Recv ==
    /\ hs = "recv" /\ client # "quiet"
    /\ hs' = "send"
    /\ client' = IF client = "reset" THEN "broken" ELSE client
    /\ UNCHANGED <<running, sock, pending, connected, mainVars>>

\* send() without MSG_NOSIGNAL: on a broken connection it raises SIGPIPE,
\* which ends the process.
Reply ==
    /\ hs = "send" /\ client' = "none"
    /\ IF client = "broken"
       THEN hs' = "gone" /\ mainAt' = "killed"
       ELSE hs' = "loop" /\ UNCHANGED mainAt
    /\ UNCHANGED <<running, sock, pending, connected, missed>>

-----------------------------------------------------------------------------
(* Clients.                                                                 *)

ClientConnects ==
    /\ sock = "listening" /\ connected < MaxClients
    /\ connected' = connected + 1 /\ pending' = pending + 1
    /\ UNCHANGED <<hs, running, sock, client, mainVars>>

ClientActs ==
    /\ \/ client = "quiet" /\ client' = "spoke"
       \/ client \in {"quiet", "spoke"} /\ client' = "reset"
    /\ UNCHANGED <<hs, running, sock, pending, connected, mainVars>>

-----------------------------------------------------------------------------
Serve == MakeSocket \/ Listen \/ TestRunning \/ Accept \/ Recv \/ Reply

HsNext ==
    \/ StartServer \/ StopServer \/ ShutSocket \/ JoinServer
    \/ Serve \/ ClientConnects \/ ClientActs

\* The thread runs and stop() goes on; clients and the user owe nothing.
HsSpec ==
    /\ HsInit /\ [][HsNext]_hsVars
    /\ WF_hsVars(Serve) /\ WF_hsVars(ShutSocket \/ JoinServer)

-----------------------------------------------------------------------------
(* Properties.                                                              *)

\* stop() returns, wherever it meets the thread: before its socket exists,
\* between bind and listen, at the test of the loop or in accept().  It waits
\* for ever only for a client that has connected and keeps silent, or when
\* the unsynchronised read of sock_ was early.
StopReturns ==
    (mainAt = "join") ~> \/ mainAt \in {"stopped", "killed"}
                         \/ missed
                         \/ (hs = "recv" /\ client = "quiet")
=============================================================================
