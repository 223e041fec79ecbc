---------------------------- MODULE MCThreadPool ----------------------------
(* A small pool: more tasks than threads, so that tasks queue up behind     *)
(* running ones and running tasks submit others.                            *)
EXTENDS ThreadPool

CONSTANTS th1, th2, th3, a, b, c

MCThreads == {th1, th2, th3}
MCTasks == {a, b, c}
=============================================================================
