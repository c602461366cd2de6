---------------------------- MODULE MCScheduler -----------------------------
(* The scheduler as PlumOS boots it, and with one more thread.             *)
EXTENDS Scheduler, TLC

\* system.cpp: create_thread(nullptr, 0), create_thread(user_space_main, 3).
\* The first is stub_thread, which returns at once; the second is the shell,
\* which loops for ever.
MCBootPriority == 0 :> 0 @@ 1 :> 3
MCPriority == 0 :> 0 @@ 1 :> 2 @@ 2 :> 1
=============================================================================
