----------------------------- MODULE Scheduler ------------------------------
(***************************************************************************)
(* Threads of PlumOS on its one processor: Process_manager.cpp, the timer  *)
(* part of isr_common (handlers.cpp), the interrupt stub (handlers.asm),   *)
(* the system call entry (syscall.asm) and Time::Sleep.                    *)
(*                                                                         *)
(* A context is what an interrupt frame holds: whose code runs, where it   *)
(* is, in which ring, on whose kernel stack, and the local `next' of       *)
(* exit_current.  A kernel stack has two places that matter: its top,      *)
(* where an interrupt out of ring 3 (at tss.rsp0) and handle_syscall (at   *)
(* current_kernel_stack) push, and the place below a system call's frame,  *)
(* where an interrupt of that call pushes.                                 *)
(*                                                                         *)
(* Interrupt handlers run with interrupts off and are one step.  System    *)
(* calls start with interrupts off (FMASK) and some of them turn them on.  *)
(* exit_current is one step per write, because thread_wrapper runs it in   *)
(* ring 3 where interrupts are on.                                         *)
(***************************************************************************)
EXTENDS Integers, FiniteSets

CONSTANTS NThreads,  \* threads made by create_thread before enter_ring3
          Priority,  \* the priority each was created with
          Callers,   \* threads whose function makes system calls
          Enders,    \* threads whose function returns or calls sys_exit
          WorkWrap   \* 256: Thread::work is a uint8_t

ASSUME ThreadAssumption ==
  /\ NThreads \in Nat \ {0}
  /\ WorkWrap \in Nat \ {0}
  /\ Priority \in [0 .. NThreads - 1 -> 0 .. WorkWrap - 1]
  /\ Callers \subseteq 0 .. NThreads - 1 /\ Enders \subseteq 0 .. NThreads - 1

Thread == 0 .. NThreads - 1
None   == -1

(* A context is [who, at, ring, stk, next]: the thread whose code it is, where *)
(* it is, its ring, the owner of the stack it is on, and, in exit_current, the *)
(* thread picked.  It is at                                                    *)
(*   "new"            the start of the thread's function                       *)
(*   "user", "sys", "sysOn"  user code, a system call, one with interrupts on  *)
(*   "terminate" ... "restore"  the step of exit_current to do next            *)
(*   "frame"          not a context, but what handle_syscall saved             *)
(*   "idle", "halted", "wild"   no thread left, a fault that halts, anything   *)
VARIABLES
  cpu,      \* the context that runs
  stack,    \* stack[t][place]: what lies at a place of t's kernel stack
  regs,     \* Thread::regs: <<stack, place>> of the saved frame
  state,    \* Thread::state: create_thread makes it Running, exit Terminated
  work,     \* Thread::work
  current,  \* current_thread
  kstack,   \* current_kernel_stack, as the thread that owns the stack
  rsp0,     \* tss.rsp0, likewise
  ran, by,  \* history: ticks since the current thread was chosen, and by what
  exposed   \* history: an interrupt came while exit_current, in ring 3, ran
            \* under the identity of the thread it is about to start

vars == <<cpu, stack, regs, state, work, current, kstack, rsp0, ran, by, exposed>>

-----------------------------------------------------------------------------
InterruptsOn == \/ cpu.ring = 3 /\ cpu.at \notin {"halted", "wild"}
                \/ cpu.at \in {"sysOn", "idle"}

\* Mutants of the code, for the runs' sensitivity.
MutFramePlace == <<rsp0, "top">>                  \* every interrupt switches stacks
\* Where the stub in handlers.asm puts the frame of an interrupt.
FramePlace == IF cpu.ring = 3 THEN <<rsp0, "top">> ELSE <<cpu.stk, "below">>
Pushed     == [stack EXCEPT ![FramePlace[1]][FramePlace[2]] = cpu]

MutRunnable == Thread                             \* Terminated is not looked at
Runnable == {t \in Thread : state[t] # "Terminated"}

\* pick_next_runnable: the first runnable thread after the current one, which
\* comes last; from thread 0 if there is no current one.
Start == IF current = None THEN 0 ELSE current
MutPickNext ==                                    \* always scans from thread 0
  IF Runnable = {} THEN None ELSE CHOOSE t \in Runnable : \A u \in Runnable : t <= u
PickNext ==
  IF Runnable = {} THEN None
  ELSE LET d == CHOOSE i \in 1 .. NThreads :
                  /\ (Start + i) % NThreads \in Runnable
                  /\ \A j \in 1 .. i - 1 : (Start + j) % NThreads \notin Runnable
       IN  (Start + d) % NThreads

\* What runs when frame c is popped and iretq executed in the given ring.
\* From ring 3 a frame of ring 0 raises #GP, whose handler halts.
Resumed(c, ring) ==
  CASE c.at = "frame"              -> [c EXCEPT !.at = "wild"]
    [] c.ring = 0 /\ ring = 3      -> [c EXCEPT !.at = "halted"]
    [] c.at = "new"                -> [c EXCEPT !.at = "user"]
    [] OTHER                       -> c

-----------------------------------------------------------------------------
(* create_thread for every thread, then enter_ring3(Threads[0]).           *)
Init ==
  /\ stack = [t \in Thread |-> [place \in {"top", "below"} |->
                [who |-> t, at |-> "new", ring |-> 3, stk |-> t, next |-> None]]]
  /\ cpu = [who |-> 0, at |-> "user", ring |-> 3, stk |-> 0, next |-> None]
  /\ regs = [t \in Thread |-> <<t, "top">>]
  /\ state = [t \in Thread |-> "Running"]
  /\ work = [t \in Thread |-> 0]
  /\ current = 0 /\ kstack = 0 /\ rsp0 = 0
  /\ ran = 0 /\ by = "schedule"
  /\ exposed = FALSE

(* Any interrupt but the timer's: the frame is pushed and popped again.    *)
Irq ==
  /\ InterruptsOn
  /\ stack' = Pushed
  /\ exposed' = (exposed \/ current \notin {cpu.who, None})
  /\ UNCHANGED <<cpu, regs, state, work, current, kstack, rsp0, ran, by>>

(* The timer: isr_common charges the current thread a tick and calls       *)
(* schedule when its quantum is over.                                      *)
Charged == (work[current] + 1) % WorkWrap
MutExpired == state[current] = "Terminated" \/ Charged > Priority[current]
Expired == \/ state[current] = "Terminated"
           \/ Charged = Priority[current]
           \/ Priority[current] = 0

TickStay ==
  /\ InterruptsOn
  /\ current # None => ~ Expired
  /\ stack' = Pushed
  /\ work' = IF current = None THEN work ELSE [work EXCEPT ![current] = Charged]
  /\ ran' = IF current = None THEN ran ELSE ran + 1
  /\ exposed' = (exposed \/ current \notin {cpu.who, None})
  /\ UNCHANGED <<cpu, regs, state, current, kstack, rsp0, by>>

MutTickSwitchKstack ==                            \* current_kernel_stack is not set
  /\ InterruptsOn
  /\ current # None /\ Expired
  /\ PickNext # None
  /\ stack' = Pushed
  /\ regs' = [regs EXCEPT ![current] = FramePlace]
  /\ current' = PickNext
  /\ work' = [work EXCEPT ![current] = Charged, ![PickNext] = 0]
  /\ rsp0' = PickNext
  /\ cpu' = Resumed(stack'[regs'[PickNext][1]][regs'[PickNext][2]], 0)
  /\ ran' = 0 /\ by' = "schedule"
  /\ exposed' = (exposed \/ current # cpu.who)
  /\ UNCHANGED <<state, kstack>>

\* schedule, when it finds a thread.
TickSwitch ==
  /\ InterruptsOn
  /\ current # None /\ Expired
  /\ PickNext # None
  /\ stack' = Pushed
  /\ regs' = [regs EXCEPT ![current] = FramePlace]
  /\ current' = PickNext
  /\ work' = [work EXCEPT ![current] = Charged, ![PickNext] = 0]
  /\ kstack' = PickNext /\ rsp0' = PickNext
  /\ cpu' = Resumed(stack'[regs'[PickNext][1]][regs'[PickNext][2]], 0)
  /\ ran' = 0 /\ by' = "schedule"
  /\ exposed' = (exposed \/ current # cpu.who)
  /\ UNCHANGED state

\* schedule, when no thread is left: the interrupted code goes on.
TickNobody ==
  /\ InterruptsOn
  /\ current # None /\ Expired
  /\ PickNext = None
  /\ stack' = Pushed
  /\ regs' = [regs EXCEPT ![current] = FramePlace]
  /\ work' = [work EXCEPT ![current] = Charged]
  /\ exposed' = (exposed \/ current # cpu.who)
  /\ UNCHANGED <<cpu, state, current, kstack, rsp0, ran, by>>

Tick == TickStay \/ TickSwitch \/ TickNobody

-----------------------------------------------------------------------------
(* handle_syscall: the user's registers go to the top of the stack that    *)
(* current_kernel_stack names.                                             *)
Syscall ==
  /\ cpu.at = "user" /\ cpu.who \in Callers
  /\ stack' = [stack EXCEPT ![kstack].top =
                 [who |-> cpu.who, at |-> "frame", ring |-> 3, stk |-> kstack, next |-> None]]
  /\ cpu' = [cpu EXCEPT !.at = "sys", !.ring = 0, !.stk = kstack]
  /\ UNCHANGED <<regs, state, work, current, kstack, rsp0, ran, by, exposed>>

(* x64::halt in Time::Sleep, and the sti of the AHCI driver.               *)
SyscallEnables ==
  /\ cpu.at = "sys"
  /\ cpu' = [cpu EXCEPT !.at = "sysOn"]
  /\ UNCHANGED <<stack, regs, state, work, current, kstack, rsp0, ran, by, exposed>>

(* The return from dispatch_syscall: the registers come from the frame at  *)
(* the top of the stack the call ran on.                                   *)
SyscallReturn ==
  /\ cpu.at \in {"sys", "sysOn"}
  /\ LET f == stack[cpu.stk].top
     IN  cpu' = IF f.at = "frame"
                THEN [f EXCEPT !.at = "user"]
                ELSE [cpu EXCEPT !.at = "wild"]
  /\ UNCHANGED <<stack, regs, state, work, current, kstack, rsp0, ran, by, exposed>>

(* sys_exit calls exit_current in the system call, thread_wrapper calls it *)
(* in ring 3 when the thread's function returns.                           *)
Exit ==
  /\ cpu.at \in {"user", "sys"} /\ cpu.who \in Enders
  /\ cpu' = [cpu EXCEPT !.at = "terminate"]
  /\ UNCHANGED <<stack, regs, state, work, current, kstack, rsp0, ran, by, exposed>>

ExitTerminate ==
  /\ cpu.at = "terminate"
  /\ state' = IF current = None THEN state ELSE [state EXCEPT ![current] = "Terminated"]
  /\ cpu' = [cpu EXCEPT !.at = "pick"]
  /\ UNCHANGED <<stack, regs, work, current, kstack, rsp0, ran, by, exposed>>

\* Without a next thread: sti; hlt, which raises #GP in ring 3.
ExitPick ==
  /\ cpu.at = "pick"
  /\ IF PickNext = None
     THEN /\ current' = None
          /\ cpu' = [cpu EXCEPT !.at = IF cpu.ring = 3 THEN "halted" ELSE "idle"]
     ELSE /\ cpu' = [cpu EXCEPT !.at = "current", !.next = PickNext]
          /\ UNCHANGED current
  /\ UNCHANGED <<stack, regs, state, work, kstack, rsp0, ran, by, exposed>>

ExitCurrent ==
  /\ cpu.at = "current"
  /\ current' = cpu.next
  /\ cpu' = [cpu EXCEPT !.at = "kstack"]
  /\ ran' = 0 /\ by' = "exit"
  /\ UNCHANGED <<stack, regs, state, work, kstack, rsp0, exposed>>

ExitKstack ==
  /\ cpu.at = "kstack"
  /\ kstack' = cpu.next
  /\ cpu' = [cpu EXCEPT !.at = "rsp0"]
  /\ UNCHANGED <<stack, regs, state, work, current, rsp0, ran, by, exposed>>

ExitRsp0 ==
  /\ cpu.at = "rsp0"
  /\ rsp0' = cpu.next
  /\ cpu' = [cpu EXCEPT !.at = "restore"]
  /\ UNCHANGED <<stack, regs, state, work, current, kstack, ran, by, exposed>>

\* asm_restore_frame.
ExitRestore ==
  /\ cpu.at = "restore"
  /\ cpu' = Resumed(stack[regs[cpu.next][1]][regs[cpu.next][2]], cpu.ring)
  /\ UNCHANGED <<stack, regs, state, work, current, kstack, rsp0, ran, by, exposed>>

ExitStep == \/ ExitTerminate \/ ExitPick \/ ExitCurrent
            \/ ExitKstack \/ ExitRsp0 \/ ExitRestore

Next == Irq \/ Tick \/ Syscall \/ SyscallEnables \/ SyscallReturn \/ Exit \/ ExitStep

\* The timer keeps ticking, and a tick that comes while interrupts are off stays
\* pending in the APIC until they are on: strong fairness.  The processor keeps
\* executing: a system call returns, and the straight-line code of exit_current
\* goes on.
Fairness == SF_vars(Tick) /\ WF_vars(SyscallReturn) /\ WF_vars(ExitStep)

Spec == Init /\ [][Next]_vars /\ Fairness

-----------------------------------------------------------------------------
Saved(t) == stack[regs[t][1]][regs[t][2]]
Suspended == {t \in Runnable : t # cpu.who}

\* Unless an interrupt hit exit_current in ring 3 after it had taken over the
\* identity of the next thread (it is false then: see `exposed'):
\* - what schedule or asm_restore_frame will load for a thread that waits is
\*   that thread's own context, and it is on that thread's own stack;
\* - the registers handle_syscall saved for a thread are intact as long as its
\*   system call lasts, also while it is preempted in it;
\* - while a thread runs its own code or a system call, the next interrupt and
\*   the next system call use its own kernel stack.
InCall(c) == c.at \in {"sys", "sysOn"}
CallFrame(c) == c.stk = c.who /\ stack[c.stk].top.at = "frame" /\ stack[c.stk].top.who = c.who
SavedIsOwn == \A t \in Suspended :
                Saved(t).who = t /\ Saved(t).at # "frame" /\ regs[t][1] = t
SyscallFrameIntact == /\ InCall(cpu) => CallFrame(cpu)
                      /\ \A t \in Suspended : InCall(Saved(t)) => CallFrame(Saved(t))
StacksFollow == cpu.at = "user" \/ InCall(cpu) =>
                  current = cpu.who /\ rsp0 = cpu.who /\ kstack = cpu.who
ContextsKept == ~ exposed => SavedIsOwn /\ SyscallFrameIntact /\ StacksFollow

\* What the comment in syscall.asm asks for without any proviso: of the saved
\* registers it says "the user thread must get them back after sysret".
SyscallRegistersKept ==
  \A t \in Suspended :
    Saved(t).who = t /\ InCall(Saved(t)) => CallFrame(Saved(t))

\* A thread that exited never runs its own code or a system call again.
NoResurrection ==
  cpu.at = "user" \/ InCall(cpu) => state[cpu.who] # "Terminated"

\* The processor stops for good, before the last thread has exited, in one way
\* only: a thread returned from its function, in ring 3, and the next thread
\* had been preempted inside a system call.
StopsKnown ==
  ~ exposed /\ cpu.at \in {"halted", "wild"} /\ Runnable # {} =>
    /\ cpu.at = "halted"
    /\ current = cpu.who /\ InCall(Saved(cpu.who))

\* A thread chosen by schedule is preempted at the end of its quantum.  One
\* that exit_current chose keeps its old work count, which equals its priority
\* if it was preempted before, and runs until the count has wrapped around.
QuantumBound ==
  current # None =>
    ran < (IF by = "schedule" /\ Priority[current] > 0 THEN Priority[current]
           ELSE IF by = "schedule" THEN 1 ELSE WorkWrap)

\* Every thread keeps getting the processor until it exits, unless the machine
\* stopped or a context was lost.
RunsAgain ==
  \A t \in Thread :
    [](<>(\/ current = t \/ state[t] = "Terminated" \/ cpu.at = "halted" \/ exposed))
=============================================================================
