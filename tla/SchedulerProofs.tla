--------------------------- MODULE SchedulerProofs ---------------------------
(***************************************************************************)
(* Proofs about the threads of PlumOS, for every number of threads, every   *)
(* priority and every set of threads that make system calls or end.         *)
(*                                                                         *)
(* The properties of Scheduler are not inductive.  IInv adds what they rest  *)
(* on: whose identity (current_thread, current_kernel_stack, tss.rsp0) is   *)
(* set at each place the processor can be at, and of each thread that waits *)
(* either that its saved context is its own and on its own stack, or that   *)
(* it is exit_current of another thread, interrupted after it had taken     *)
(* over the identity of this one.  The second case is what makes the proof: *)
(* it must be known where such a frame lies, that one exited thread is the  *)
(* context of one waiting thread at most, and that `exposed' records it.    *)
(***************************************************************************)
EXTENDS Scheduler, FiniteSetTheorems, WellFoundedInduction, TLAPS

Places == {"new", "user", "sys", "sysOn", "terminate", "pick", "current", "kstack",
           "rsp0", "restore", "frame", "idle", "halted", "wild"}
Context == [who : Thread, at : Places, ring : {0, 3}, stk : Thread, next : Thread \cup {None}]

TypeOK ==
  /\ cpu \in Context
  /\ stack \in [Thread -> [{"top", "below"} -> Context]]
  /\ regs \in [Thread -> Thread \X {"top", "below"}]
  /\ state \in [Thread -> {"Running", "Terminated"}]
  /\ work \in [Thread -> 0 .. WorkWrap - 1]
  /\ current \in Thread \cup {None} /\ kstack \in Thread /\ rsp0 \in Thread
  /\ ran \in Nat /\ by \in {"schedule", "exit"} /\ exposed \in BOOLEAN

\* Where exit_current runs under the identity of the thread it will start.
Taken == {"kstack", "rsp0", "restore"}
Owns(t) == current = t /\ kstack = t /\ rsp0 = t

\* The processor, by where it is.
Running ==
  /\ cpu.at \in {"user", "sys", "sysOn", "terminate"} => Owns(cpu.who) /\ cpu.who \in Runnable
  /\ cpu.at = "user" => cpu.ring = 3
  /\ InCall(cpu) => cpu.ring = 0 /\ cpu.stk = cpu.who
\* The steps of exit_current.
Leaving ==
  /\ cpu.at \in {"pick", "current"} => Owns(cpu.who)
  /\ cpu.at \in {"pick", "current"} \cup Taken => cpu.who \notin Runnable
  /\ cpu.at \in {"current"} \cup Taken => cpu.next \in Runnable
  /\ cpu.at \in Taken => current = cpu.next /\ {kstack, rsp0} \subseteq {cpu.who, cpu.next}
  /\ cpu.at \in {"rsp0", "restore"} => kstack = cpu.next
  /\ cpu.at = "restore" => rsp0 = cpu.next
\* The end: no thread left, or a fault.
Stopped ==
  /\ cpu.at \notin {"new", "frame"}
  /\ cpu.at = "idle" => Runnable = {} /\ cpu.ring = 0
  /\ current = None => cpu.at \in {"idle", "halted"}
  /\ cpu.at = "wild" => exposed
  /\ cpu.at = "halted" /\ Runnable # {} => current = cpu.who /\ InCall(Saved(cpu.who))

\* What a suspended thread will be resumed with, and where it lies.
OwnContext(t) ==
  /\ Saved(t).who = t /\ regs[t][1] = t
  /\ \/ Saved(t).at \in {"new", "user", "terminate"} /\ Saved(t).ring = 3
     \/ InCall(Saved(t)) /\ Saved(t).ring = 0 /\ Saved(t).stk = t
\* exit_current of another thread, interrupted when it was to start t.
TakenContext(t) ==
  /\ exposed
  /\ Saved(t).at \in Taken /\ Saved(t).next = t /\ Saved(t).ring = 3
  /\ Saved(t).who \notin Runnable
  /\ regs[t] \in {<<t, "top">>, <<Saved(t).who, "top">>}
  /\ cpu.who = Saved(t).who => cpu.at \in Taken /\ cpu.next = t
Parked ==
  /\ \A t \in Suspended : OwnContext(t) \/ TakenContext(t)
  /\ \A t, u \in Suspended :
       TakenContext(t) /\ TakenContext(u) /\ Saved(t).who = Saved(u).who => t = u

\* Frames of system calls.
Frames == 
  /\ \A t \in Thread : stack[t].top.at = "frame" =>
       stack[t].top.who = t /\ stack[t].top.stk = t /\ stack[t].top.ring = 3
  /\ \A t \in Thread : stack[t].below.at # "frame"

\* The frame of a system call in progress is intact, unless exposed.
Calls == ~exposed => SyscallFrameIntact

\* Ticks until the count of work reaches the priority again, and the quantum.
Left(t) == IF work[t] < Priority[t] THEN Priority[t] - work[t]
           ELSE Priority[t] - work[t] + WorkWrap
Quantum ==
  /\ QuantumBound
  /\ current # None /\ Runnable # {} =>
       /\ ran + Left(current) <= WorkWrap
       /\ by = "schedule" => work[current] = ran

IInv == TypeOK /\ Running /\ Leaving /\ Stopped /\ Parked /\ Frames /\ Calls /\ Quantum

-----------------------------------------------------------------------------
(* The round robin of pick_next_runnable.                                  *)

\* Every non-empty set of naturals has a least element.
LEMMA Least ==
  ASSUME NEW T \in SUBSET Nat, T # {}
  PROVE  \E m \in T : \A k \in T : m <= k
  <1> DEFINE Order == StrictSubsetOrdering(Nat)
             Below == {0 .. x : x \in T}
  <1>1. IsWellFoundedOn(Order, FiniteSubsetsOf(Nat)) BY FS_StrictSubsetOrderingWellFounded
  <1>2. Below \subseteq FiniteSubsetsOf(Nat)
    <2>1. \A x \in T : IsFiniteSet(0 .. x) BY FS_Interval
    <2> QED BY <2>1 DEF FiniteSubsetsOf
  <1>3. Below # {} OBVIOUS
  <1> HIDE DEF Below, Order
  <1>4. PICK b \in Below : \A c \in Below : ~ (<<c, b>> \in Order) BY <1>1, <1>2, <1>3, WFMin
  <1>5. PICK m \in T : b = 0 .. m BY DEF Below
  <1>6. \A k \in T : m <= k
    <2> SUFFICES ASSUME NEW k \in T, k < m PROVE FALSE OBVIOUS
    <2>1. 0 .. k \in Below BY DEF Below
    <2>2. <<0 .. k, 0 .. m>> \in Order BY DEF Order, StrictSubsetOrdering
    <2> QED BY <2>1, <2>2, <1>4, <1>5
  <1> QED BY <1>6

\* The remainder of a number that is less than twice the divisor.
LEMMA Wraps ==
  ASSUME NEW n \in Nat \ {0}, NEW x \in Nat, x < n + n
  PROVE  x % n = IF x < n THEN x ELSE x - n
  OBVIOUS

\* pick_next_runnable returns a thread that is not terminated, and none only if
\* there is none: its scan goes once around Threads.
LEMMA PickNextRunnable ==
  ASSUME TypeOK
  PROVE  IF Runnable = {} THEN PickNext = None ELSE PickNext \in Runnable
  <1>1. CASE Runnable = {} BY <1>1 DEF PickNext
  <1>2. CASE Runnable # {}
    <2> DEFINE Far == {i \in 1 .. NThreads : (Start + i) % NThreads \in Runnable}
    <2>1. Start \in Thread BY ThreadAssumption DEF Start, TypeOK, None, Thread
    <2>2. PICK t \in Runnable : TRUE BY <1>2
    <2>3. t \in 0 .. NThreads - 1 BY DEF Runnable, Thread
    <2>4. Far # {}
      <3>1. CASE t > Start
        <4>1. t - Start \in 1 .. NThreads /\ Start + (t - Start) = t BY <2>1, <2>3, <3>1, ThreadAssumption DEF Thread
        <4>2. t % NThreads = t BY <2>3, ThreadAssumption
        <4> QED BY <4>1, <4>2
      <3>2. CASE t <= Start
        <4>1. t - Start + NThreads \in 1 .. NThreads /\ Start + (t - Start + NThreads) = t + NThreads
          BY <2>1, <2>3, <3>2, ThreadAssumption DEF Thread
        <4>2. (t + NThreads) % NThreads = t BY <2>3, ThreadAssumption
        <4> QED BY <4>1, <4>2
      <3> QED BY <3>1, <3>2, <2>1, <2>3, ThreadAssumption DEF Thread
    <2>5. PICK d \in Far : \A i \in Far : d <= i
      <3>1. Far \in SUBSET Nat OBVIOUS
      <3> HIDE DEF Far
      <3> QED BY <3>1, <2>4, Least
    <2>6. \E i \in 1 .. NThreads :
            /\ (Start + i) % NThreads \in Runnable
            /\ \A j \in 1 .. i - 1 : (Start + j) % NThreads \notin Runnable
      <3>1. d \in 1 .. NThreads /\ (Start + d) % NThreads \in Runnable BY <2>5
      <3>2. ASSUME NEW j \in 1 .. d - 1, (Start + j) % NThreads \in Runnable PROVE FALSE
        <4>1. j \in Far BY <3>1, <3>2, ThreadAssumption
        <4> QED BY <4>1, <3>1, <2>5, ThreadAssumption
      <3> QED BY <3>1, <3>2
    <2> QED BY <1>2, <2>6 DEF PickNext
  <1> QED BY <1>1, <1>2

\* The tick that isr_common charges: Thread::work, a uint8_t, goes up by one or
\* wraps to 0.
LEMMA ChargedValue ==
  ASSUME TypeOK, current # None
  PROVE  /\ Charged \in 0 .. WorkWrap - 1
         /\ Charged = IF work[current] + 1 < WorkWrap THEN work[current] + 1 ELSE 0
  <1>1. work[current] \in 0 .. WorkWrap - 1 /\ WorkWrap \in Nat \ {0}
    BY ThreadAssumption DEF TypeOK
  <1>2. (work[current] + 1) % WorkWrap =
          IF work[current] + 1 < WorkWrap THEN work[current] + 1 ELSE work[current] + 1 - WorkWrap
    BY <1>1, Wraps
  <1> QED BY <1>1, <1>2 DEF Charged

-----------------------------------------------------------------------------
(* An interrupt's frame.                                                   *)

Core == TypeOK /\ Running /\ Leaving /\ Stopped /\ Parked /\ Frames

\* An interrupt pushes the running context in one place and leaves the others.
LEMMA PlaceType ==
  ASSUME TypeOK
  PROVE  /\ FramePlace \in Thread \X {"top", "below"}
         /\ Pushed \in [Thread -> [{"top", "below"} -> Context]]
         /\ \A t \in Thread, place \in {"top", "below"} :
              Pushed[t][place] = IF <<t, place>> = FramePlace THEN cpu ELSE stack[t][place]
  <1>1. FramePlace \in Thread \X {"top", "below"} BY DEF TypeOK, Context, FramePlace
  <1>2. PICK a \in Thread, b \in {"top", "below"} : FramePlace = <<a, b>> BY <1>1
  <1>3. Pushed = [stack EXCEPT ![a][b] = cpu] BY <1>2 DEF Pushed
  <1>4. \A x \in Thread, y \in {"top", "below"} :
          Pushed[x][y] = IF x = a /\ y = b THEN cpu ELSE stack[x][y]
    BY <1>3 DEF TypeOK
  <1>5. Pushed \in [Thread -> [{"top", "below"} -> Context]] BY <1>3 DEF TypeOK
  <1> QED BY <1>1, <1>2, <1>4, <1>5

\* Where the frame of the running context goes, and whose place that is.
LEMMA PlaceOwner ==
  ASSUME Core, InterruptsOn, Runnable # {}
  PROVE  /\ cpu.at \in {"user", "sysOn", "terminate", "pick", "current"} =>
              FramePlace[1] = cpu.who /\ current = cpu.who
         /\ cpu.at \in {"user", "sysOn", "terminate"} => cpu.who \in Runnable
         /\ cpu.at \in {"user", "terminate"} \cup Taken => cpu.ring = 3
         /\ cpu.at \in Taken => /\ FramePlace \in {<<cpu.who, "top">>, <<cpu.next, "top">>}
                                /\ current = cpu.next /\ current # cpu.who
         /\ cpu.at \in {"user", "sysOn", "terminate", "pick", "current"} \cup Taken
         /\ cpu.at = "sysOn" => cpu.ring = 0 /\ cpu.stk = cpu.who
  <1>1. cpu.at \in {"user", "sysOn", "terminate", "pick", "current"} \cup Taken
    BY DEF Core, TypeOK, Context, Places, Stopped, Running, InCall, InterruptsOn, Taken
  <1> QED BY <1>1 DEF Core, TypeOK, Context, Running, Leaving, Taken, Owns, InCall, FramePlace, InterruptsOn

\* A frame lands on a suspended thread's context only if the thread is the one
\* that exit_current, interrupted, was about to start.
LEMMA PushParks ==
  ASSUME Core, InterruptsOn, NEW t \in Suspended, regs[t] = FramePlace
  PROVE  /\ cpu.at \in Taken /\ cpu.next = t /\ cpu.ring = 3
         /\ cpu.who \notin Runnable /\ current = t
         /\ regs[t] \in {<<t, "top">>, <<cpu.who, "top">>}
  <1>1. t \in Runnable /\ t # cpu.who /\ t \in Thread BY DEF Suspended, Runnable
  <1>2. cpu.at \notin {"user", "sysOn", "terminate", "pick", "current"}
    BY <1>1, PlaceOwner DEF Core, Parked, OwnContext, TakenContext, Taken
  <1>3. cpu.at \in Taken BY <1>1, <1>2, PlaceOwner
  <1>4. cpu.next = t
    <2>1. FramePlace[1] \in {cpu.who, cpu.next} /\ cpu.next \in Runnable
      BY <1>1, <1>3, PlaceOwner DEF Core, Leaving
    <2>2. CASE OwnContext(t) BY <1>1, <2>1, <2>2 DEF OwnContext
    <2>3. CASE TakenContext(t) BY <1>1, <2>1, <2>3 DEF TakenContext
    <2> QED BY <2>2, <2>3 DEF Core, Parked
  <1> QED BY <1>1, <1>3, <1>4, PlaceOwner DEF Core, Leaving

-----------------------------------------------------------------------------
(* The steps.  An interrupt that is returned from: Irq, TickStay.          *)

\* After create_thread and enter_ring3 the invariant holds.
LEMMA InitCore == Init => Core /\ Calls /\ Quantum
  <1> SUFFICES ASSUME Init PROVE Core /\ Calls /\ Quantum OBVIOUS
  <1>0. 0 \in Thread /\ Runnable = Thread BY ThreadAssumption DEF Thread, Runnable, Init
  <1>1. TypeOK
    <2>1. \A t \in Thread : [who |-> t, at |-> "new", ring |-> 3, stk |-> t, next |-> None] \in Context
      BY DEF Context, Places
    <2>2. stack \in [Thread -> [{"top", "below"} -> Context]] BY <2>1 DEF Init
    <2>3. cpu \in Context BY <1>0 DEF Init, Context, Places
    <2>4. work \in [Thread -> 0 .. WorkWrap - 1] BY ThreadAssumption DEF Init
    <2> QED BY <1>0, <2>2, <2>3, <2>4 DEF Init, TypeOK
  <1>2. Running /\ Leaving /\ Stopped
    BY <1>0 DEF Init, Running, Leaving, Stopped, Owns, InCall, Taken, None
  <1>3. Parked BY DEF Init, Parked, OwnContext, Saved, Suspended, Runnable
  <1>4. Frames BY DEF Init, Frames
  <1>5. Calls BY DEF Init, Calls, SyscallFrameIntact, InCall, Saved, Suspended, Runnable
  <1>6. Quantum BY <1>0, ThreadAssumption DEF Init, Quantum, QuantumBound, Left, None
  <1> QED BY <1>1, <1>2, <1>3, <1>4, <1>5, <1>6 DEF Core

\* What a handler that returns to the interrupted code keeps: it changes one place
\* of one kernel stack, and `exposed' notes whose identity the code had.
LEMMA ReturnedKeeps ==
  ASSUME Core, Calls, InterruptsOn, TypeOK', stack' = Pushed,
         UNCHANGED <<cpu, regs, state, current, kstack, rsp0>>,
         exposed' = (exposed \/ current \notin {cpu.who, None})
  PROVE  Core' /\ Calls'
  <1> DEFINE Here(t) == stack[regs[t][1]][regs[t][2]]
  <1>0. Runnable' = Runnable /\ Suspended' = Suspended BY DEF Runnable, Suspended
  <1>1. \A t \in Thread : Saved(t)' = IF regs[t] = FramePlace THEN cpu ELSE Saved(t)
    <2> SUFFICES ASSUME NEW t \in Thread PROVE Saved(t)' = IF regs[t] = FramePlace THEN cpu ELSE Saved(t)
      OBVIOUS
    <2>0. regs[t] \in Thread \X {"top", "below"} BY DEF Core, TypeOK
    <2>1. PICK x \in Thread, y \in {"top", "below"} : regs[t] = <<x, y>> BY <2>0
    <2>2. Pushed[x][y] = IF <<x, y>> = FramePlace THEN cpu ELSE stack[x][y]
      BY PlaceType DEF Core
    <2> QED BY <2>1, <2>2 DEF Saved
  <1>2. Running' BY <1>0 DEF Core, Running, Owns, InCall
  <1>3. Leaving' BY <1>0 DEF Core, Leaving, Owns
  <1>4. Stopped'
    BY <1>0 DEF Core, Stopped, InterruptsOn, TypeOK, Context, Leaving, Running
  <1>5. Parked'
    <2>0. ASSUME NEW t \in Suspended, NEW u \in Suspended, TakenContext(t)', TakenContext(u)',
                 Saved(t)'.who = Saved(u)'.who
          PROVE  t = u
      BY <1>0, <1>1, <2>0, PushParks DEF Core, Parked, OwnContext, TakenContext, InCall, Taken,
                                         Suspended, Runnable
    <2> SUFFICES ASSUME NEW t \in Suspended PROVE OwnContext(t)' \/ TakenContext(t)'
      BY <1>0, <2>0 DEF Parked
    <2>1. t \in Thread /\ t # cpu.who BY DEF Suspended, Runnable
    <2>2. CASE regs[t] = FramePlace
      <3>1. /\ cpu.at \in Taken /\ cpu.next = t /\ cpu.ring = 3
            /\ cpu.who \notin Runnable /\ current = t
            /\ regs[t] \in {<<t, "top">>, <<cpu.who, "top">>}
        BY <2>2, PushParks
      <3>2. Saved(t)' = cpu BY <1>1, <2>1, <2>2
      <3>3. current \notin {cpu.who, None} BY <2>1, <3>1 DEF None, Thread
      <3>4. exposed' BY <3>3
      <3> QED BY <1>0, <3>1, <3>2, <3>4 DEF TakenContext
    <2>3. CASE regs[t] # FramePlace
      <3>1. Saved(t)' = Saved(t) BY <1>1, <2>1, <2>3
      <3>2. OwnContext(t) \/ TakenContext(t) BY DEF Core, Parked
      <3>3. CASE OwnContext(t) BY <3>1, <3>3 DEF OwnContext, InCall
      <3>4. CASE TakenContext(t) BY <1>0, <3>1, <3>4 DEF TakenContext
      <3> QED BY <3>2, <3>3, <3>4
    <2> QED BY <2>2, <2>3
  <1>6. Frames'
    <2>1. cpu.at # "frame" BY DEF Core, Stopped
    <2>2. \A t \in Thread, place \in {"top", "below"} : stack'[t][place] \in {cpu, stack[t][place]}
      BY PlaceType DEF Core
    <2>3. \A t \in Thread : stack'[t].top \in {cpu, stack[t].top} /\ stack'[t].below \in {cpu, stack[t].below}
      BY <2>2
    <2> QED BY <2>1, <2>3 DEF Core, Frames
  <1>7. Calls'
    <2> SUFFICES ASSUME ~exposed, current \in {cpu.who, None} PROVE SyscallFrameIntact'
      BY DEF Calls
    <2>1. CASE Runnable = {}
      BY <1>0, <2>1 DEF SyscallFrameIntact, Suspended, InCall, InterruptsOn, Core, Running, Stopped
    <2>2. CASE Runnable # {}
      <3>1. \A t \in Runnable : t # cpu.who => FramePlace[1] # t
        BY <2>2, PlaceOwner DEF Core, Stopped, Taken, None
      <3>2. \A t \in Thread : FramePlace # <<t, "top">> => stack'[t].top = stack[t].top
        BY PlaceType DEF Core
      <3>3. \A t \in Suspended : Saved(t)' = Saved(t)
        BY <1>1, <2>2, PushParks DEF Suspended, Runnable, None, Thread
      <3>4. \A t \in Suspended : InCall(Saved(t)) => CallFrame(Saved(t))'
        BY <3>1, <3>2, <3>3 DEF Core, Parked, Calls, SyscallFrameIntact, CallFrame, Suspended, Runnable,
                           OwnContext, TakenContext, InCall, Taken
      <3>5. InCall(cpu) => CallFrame(cpu)'
        BY <3>2, PlaceType DEF Core, Calls, SyscallFrameIntact, CallFrame, InCall, Running, FramePlace, InterruptsOn
      <3> QED BY <1>0, <3>3, <3>4, <3>5 DEF SyscallFrameIntact
    <2> QED BY <2>1, <2>2
  <1> QED BY <1>2, <1>3, <1>4, <1>5, <1>6, <1>7 DEF Core

\* An interrupt other than the timer's keeps the invariant.
LEMMA IrqKeeps ==
  ASSUME IInv, Irq
  PROVE  IInv'
  <1>1. TypeOK' BY PlaceType DEF IInv, TypeOK, Irq
  <1>2. Core' /\ Calls' BY <1>1, ReturnedKeeps DEF IInv, Core, Irq
  <1>3. Quantum' BY DEF IInv, Quantum, QuantumBound, Left, Runnable, Irq
  <1> QED BY <1>1, <1>2, <1>3 DEF IInv, Core

\* A tick within the quantum keeps the invariant: the count of ticks and work move
\* together.
LEMMA TickStayKeeps ==
  ASSUME IInv, TickStay
  PROVE  IInv'
  <1>0. TypeOK BY DEF IInv
  <1>1. TypeOK'
    <2>1. work' \in [Thread -> 0 .. WorkWrap - 1] BY <1>0, ChargedValue DEF TypeOK, TickStay
    <2>2. stack' \in [Thread -> [{"top", "below"} -> Context]] BY <1>0, PlaceType DEF TickStay
    <2> QED BY <1>0, <2>1, <2>2 DEF TypeOK, TickStay
  <1>2. Core' /\ Calls' BY <1>1, ReturnedKeeps DEF IInv, Core, TickStay
  <1>3. Quantum'
    <2>0. Runnable' = Runnable BY DEF Runnable, TickStay
    <2>1. CASE current = None BY <2>1 DEF IInv, Quantum, QuantumBound, TickStay
    <2>2. CASE current # None
      <3>1. /\ current \in Runnable /\ current \in Thread
            /\ Charged # Priority[current] /\ Priority[current] # 0
        BY <1>0, <2>2 DEF TypeOK, TickStay, Expired, Runnable
      <3>2. /\ Priority[current] \in 0 .. WorkWrap - 1 /\ WorkWrap \in Nat \ {0}
            /\ work[current] \in 0 .. WorkWrap - 1 /\ ran \in Nat
        BY <1>0, <3>1, ThreadAssumption DEF TypeOK, Thread
      <3>3. /\ ran + Left(current) <= WorkWrap
            /\ by = "schedule" => work[current] = ran /\ ran < Priority[current]
        BY <2>2, <3>1, <3>2 DEF IInv, Quantum, QuantumBound
      <3>4. Charged = IF work[current] + 1 < WorkWrap THEN work[current] + 1 ELSE 0
        BY <1>0, <2>2, ChargedValue
      <3>5. work'[current] = Charged /\ ran' = ran + 1 /\ by' = by /\ current' = current
        BY <1>0, <2>2, <3>1 DEF TypeOK, TickStay
      <3>6. Left(current)' = Left(current) - 1
        BY <3>1, <3>2, <3>4, <3>5 DEF Left
      <3>7. Left(current)' >= 1 /\ Left(current) \in Int
        BY <3>1, <3>2, <3>4, <3>5 DEF Left
      <3> QED BY <2>0, <3>1, <3>2, <3>3, <3>4, <3>5, <3>6, <3>7 DEF Quantum, QuantumBound
    <2> QED BY <2>1, <2>2
  <1> QED BY <1>1, <1>2, <1>3 DEF IInv, Core

-----------------------------------------------------------------------------
(* A change of threads.                                                    *)

\* schedule keeps the invariant: it saves the interrupted context for the current
\* thread and loads the one of the thread picked, with its stacks.
LEMMA TickSwitchKeeps ==
  ASSUME IInv, TickSwitch
  PROVE  IInv'
  <1>0. TypeOK /\ Core /\ Calls BY DEF IInv, Core
  <1>a. PICK n \in Runnable : n = PickNext
    BY <1>0, PickNextRunnable DEF TickSwitch
  <1>b. PICK c \in Thread : c = current BY <1>0 DEF TypeOK, TickSwitch
  <1>1. n \in Thread /\ Runnable' = Runnable /\ Runnable # {}
    BY <1>a DEF TickSwitch, Runnable
  <1>2. /\ InterruptsOn /\ stack' = Pushed /\ state' = state
        /\ regs' = [regs EXCEPT ![c] = FramePlace]
        /\ current' = n /\ kstack' = n /\ rsp0' = n
        /\ work' = [work EXCEPT ![c] = Charged, ![n] = 0]
        /\ cpu' = Resumed(Saved(n)', 0)
        /\ ran' = 0 /\ by' = "schedule"
        /\ exposed' = (exposed \/ c # cpu.who)
    BY <1>a, <1>b DEF TickSwitch, Saved
  <1>3. regs' \in [Thread -> Thread \X {"top", "below"}]
    BY <1>0, <1>1, <1>2, PlaceType DEF TypeOK
  <1>4. stack' \in [Thread -> [{"top", "below"} -> Context]] BY <1>0, <1>2, PlaceType
  <1>5. \A t \in Thread :
          Saved(t)' = IF regs'[t] = FramePlace THEN cpu ELSE stack[regs'[t][1]][regs'[t][2]]
    <2> SUFFICES ASSUME NEW t \in Thread
                 PROVE  Saved(t)' = IF regs'[t] = FramePlace THEN cpu ELSE stack[regs'[t][1]][regs'[t][2]]
      OBVIOUS
    <2>0. regs'[t] \in Thread \X {"top", "below"} BY <1>3
    <2>1. PICK x \in Thread, y \in {"top", "below"} : regs'[t] = <<x, y>> BY <2>0
    <2>2. Pushed[x][y] = IF <<x, y>> = FramePlace THEN cpu ELSE stack[x][y]
      BY <1>0, PlaceType
    <2>3. Saved(t)' = Pushed[x][y] BY <1>2, <2>1 DEF Saved
    <2> QED BY <2>1, <2>2, <2>3
  <1>6. \A t \in Runnable \ {c} :
          /\ t \in Suspended /\ t \in Thread
          /\ regs'[t] = regs[t] /\ regs[t] # FramePlace /\ Saved(t)' = Saved(t)
    <2> SUFFICES ASSUME NEW t \in Runnable, t # c
                 PROVE  /\ t \in Suspended /\ t \in Thread
                        /\ regs'[t] = regs[t] /\ regs[t] # FramePlace /\ Saved(t)' = Saved(t)
      OBVIOUS
    <2>1. t # cpu.who BY <1>0, <1>b, <1>1, <1>2, PlaceOwner DEF Core, Leaving
    <2>2. t \in Suspended /\ t \in Thread BY <2>1 DEF Suspended, Runnable
    <2>3. regs'[t] = regs[t] BY <1>0, <1>1, <1>2, <2>2 DEF TypeOK
    <2>4. regs[t] # FramePlace BY <1>0, <1>b, <1>2, <2>2, PushParks
    <2> QED BY <1>5, <2>2, <2>3, <2>4 DEF Saved
  <1>7. regs'[c] = FramePlace /\ Saved(c)' = cpu
    BY <1>0, <1>1, <1>2, <1>5 DEF TypeOK
  \* What lies in wait for every thread, the running one included.
  <1>8. \A t \in Runnable :
          \/ /\ Saved(t)'.who = t /\ regs'[t][1] = t
             /\ \/ Saved(t)'.at \in {"new", "user", "terminate"} /\ Saved(t)'.ring = 3
                \/ InCall(Saved(t)') /\ Saved(t)'.ring = 0 /\ Saved(t)'.stk = t
          \/ /\ exposed'
             /\ Saved(t)'.at \in Taken /\ Saved(t)'.next = t /\ Saved(t)'.ring = 3
             /\ Saved(t)'.who \notin Runnable
             /\ regs'[t] \in {<<t, "top">>, <<Saved(t)'.who, "top">>}
    <2> SUFFICES ASSUME NEW t \in Runnable
        PROVE
          \/ /\ Saved(t)'.who = t /\ regs'[t][1] = t
             /\ \/ Saved(t)'.at \in {"new", "user", "terminate"} /\ Saved(t)'.ring = 3
                \/ InCall(Saved(t)') /\ Saved(t)'.ring = 0 /\ Saved(t)'.stk = t
          \/ /\ exposed'
             /\ Saved(t)'.at \in Taken /\ Saved(t)'.next = t /\ Saved(t)'.ring = 3
             /\ Saved(t)'.who \notin Runnable
             /\ regs'[t] \in {<<t, "top">>, <<Saved(t)'.who, "top">>}
      OBVIOUS
    <2>1. CASE t # c
      <3>1. exposed => exposed' BY <1>2
      <3> QED BY <1>0, <1>6, <2>1, <3>1 DEF Core, Parked, OwnContext, TakenContext
    <2>2. CASE t = c /\ cpu.at \in Taken
      <3>1. exposed' BY <1>0, <1>1, <1>2, <1>b, <2>2, PlaceOwner
      <3> QED BY <1>0, <1>1, <1>2, <1>7, <1>b, <2>2, <3>1, PlaceOwner DEF Core, Leaving, Taken
    <2>3. CASE t = c /\ cpu.at \notin Taken
      <3>1. cpu.at \in {"user", "sysOn", "terminate"} /\ cpu.who = t /\ FramePlace[1] = t
        BY <1>0, <1>1, <1>2, <1>b, <2>3, PlaceOwner DEF Core, Leaving
      <3> QED BY <1>0, <1>1, <1>2, <1>7, <2>3, <3>1, PlaceOwner DEF InCall
    <2> QED BY <2>1, <2>2, <2>3
  <1>9. /\ cpu' = IF Saved(n)'.at = "new" THEN [Saved(n)' EXCEPT !.at = "user"] ELSE Saved(n)'
        /\ Saved(n)'.at # "frame"
    BY <1>2, <1>8 DEF Resumed, InCall, Taken
  <1>10. TypeOK'
    <2>1. work' \in [Thread -> 0 .. WorkWrap - 1]
      <3>1. Charged \in 0 .. WorkWrap - 1 BY <1>0, <1>b, ChargedValue DEF None, Thread
      <3>2. 0 \in 0 .. WorkWrap - 1 BY ThreadAssumption
      <3> QED BY <1>0, <1>1, <1>2, <3>1, <3>2 DEF TypeOK
    <2>2. Saved(n)' \in Context
      <3>1. regs'[n] \in Thread \X {"top", "below"} BY <1>1, <1>3
      <3> QED BY <3>1, <1>4 DEF Saved
    <2>3. cpu' \in Context BY <1>9, <2>2 DEF Context, Places
    <2>4. exposed' \in BOOLEAN BY <1>2
    <2> QED BY <1>0, <1>1, <1>2, <1>3, <1>4, <2>1, <2>3, <2>4 DEF TypeOK
  <1>11. Running' /\ Leaving' /\ Stopped'
    <2>1. cpu'.at \notin {"new", "frame", "pick", "current", "idle", "halted", "wild"}
      BY <1>1, <1>8, <1>9, <1>10 DEF InCall, Taken, TypeOK, Context
    <2>2. /\ cpu'.at \in {"user", "sys", "sysOn", "terminate"} => cpu'.who = n
          /\ cpu'.at = "user" => cpu'.ring = 3
          /\ cpu'.at \in {"sys", "sysOn"} => cpu'.ring = 0 /\ cpu'.stk = n
          /\ cpu'.at \in Taken => cpu'.next = n /\ cpu'.who \notin Runnable
      BY <1>0, <1>1, <1>4, <1>8, <1>9, <1>10 DEF InCall, Taken, TypeOK, Context
    <2> QED BY <1>1, <1>2, <2>1, <2>2 DEF Running, Leaving, Stopped, Owns, InCall, Taken, None, Thread
  <1>12. Parked'
    <2>1. Suspended' \subseteq Runnable /\ \A t \in Suspended' : t # cpu'.who
      BY <1>1 DEF Suspended
    <2>2. ASSUME NEW t \in Runnable, NEW u \in Runnable,
                 Saved(t)'.at \in Taken, Saved(u)'.at \in Taken,
                 Saved(t)'.who = Saved(u)'.who
          PROVE  t = u
      <3>1. CASE t # c /\ u # c
        BY <1>0, <1>6, <2>2, <3>1 DEF Core, Parked, OwnContext, InCall, Taken
      <3>2. ASSUME NEW x \in Runnable, x # c, Saved(x)'.at \in Taken, cpu.at \in Taken,
                   Saved(x)'.who = cpu.who, cpu.next = c
            PROVE  FALSE
        BY <1>0, <1>6, <3>2 DEF Core, Parked, OwnContext, TakenContext, InCall, Taken
      <3>3. cpu.at \in Taken => cpu.next = c BY <1>0, <1>b DEF Core, Leaving
      <3> QED BY <1>7, <2>2, <3>1, <3>2, <3>3
    <2>3. ASSUME NEW t \in Suspended' PROVE OwnContext(t)' \/ TakenContext(t)'
      <3>1. t \in Runnable BY <2>1
      <3>2. Saved(t)'.at \in Taken /\ Saved(t)'.who \notin Runnable /\ cpu'.who = Saved(t)'.who =>
              cpu'.at \in Taken /\ cpu'.next = t
        BY <1>8, <1>9, <2>2, <3>1 DEF Taken
      <3> QED BY <1>1, <1>8, <3>1, <3>2 DEF OwnContext, TakenContext, InCall
    <2> QED BY <2>1, <2>2, <2>3 DEF Parked, TakenContext
  <1>13. Frames' /\ Calls'
    <2>1. \A t \in Thread, place \in {"top", "below"} :
            stack'[t][place] = IF <<t, place>> = FramePlace THEN cpu ELSE stack[t][place]
      BY <1>0, <1>2, PlaceType
    <2>2. Frames'
      <3>1. cpu.at # "frame" BY <1>0 DEF Core, Stopped
      <3>2. \A t \in Thread : stack'[t].top \in {cpu, stack[t].top} /\ stack'[t].below \in {cpu, stack[t].below}
        BY <2>1
      <3> QED BY <1>0, <3>1, <3>2 DEF Core, Frames
    <2>3. ASSUME ~ exposed'
          PROVE  \A t \in Runnable : InCall(Saved(t)') => CallFrame(Saved(t))'
      <3> SUFFICES ASSUME NEW t \in Runnable, InCall(Saved(t)') PROVE CallFrame(Saved(t))'
        OBVIOUS
      <3>1. ~ exposed /\ c = cpu.who /\ FramePlace[1] = c /\ SyscallFrameIntact
        BY <1>0, <1>1, <1>2, <1>b, <2>3, PlaceOwner DEF Calls, Taken
      <3>2. CASE t # c
        <4>1. stack'[t].top = stack[t].top BY <1>6, <2>1, <3>1, <3>2
        <4>2. CallFrame(Saved(t)) BY <1>6, <3>1, <3>2 DEF SyscallFrameIntact
        <4>3. Saved(t).stk = t
          BY <1>0, <1>6, <3>2 DEF Core, Parked, OwnContext, TakenContext, InCall, Taken
        <4> QED BY <1>6, <3>2, <4>1, <4>2, <4>3 DEF CallFrame
      <3>3. CASE t = c
        <4>1. InCall(cpu) /\ CallFrame(cpu) /\ FramePlace = <<c, "below">> /\ cpu.stk = c
          BY <1>0, <1>2, <1>7, <3>1, <3>3 DEF SyscallFrameIntact, InCall, InterruptsOn, FramePlace, Core, Running
        <4>2. stack'[c].top = stack[c].top BY <2>1, <4>1
        <4> QED BY <1>7, <3>3, <4>1, <4>2 DEF CallFrame
      <3> QED BY <3>2, <3>3
    <2>4. Calls'
      <3> SUFFICES ASSUME ~ exposed' PROVE SyscallFrameIntact' BY DEF Calls
      <3>1. InCall(cpu)' => CallFrame(cpu)' BY <1>1, <1>9, <2>3 DEF InCall, CallFrame
      <3>2. Suspended' \subseteq Runnable BY <1>1 DEF Suspended
      <3> QED BY <2>3, <3>1, <3>2 DEF SyscallFrameIntact, InCall
    <2> QED BY <2>2, <2>4
  <1>14. Quantum'
    <2>1. work'[n] = 0 BY <1>0, <1>1, <1>2 DEF TypeOK
    <2>2. Priority[n] \in 0 .. WorkWrap - 1 /\ WorkWrap \in Nat \ {0}
      BY <1>1, ThreadAssumption DEF Thread
    <2> QED BY <1>2, <2>1, <2>2 DEF Quantum, QuantumBound, Left
  <1> QED BY <1>10, <1>11, <1>12, <1>13, <1>14 DEF IInv

\* With no thread left to switch to, nothing but the interrupted code goes on.
LEMMA TickNobodyKeeps ==
  ASSUME IInv, TickNobody
  PROVE  IInv'
  <1>0. TypeOK /\ Core BY DEF IInv, Core
  <1>1. Runnable = {} /\ Runnable' = {} /\ Suspended' = {} /\ current \in Thread
    <2>1. Runnable = {} BY <1>0, PickNextRunnable DEF TickNobody, Runnable, None, Thread
    <2> QED BY <1>0, <2>1 DEF TickNobody, Runnable, Suspended, TypeOK
  <1>2. TypeOK'
    <2>1. Charged \in 0 .. WorkWrap - 1 BY <1>0, ChargedValue DEF TickNobody
    <2>2. stack' \in [Thread -> [{"top", "below"} -> Context]] BY <1>0, PlaceType DEF TickNobody
    <2>3. regs' \in [Thread -> Thread \X {"top", "below"}]
      BY <1>0, <1>1, PlaceType DEF TickNobody, TypeOK
    <2>4. exposed' \in BOOLEAN BY DEF TickNobody
    <2> QED BY <1>0, <1>1, <2>1, <2>2, <2>3, <2>4 DEF TickNobody, TypeOK
  <1>3. Running' /\ Leaving' /\ Stopped'
    BY <1>0, <1>1 DEF Core, Running, Leaving, Stopped, TickNobody, InterruptsOn, Owns, InCall
  <1>4. Parked' BY <1>1 DEF Parked
  <1>5. Frames'
    <2>1. \A t \in Thread, place \in {"top", "below"} : stack'[t][place] \in {cpu, stack[t][place]}
      BY <1>0, PlaceType DEF TickNobody
    <2>2. \A t \in Thread : stack'[t].top \in {cpu, stack[t].top} /\ stack'[t].below \in {cpu, stack[t].below}
      BY <2>1
    <2> QED BY <1>0, <2>2 DEF Core, Stopped, Frames
  <1>6. ~ InCall(cpu)' BY <1>0, <1>1 DEF Core, Running, InCall, TickNobody
  <1>7. Calls' BY <1>1, <1>6 DEF Calls, SyscallFrameIntact
  <1>8. Quantum' BY <1>1 DEF IInv, Quantum, QuantumBound, TickNobody
  <1> QED BY <1>2, <1>3, <1>4, <1>5, <1>7, <1>8 DEF IInv

-----------------------------------------------------------------------------
(* System calls.                                                           *)

\* Entering a system call keeps the invariant: handle_syscall writes over the top of
\* the caller's own stack, which holds no context that is still waited for.
LEMMA SyscallKeeps ==
  ASSUME IInv, Syscall
  PROVE  IInv'
  <1>0. TypeOK /\ Core BY DEF IInv, Core
  <1>1. PICK k \in Thread : k = kstack /\ k = cpu.who /\ k \in Runnable /\ Owns(k) /\ cpu.ring = 3
    <2>1. cpu.at = "user" BY DEF Syscall
    <2>2. cpu.ring = 3 /\ Owns(cpu.who) /\ cpu.who \in Runnable BY <1>0, <2>1 DEF Core, Running
    <2>3. kstack = cpu.who /\ cpu.who \in Thread BY <2>2 DEF Owns, Runnable
    <2> QED BY <2>2, <2>3
  <1>2. PICK f \in Context :
          f.who = k /\ f.at = "frame" /\ f.ring = 3 /\ f.stk = k
          /\ stack' = [stack EXCEPT ![k].top = f]
    <2>1. [who |-> k, at |-> "frame", ring |-> 3, stk |-> k, next |-> None] \in Context
      BY DEF Context, Places
    <2> QED BY <1>1, <2>1 DEF Syscall
  <1>3. \A t \in Thread : /\ stack'[t].top = IF t = k THEN f ELSE stack[t].top
                          /\ stack'[t].below = stack[t].below
    BY <1>0, <1>2 DEF TypeOK
  <1>4. TypeOK'
    <2>1. cpu' \in Context BY <1>0, <1>1 DEF TypeOK, Context, Places, Syscall
    <2>2. stack' \in [Thread -> [{"top", "below"} -> Context]] BY <1>0, <1>2 DEF TypeOK
    <2> QED BY <1>0, <2>1, <2>2 DEF TypeOK, Syscall
  <1>5. /\ Runnable' = Runnable /\ Suspended' = Suspended
        /\ cpu'.who = k /\ cpu'.at = "sys" /\ cpu'.ring = 0 /\ cpu'.stk = k
    BY <1>0, <1>1 DEF Runnable, Suspended, Syscall, TypeOK, Context
  <1>6. \A t \in Suspended : t \in Thread /\ t # k /\ Saved(t)' = Saved(t)
    <2> SUFFICES ASSUME NEW t \in Suspended PROVE t \in Thread /\ t # k /\ Saved(t)' = Saved(t)
      OBVIOUS
    <2>1. t \in Thread /\ t # k BY <1>1 DEF Suspended, Runnable
    <2>2. regs[t] \in Thread \X {"top", "below"} BY <1>0, <2>1 DEF TypeOK
    <2>3. regs[t][1] # k BY <1>0, <1>1, <2>1 DEF Core, Parked, OwnContext, TakenContext
    <2> QED BY <1>3, <2>1, <2>2, <2>3 DEF Saved, Syscall
  <1>7. Running' /\ Leaving' /\ Stopped'
    BY <1>1, <1>5 DEF Running, Leaving, Stopped, Owns, InCall, Taken, Syscall, None, Thread
  <1>8. Parked'
    BY <1>0, <1>1, <1>5, <1>6 DEF Core, Parked, OwnContext, TakenContext, InCall, Syscall
  <1>9. Frames' BY <1>0, <1>2, <1>3 DEF Core, Frames
  <1>10. Calls'
    <2> SUFFICES ASSUME ~ exposed PROVE SyscallFrameIntact' BY DEF Calls, Syscall
    <2>1. CallFrame(cpu)' BY <1>2, <1>3, <1>5 DEF CallFrame
    <2>2. ASSUME NEW t \in Suspended, InCall(Saved(t)') PROVE CallFrame(Saved(t))'
      <3>1. CallFrame(Saved(t)) BY <1>6, <2>2 DEF IInv, Calls, SyscallFrameIntact
      <3>2. Saved(t).stk = t
        BY <1>0, <1>6, <2>2 DEF Core, Parked, OwnContext, TakenContext, InCall, Taken
      <3> QED BY <1>3, <1>6, <3>1, <3>2 DEF CallFrame
    <2> QED BY <1>5, <2>1, <2>2 DEF SyscallFrameIntact, InCall
  <1>11. Quantum' BY DEF IInv, Quantum, QuantumBound, Left, Runnable, Syscall
  <1> QED BY <1>4, <1>7, <1>8, <1>9, <1>10, <1>11 DEF IInv

\* Turning interrupts on in a system call keeps the invariant.
LEMMA SyscallEnablesKeeps ==
  ASSUME IInv, SyscallEnables
  PROVE  IInv'
  <1>0. cpu' = [cpu EXCEPT !.at = "sysOn"] /\ cpu.at = "sys" /\ cpu \in Context
    BY DEF SyscallEnables, IInv, TypeOK
  <1>1. /\ cpu' \in Context
        /\ cpu'.who = cpu.who /\ cpu'.at = "sysOn" /\ cpu'.ring = cpu.ring /\ cpu'.stk = cpu.stk
    BY <1>0 DEF Context, Places
  <1>2. TypeOK' BY <1>1 DEF IInv, TypeOK, SyscallEnables
  <1>3. Runnable' = Runnable /\ Suspended' = Suspended BY <1>1 DEF Runnable, Suspended, SyscallEnables
  <1>4. \A t : Saved(t)' = Saved(t) BY DEF Saved, SyscallEnables
  <1>5. Running' /\ Leaving' /\ Stopped'
    BY <1>0, <1>1, <1>3 DEF IInv, Running, Leaving, Stopped, Owns, InCall, Taken, SyscallEnables, None, Thread
  <1>6. Parked'
    BY <1>0, <1>1, <1>3, <1>4 DEF IInv, Parked, OwnContext, TakenContext, Taken, SyscallEnables
  <1>7. Frames' BY DEF IInv, Frames, SyscallEnables
  <1>8. Calls'
    BY <1>0, <1>1, <1>3, <1>4 DEF IInv, Calls, SyscallFrameIntact, CallFrame, InCall, SyscallEnables
  <1>9. Quantum' BY DEF IInv, Quantum, QuantumBound, Left, Runnable, SyscallEnables
  <1> QED BY <1>2, <1>5, <1>6, <1>7, <1>8, <1>9 DEF IInv

\* Returning from a system call keeps the invariant: outside of the exposed case
\* the registers come from the caller's own frame.
LEMMA SyscallReturnKeeps ==
  ASSUME IInv, SyscallReturn
  PROVE  IInv'
  <1>0. /\ cpu \in Context /\ InCall(cpu) /\ cpu.stk = cpu.who /\ cpu.who \in Thread
        /\ Owns(cpu.who) /\ cpu.who \in Runnable
    BY DEF SyscallReturn, IInv, TypeOK, Context, Running, InCall
  <1>1. PICK f \in Context : f = stack[cpu.stk].top BY <1>0 DEF IInv, TypeOK
  <1>2. \/ /\ f.at = "frame" /\ cpu' = [f EXCEPT !.at = "user"]
           /\ f.who = cpu.who /\ f.ring = 3
        \/ cpu' = [cpu EXCEPT !.at = "wild"] /\ exposed
    <2>1. f.at = "frame" => f.who = cpu.who /\ f.ring = 3 BY <1>0, <1>1 DEF IInv, Frames
    <2>2. f.at # "frame" => exposed
      BY <1>0, <1>1 DEF IInv, Calls, SyscallFrameIntact, CallFrame
    <2> QED BY <1>1, <2>1, <2>2 DEF SyscallReturn
  <1>3. /\ cpu' \in Context /\ cpu'.who = cpu.who
        /\ \/ cpu'.at = "user" /\ cpu'.ring = 3
           \/ cpu'.at = "wild" /\ exposed
    BY <1>0, <1>2 DEF Context, Places
  <1>4. TypeOK' BY <1>3 DEF IInv, TypeOK, SyscallReturn
  <1>5. Runnable' = Runnable /\ Suspended' = Suspended BY <1>3 DEF Runnable, Suspended, SyscallReturn
  <1>6. \A t : Saved(t)' = Saved(t) BY DEF Saved, SyscallReturn
  <1>7. Running' /\ Leaving' /\ Stopped'
    BY <1>0, <1>3, <1>5 DEF Running, Leaving, Stopped, Owns, InCall, Taken, SyscallReturn, None, Thread
  <1>8. Parked'
    <2>1. \A t : OwnContext(t)' <=> OwnContext(t) BY <1>6 DEF OwnContext, InCall, SyscallReturn
    <2>2. \A t : TakenContext(t)' <=> TakenContext(t)
      BY <1>0, <1>3, <1>5, <1>6 DEF TakenContext, SyscallReturn
    <2>3. Parked BY DEF IInv
    <2> QED BY <1>5, <1>6, <2>1, <2>2, <2>3 DEF Parked
  <1>9. Frames' BY DEF IInv, Frames, SyscallReturn
  <1>10. Calls'
    BY <1>3, <1>5, <1>6 DEF IInv, Calls, SyscallFrameIntact, CallFrame, InCall, SyscallReturn
  <1>11. Quantum' BY DEF IInv, Quantum, QuantumBound, Left, Runnable, SyscallReturn
  <1> QED BY <1>4, <1>7, <1>8, <1>9, <1>10, <1>11 DEF IInv

-----------------------------------------------------------------------------
(* exit_current.                                                           *)

\* Calling exit_current, from sys_exit or thread_wrapper, keeps the invariant.
LEMMA ExitKeeps ==
  ASSUME IInv, Exit
  PROVE  IInv'
  <1>0. cpu' = [cpu EXCEPT !.at = "terminate"] /\ cpu.at \in {"user", "sys"} /\ cpu \in Context
    BY DEF Exit, IInv, TypeOK
  <1>1. /\ cpu' \in Context /\ cpu'.at = "terminate"
        /\ cpu'.who = cpu.who /\ cpu'.ring = cpu.ring /\ cpu'.stk = cpu.stk
    BY <1>0 DEF Context, Places
  <1>2. TypeOK' BY <1>1 DEF IInv, TypeOK, Exit
  <1>3. Runnable' = Runnable /\ Suspended' = Suspended BY <1>1 DEF Runnable, Suspended, Exit
  <1>4. \A t : Saved(t)' = Saved(t) BY DEF Saved, Exit
  <1>5. Running' /\ Leaving' /\ Stopped'
    BY <1>0, <1>1, <1>3 DEF IInv, Running, Leaving, Stopped, Owns, InCall, Taken, Exit, None, Thread
  <1>6. Parked'
    BY <1>0, <1>1, <1>3, <1>4 DEF IInv, Parked, OwnContext, TakenContext, Taken, Exit
  <1>7. Frames' BY DEF IInv, Frames, Exit
  <1>8. Calls'
    BY <1>0, <1>1, <1>3, <1>4 DEF IInv, Calls, SyscallFrameIntact, CallFrame, InCall, Exit
  <1>9. Quantum' BY DEF IInv, Quantum, QuantumBound, Left, Runnable, Exit
  <1> QED BY <1>2, <1>5, <1>6, <1>7, <1>8, <1>9 DEF IInv

\* exit_current marks its own thread Terminated and keeps the invariant.
LEMMA ExitTerminateKeeps ==
  ASSUME IInv, ExitTerminate
  PROVE  IInv'
  <1>0. /\ cpu' = [cpu EXCEPT !.at = "pick"] /\ cpu.at = "terminate" /\ cpu \in Context
        /\ Owns(cpu.who) /\ cpu.who \in Runnable /\ cpu.who \in Thread
    BY DEF ExitTerminate, IInv, TypeOK, Running, Context
  <1>1. /\ cpu' \in Context /\ cpu'.at = "pick"
        /\ cpu'.who = cpu.who /\ cpu'.ring = cpu.ring /\ cpu'.stk = cpu.stk
    BY <1>0 DEF Context, Places
  <1>2. state' = [state EXCEPT ![cpu.who] = "Terminated"]
    BY <1>0 DEF ExitTerminate, Owns, None, Thread
  <1>3. TypeOK' BY <1>0, <1>1, <1>2 DEF IInv, TypeOK, ExitTerminate
  <1>4. Runnable' = Runnable \ {cpu.who} /\ Suspended' = Suspended
    BY <1>0, <1>1, <1>2 DEF Runnable, Suspended, IInv, TypeOK
  <1>5. \A t : Saved(t)' = Saved(t) BY DEF Saved, ExitTerminate
  <1>6. Running' /\ Leaving' /\ Stopped'
    BY <1>0, <1>1, <1>4 DEF Running, Leaving, Stopped, Owns, InCall, Taken, ExitTerminate, None, Thread
  <1>7. Parked'
    BY <1>0, <1>1, <1>4, <1>5 DEF IInv, Parked, OwnContext, TakenContext, Taken, InCall, ExitTerminate
  <1>8. Frames' BY DEF IInv, Frames, ExitTerminate
  <1>9. Calls'
    BY <1>0, <1>1, <1>4, <1>5 DEF IInv, Calls, SyscallFrameIntact, CallFrame, InCall, ExitTerminate
  <1>10. Quantum' BY <1>4 DEF IInv, Quantum, QuantumBound, Left, ExitTerminate
  <1> QED BY <1>3, <1>6, <1>7, <1>8, <1>9, <1>10 DEF IInv

\* exit_current picks a runnable thread or stops, and keeps the invariant.
LEMMA ExitPickKeeps ==
  ASSUME IInv, ExitPick
  PROVE  IInv'
  <1>0. /\ cpu.at = "pick" /\ cpu \in Context /\ cpu.who \in Thread
        /\ Owns(cpu.who) /\ cpu.who \notin Runnable
    BY DEF ExitPick, IInv, TypeOK, Leaving, Context
  <1>1. Runnable' = Runnable BY DEF Runnable, ExitPick
  <1>2. \A t : Saved(t)' = Saved(t) BY DEF Saved, ExitPick
  <1>3. CASE Runnable = {}
    <2>1. current' = None /\ cpu' = [cpu EXCEPT !.at = IF cpu.ring = 3 THEN "halted" ELSE "idle"]
      BY <1>3, PickNextRunnable DEF ExitPick, IInv
    <2>2. /\ cpu' \in Context /\ cpu'.at \in {"halted", "idle"}
          /\ cpu'.at = "idle" => cpu'.ring = 0
      BY <1>0, <2>1 DEF Context, Places
    <2>3. TypeOK' BY <2>1, <2>2 DEF IInv, TypeOK, ExitPick
    <2>4. Suspended' = {} BY <1>1, <1>3 DEF Suspended
    <2>5. Running' /\ Leaving' /\ Stopped'
      BY <1>1, <1>3, <2>2 DEF Running, Leaving, Stopped, InCall, Taken
    <2>6. Parked' /\ Calls' BY <2>2, <2>4 DEF Parked, Calls, SyscallFrameIntact, InCall
    <2>7. Frames' BY DEF IInv, Frames, ExitPick
    <2>8. Quantum' BY <2>1 DEF Quantum, QuantumBound
    <2> QED BY <2>3, <2>5, <2>6, <2>7, <2>8 DEF IInv
  <1>4. CASE Runnable # {}
    <2>0. PICK n \in Runnable : n = PickNext BY <1>4, PickNextRunnable DEF IInv
    <2>1. current' = current /\ cpu' = [cpu EXCEPT !.at = "current", !.next = n] /\ n \in Thread
      BY <2>0 DEF ExitPick, None, Thread, Runnable
    <2>2. /\ cpu' \in Context /\ cpu'.at = "current" /\ cpu'.next = n
          /\ cpu'.who = cpu.who
      BY <1>0, <2>1 DEF Context, Places
    <2>3. TypeOK' BY <2>1, <2>2 DEF IInv, TypeOK, ExitPick
    <2>4. Suspended' = Suspended BY <1>1, <2>2 DEF Suspended
    <2>5. Running' /\ Leaving' /\ Stopped'
      BY <1>0, <1>1, <1>4, <2>1, <2>2 DEF Running, Leaving, Stopped, InCall, Taken, Owns, ExitPick, None, Thread
    <2>6. Parked'
      BY <1>0, <1>1, <1>2, <2>2, <2>4 DEF IInv, Parked, OwnContext, TakenContext, InCall, Taken, ExitPick
    <2>7. Calls'
      BY <1>2, <2>2, <2>4 DEF IInv, Calls, SyscallFrameIntact, CallFrame, InCall, ExitPick
    <2>8. Frames' BY DEF IInv, Frames, ExitPick
    <2>9. Quantum' BY <1>1, <2>1 DEF IInv, Quantum, QuantumBound, Left, ExitPick
    <2> QED BY <2>3, <2>5, <2>6, <2>7, <2>8, <2>9 DEF IInv
  <1> QED BY <1>3, <1>4

\* The three writes that make the next thread the current one.
LEMMA TakeKeeps ==
  ASSUME IInv, TypeOK', Running', Leaving', Stopped', Quantum',
         cpu.at \in {"current"} \cup Taken, cpu'.at \in Taken,
         cpu'.who = cpu.who, cpu'.next = cpu.next,
         UNCHANGED <<stack, regs, state, exposed>>
  PROVE  IInv'
  <1>1. Runnable' = Runnable /\ Suspended' = Suspended BY DEF Runnable, Suspended
  <1>2. \A t : Saved(t)' = Saved(t) BY DEF Saved
  <1>3. Parked'
    BY <1>1, <1>2 DEF IInv, Parked, OwnContext, TakenContext, InCall, Taken
  <1>4. Frames' BY DEF IInv, Frames
  <1>5. Calls' BY <1>1, <1>2 DEF IInv, Calls, SyscallFrameIntact, CallFrame, InCall, Taken
  <1> QED BY <1>3, <1>4, <1>5 DEF IInv

\* exit_current sets current_thread and keeps the invariant.
LEMMA ExitCurrentKeeps ==
  ASSUME IInv, ExitCurrent
  PROVE  IInv'
  <1>0. /\ cpu.at = "current" /\ cpu \in Context /\ cpu.next \in Runnable /\ cpu.next \in Thread
        /\ Owns(cpu.who) /\ cpu.who \notin Runnable
    BY DEF ExitCurrent, IInv, TypeOK, Leaving, Runnable
  <1>1. /\ cpu' \in Context /\ cpu'.at = "kstack" /\ cpu'.next = cpu.next /\ cpu'.who = cpu.who
    BY <1>0 DEF Context, Places, ExitCurrent
  <1>2. TypeOK' BY <1>0, <1>1 DEF IInv, TypeOK, ExitCurrent
  <1>3. Runnable' = Runnable BY DEF Runnable, ExitCurrent
  <1>4. Running' /\ Leaving' /\ Stopped'
    BY <1>0, <1>1, <1>3 DEF Running, Leaving, Stopped, InCall, Taken, Owns, ExitCurrent, None, Thread
  <1>5. Quantum'
    <2>1. /\ Priority[cpu.next] \in 0 .. WorkWrap - 1 /\ work[cpu.next] \in 0 .. WorkWrap - 1
          /\ WorkWrap \in Nat \ {0}
      BY <1>0, ThreadAssumption DEF IInv, TypeOK, Thread
    <2> QED BY <2>1 DEF Quantum, QuantumBound, Left, ExitCurrent
  <1> QED BY <1>0, <1>1, <1>2, <1>4, <1>5, TakeKeeps DEF ExitCurrent, Taken

\* exit_current sets current_kernel_stack and keeps the invariant.
LEMMA ExitKstackKeeps ==
  ASSUME IInv, ExitKstack
  PROVE  IInv'
  <1>0. /\ cpu.at = "kstack" /\ cpu \in Context /\ cpu.next \in Runnable /\ cpu.next \in Thread
        /\ current = cpu.next /\ rsp0 \in {cpu.who, cpu.next} /\ cpu.who \notin Runnable
    BY DEF ExitKstack, IInv, TypeOK, Leaving, Runnable, Taken
  <1>1. /\ cpu' \in Context /\ cpu'.at = "rsp0" /\ cpu'.next = cpu.next /\ cpu'.who = cpu.who
    BY <1>0 DEF Context, Places, ExitKstack
  <1>2. TypeOK' BY <1>0, <1>1 DEF IInv, TypeOK, ExitKstack
  <1>3. Runnable' = Runnable BY DEF Runnable, ExitKstack
  <1>4. Running' /\ Leaving' /\ Stopped'
    BY <1>0, <1>1, <1>3 DEF Running, Leaving, Stopped, InCall, Taken, Owns, ExitKstack, None, Thread
  <1>5. Quantum' BY <1>3 DEF IInv, Quantum, QuantumBound, Left, ExitKstack
  <1> QED BY <1>0, <1>1, <1>2, <1>4, <1>5, TakeKeeps DEF ExitKstack, Taken

\* exit_current sets tss.rsp0 and keeps the invariant.
LEMMA ExitRsp0Keeps ==
  ASSUME IInv, ExitRsp0
  PROVE  IInv'
  <1>0. /\ cpu.at = "rsp0" /\ cpu \in Context /\ cpu.next \in Runnable /\ cpu.next \in Thread
        /\ current = cpu.next /\ kstack = cpu.next /\ cpu.who \notin Runnable
    BY DEF ExitRsp0, IInv, TypeOK, Leaving, Runnable, Taken
  <1>1. /\ cpu' \in Context /\ cpu'.at = "restore" /\ cpu'.next = cpu.next /\ cpu'.who = cpu.who
    BY <1>0 DEF Context, Places, ExitRsp0
  <1>2. TypeOK' BY <1>0, <1>1 DEF IInv, TypeOK, ExitRsp0
  <1>3. Runnable' = Runnable BY DEF Runnable, ExitRsp0
  <1>4. Running' /\ Leaving' /\ Stopped'
    BY <1>0, <1>1, <1>3 DEF Running, Leaving, Stopped, InCall, Taken, Owns, ExitRsp0, None, Thread
  <1>5. Quantum' BY <1>3 DEF IInv, Quantum, QuantumBound, Left, ExitRsp0
  <1> QED BY <1>0, <1>1, <1>2, <1>4, <1>5, TakeKeeps DEF ExitRsp0, Taken

\* asm_restore_frame in exit_current keeps the invariant: it resumes the context of
\* the thread picked, or, from ring 3, faults if that was in a system call.
LEMMA ExitRestoreKeeps ==
  ASSUME IInv, ExitRestore
  PROVE  IInv'
  <1>0. /\ cpu.at = "restore" /\ cpu \in Context /\ cpu.who \notin Runnable /\ cpu.next \in Runnable
        /\ current = cpu.next /\ kstack = cpu.next /\ rsp0 = cpu.next
    BY DEF ExitRestore, IInv, TypeOK, Leaving, Taken
  <1>1. PICK n \in Runnable : n = cpu.next BY <1>0
  <1>2. n \in Thread /\ n \in Suspended BY <1>0, <1>1 DEF Runnable, Suspended
  <1>3. PICK c \in Context : c = Saved(n)
    <2>1. regs[n] \in Thread \X {"top", "below"} BY <1>2 DEF IInv, TypeOK
    <2> QED BY <2>1 DEF Saved, IInv, TypeOK
  <1>4. cpu' = Resumed(c, cpu.ring) BY <1>1, <1>3 DEF ExitRestore, Saved
  <1>5. /\ c.at \in {"new", "user", "terminate", "sys", "sysOn"} \cup Taken
        /\ c.at \notin Taken => c.who = n
        /\ c.at \in {"new", "user", "terminate"} \cup Taken => c.ring = 3
        /\ InCall(c) => c.ring = 0 /\ c.stk = n
        /\ c.at \in Taken => exposed /\ c.next = n /\ c.who \notin Runnable
    BY <1>2, <1>3 DEF IInv, Parked, OwnContext, TakenContext, InCall, Taken
  <1>6. /\ cpu' \in Context /\ cpu'.who = c.who /\ cpu'.ring = c.ring /\ cpu'.stk = c.stk
        /\ cpu'.next = c.next
        /\ \/ c.at = "new" /\ cpu'.at = "user"
           \/ c.at # "new" /\ cpu'.at = c.at
           \/ InCall(c) /\ cpu'.at = "halted"
    BY <1>4, <1>5 DEF Resumed, Context, Places, InCall, Taken
  <1>7. TypeOK' BY <1>6 DEF IInv, TypeOK, ExitRestore
  <1>8. Runnable' = Runnable BY DEF Runnable, ExitRestore
  <1>9. \A t : Saved(t)' = Saved(t) BY DEF Saved, ExitRestore
  <1>10. Running' /\ Leaving'
    BY <1>0, <1>1, <1>5, <1>6, <1>8 DEF Running, Leaving, InCall, Taken, Owns, ExitRestore
  <1>11. Stopped'
    <2>1. cpu'.at = "halted" => current' = cpu'.who /\ InCall(c) /\ cpu'.who = n
      BY <1>0, <1>1, <1>5, <1>6 DEF InCall, Taken, ExitRestore
    <2>2. cpu'.who = n => Saved(cpu.who)' = c BY <1>3 DEF Saved, ExitRestore
    <2>3. cpu'.at \in {"user", "terminate", "sys", "sysOn", "halted"} \cup Taken
      <3>1. cpu'.at \in {"user", "halted"} \/ (c.at # "new" /\ cpu'.at = c.at) BY <1>6
      <3> QED BY <1>5, <3>1
    <2>4. cpu'.at \notin {"new", "frame", "idle", "wild"} BY <2>3 DEF Taken
    <2>5. current' # None
      <3>1. current' = n BY <1>0, <1>1 DEF ExitRestore
      <3> QED BY <1>2, <3>1 DEF None, Thread
    <2> QED BY <2>1, <2>2, <2>4, <2>5 DEF Stopped, InCall
  <1>12. Parked'
    <2>1. Suspended' \subseteq Suspended /\ \A t \in Suspended' : t # cpu'.who
      BY <1>0, <1>8 DEF Suspended
    <2>2. ASSUME NEW t \in Suspended, TakenContext(t), c.who = Saved(t).who
          PROVE  cpu'.at \in Taken /\ cpu'.next = t
      <3>1. c.at \in Taken BY <1>5, <2>2 DEF TakenContext
      <3>2. t = n
        BY <1>2, <1>3, <2>2, <3>1 DEF IInv, Parked, OwnContext, InCall, Taken
      <3> QED BY <1>5, <1>6, <3>1, <3>2 DEF InCall, Taken
    <2>3. ASSUME NEW t \in Suspended' PROVE OwnContext(t)' \/ TakenContext(t)'
      <3>1. CASE OwnContext(t) BY <1>9, <3>1 DEF OwnContext, InCall, ExitRestore
      <3>2. CASE TakenContext(t)
        BY <1>6, <1>8, <1>9, <2>1, <2>2, <3>2 DEF TakenContext, ExitRestore
      <3> QED BY <2>1, <3>1, <3>2 DEF IInv, Parked
    <2>4. \A t, u \in Suspended' : TakenContext(t)' /\ TakenContext(u)'
            /\ Saved(t)'.who = Saved(u)'.who => t = u
      BY <1>9, <2>1 DEF IInv, Parked, OwnContext, TakenContext, InCall, Taken
    <2> QED BY <2>3, <2>4 DEF Parked
  <1>13. Frames' BY DEF IInv, Frames, ExitRestore
  <1>14. Calls'
    <2>1. Suspended' \subseteq Suspended BY <1>0, <1>8 DEF Suspended
    <2>2. ~ exposed /\ InCall(c) => CallFrame(c)
      BY <1>2, <1>3 DEF IInv, Calls, SyscallFrameIntact
    <2> QED BY <1>6, <1>9, <2>1, <2>2 DEF IInv, Calls, SyscallFrameIntact, CallFrame, InCall, ExitRestore
  <1>15. Quantum' BY <1>8 DEF IInv, Quantum, QuantumBound, Left, ExitRestore
  <1> QED BY <1>7, <1>10, <1>11, <1>12, <1>13, <1>14, <1>15 DEF IInv

-----------------------------------------------------------------------------
\* IInv is an invariant of the scheduler: every handler and every step of
\* exit_current in Process_manager.cpp and handlers.cpp keeps it.
THEOREM SchedulerInvariant == Spec => []IInv
  <1>1. Init => IInv BY InitCore DEF IInv, Core
  <1>2. IInv /\ [Next]_vars => IInv'
    <2> SUFFICES ASSUME IInv, [Next]_vars PROVE IInv' OBVIOUS
    <2>1. CASE UNCHANGED vars
      <3>0. /\ UNCHANGED <<cpu, stack, regs, state, work, current, kstack, rsp0, ran, by, exposed>>
            /\ Runnable' = Runnable /\ Suspended' = Suspended
            /\ \A t : Saved(t)' = Saved(t)
        BY <2>1 DEF vars, Runnable, Suspended, Saved
      <3>1. TypeOK' BY <3>0 DEF IInv, TypeOK
      <3>2. Running' BY <3>0 DEF IInv, Running, Owns, InCall
      <3>3. Leaving' BY <3>0 DEF IInv, Leaving, Owns, Taken
      <3>4. Stopped' BY <3>0 DEF IInv, Stopped, InCall
      <3>5. Parked' BY <3>0 DEF IInv, Parked, OwnContext, TakenContext, Taken, InCall
      <3>6. Frames' BY <3>0 DEF IInv, Frames
      <3>7. Calls' BY <3>0 DEF IInv, Calls, SyscallFrameIntact, CallFrame, InCall
      <3>8. Quantum' BY <3>0 DEF IInv, Quantum, QuantumBound, Left
      <3> QED BY <3>1, <3>2, <3>3, <3>4, <3>5, <3>6, <3>7, <3>8 DEF IInv
    <2>2. CASE Next
      BY <2>2, IrqKeeps, TickStayKeeps, TickSwitchKeeps, TickNobodyKeeps, SyscallKeeps,
         SyscallEnablesKeeps, SyscallReturnKeeps, ExitKeeps, ExitTerminateKeeps, ExitPickKeeps,
         ExitCurrentKeeps, ExitKstackKeeps, ExitRsp0Keeps, ExitRestoreKeeps
      DEF Next, Tick, ExitStep
    <2> QED BY <2>1, <2>2
  <1> QED BY <1>1, <1>2, PTL DEF Spec

\* Unless an interrupt hit exit_current in ring 3, each waiting thread will be resumed
\* with its own registers from its own stack, the frame of a system call is intact as
\* long as the call lasts, and a running thread's interrupts use its own stack.
THEOREM ContextsTheorem == Spec => []ContextsKept
  <1>1. IInv => ContextsKept
    <2> SUFFICES ASSUME IInv, ~ exposed PROVE SavedIsOwn /\ SyscallFrameIntact /\ StacksFollow
      BY DEF ContextsKept
    <2>1. SavedIsOwn BY DEF IInv, Parked, OwnContext, TakenContext, SavedIsOwn, InCall
    <2>2. SyscallFrameIntact BY DEF IInv, Calls
    <2>3. StacksFollow BY DEF IInv, Running, Owns, StacksFollow, InCall
    <2> QED BY <2>1, <2>2, <2>3
  <1> QED BY <1>1, SchedulerInvariant, PTL

\* A thread that exit_current terminated never runs its own code or a system call
\* again, not even when an interrupt hit exit_current on its way out.
THEOREM NoResurrectionTheorem == Spec => []NoResurrection
  <1>1. IInv => NoResurrection BY DEF IInv, Running, NoResurrection, InCall, Runnable
  <1> QED BY <1>1, SchedulerInvariant, PTL

\* The processor stops before the last thread has ended in one way only: a thread
\* returned from its function and the next one had been preempted in a system call.
THEOREM StopsTheorem == Spec => []StopsKnown
  <1>1. IInv => StopsKnown BY DEF IInv, Stopped, StopsKnown
  <1> QED BY <1>1, SchedulerInvariant, PTL

\* schedule preempts a thread it chose at the end of its quantum; one that
\* exit_current chose runs until its work count, a uint8_t, has wrapped around.
THEOREM QuantumTheorem == Spec => []QuantumBound
  <1>1. IInv => QuantumBound BY DEF IInv, Quantum
  <1> QED BY <1>1, SchedulerInvariant, PTL
=============================================================================
