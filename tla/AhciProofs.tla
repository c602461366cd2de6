----------------------------- MODULE AhciProofs -----------------------------
(***************************************************************************)
(* Proofs about a port of the AHCI driver, for every number of threads,    *)
(* slots, commands, errors and timeouts.  A sound state has the invariant  *)
(* Core; the system stops at the first state that is not sound, so what is *)
(* shown of such a state is shown where it is reached.  The heart of Core: *)
(* a slot that is not issued any more had its command carried out, or its  *)
(* error flag is up and the thread that owns it will look at the flag next.*)
(***************************************************************************)
EXTENDS Ahci, FiniteSetTheorems, TLAPS

Places   == {"idle", "slot", "issue", "poll", "look"}
Live(t)  == thr[t].at # "idle"
Waits(t) == thr[t].at \in {"poll", "look"}
Holds(t) == thr[t].at = "issue" \/ Waits(t)

TypeOK ==
  /\ ci \subseteq Slots /\ busy \in ci \cup {None} /\ ccs \in Slots
  /\ cmd \in [Slots -> Nat] /\ count \in Nat
  /\ thr \in [Threads -> [at : Places, n : Nat, slot : Slots \cup {None}]]

\* Every call has a number of its own, and a number is in the table of one slot.
Numbered ==
  /\ \A t \in Threads : Live(t) => thr[t].n \in 1 .. count
  /\ \A t, u \in Threads : Live(t) /\ Live(u) /\ thr[t].n = thr[u].n => t = u
  /\ \A s \in Slots : cmd[s] <= count
  /\ \A s, r \in Slots : cmd[s] = cmd[r] => s = r \/ cmd[s] = 0
  /\ \A t \in Threads, s \in Slots : thr[t].at = "slot" => cmd[s] # thr[t].n

\* A thread's slot holds its command until the thread is done with it.
Held ==
  \A t \in Threads :
    /\ Holds(t) => thr[t].slot \in Slots /\ cmd[thr[t].slot] = thr[t].n
    /\ thr[t].at = "issue" => thr[t].slot \notin ci

\* The end of a wait: carried out, or in error and about to be noticed.
Answered ==
  \A t \in Threads : Waits(t) /\ thr[t].slot \notin ci =>
    thr[t].n \in ran \/ (thr[t].at = "poll" /\ thr[t].slot \in error)

\* An error flag is up for a thread that polls.
Flagged ==
  /\ error \cap ci = {}
  /\ \A s \in error : \E t \in Threads : thr[t].at = "poll" /\ thr[t].slot = s

\* An issued command is waited for, or was given up.
Issued ==
  /\ \A s \in ci : cmd[s] # 0 /\ (cmd[s] \in gone \/ Active(cmd[s]))
  /\ IsFiniteSet(gone)

Core == /\ TypeOK /\ Numbered /\ Held /\ Answered /\ Flagged /\ Issued
        /\ done \subseteq ran /\ stray \subseteq gone

Exhausted == wild /\ ~clash /\ ~raced => Cardinality(gone) + Cardinality(Threads) > NumSlots

IInv == (Sound => Core) /\ Exhausted

-----------------------------------------------------------------------------
(* The steps.                                                              *)

LEMMA StartKeeps ==
  ASSUME Core, Sound, Sound', NEW s \in Slots, Start(s)
  PROVE  Core'
  <1> USE DEF Core, TypeOK, Start, hba, bounds, reports, history
  <1>1. TypeOK' BY DEF Places
  <1>2. Numbered' BY DEF Numbered, Live
  <1>3. Held' BY DEF Numbered, Live, Held, Holds, Waits
  <1>4. Answered' BY DEF Numbered, Live, Held, Holds, Answered, Waits
  <1>5. Flagged' BY DEF Flagged
  <1>6. Issued' BY DEF Issued, Active, Numbered, Live
  <1>7. done' \subseteq ran' /\ stray' \subseteq gone' OBVIOUS
  <1> QED BY <1>1, <1>2, <1>3, <1>4, <1>5, <1>6, <1>7

LEMMA FinishKeeps ==
  ASSUME Core, Sound, Sound', Finish
  PROVE  Core'
  <1> USE DEF Core, TypeOK, Finish, hba, bounds, reports, history
  <1>1. TypeOK' BY DEF Places
  <1>2. Numbered' BY DEF Numbered, Live
  <1>3. Held' BY DEF Numbered, Live, Held, Holds, Waits
  <1>4. Answered' BY DEF Numbered, Live, Held, Holds, Answered, Waits
  <1>5. Flagged' BY DEF Flagged
  <1>6. Issued' BY DEF Issued, Active, Numbered, Live
  <1>7. done' \subseteq ran' /\ stray' \subseteq gone' BY DEF Issued
  <1> QED BY <1>1, <1>2, <1>3, <1>4, <1>5, <1>6, <1>7

LEMMA FailKeeps ==
  ASSUME Core, Sound, Sound', Fail
  PROVE  Core'
  <1> USE DEF Core, TypeOK, Fail, hba, bounds, reports, history
  <1>1. TypeOK' BY DEF Places
  <1>2. Numbered' BY DEF Numbered, Live
  <1>3. Held' BY DEF Numbered, Live, Held, Holds, Waits
  <1>4. Answered' BY DEF Numbered, Live, Held, Holds, Answered, Waits
  <1>5. Flagged' BY DEF Flagged
  <1>6. Issued' BY DEF Issued, Active, Numbered, Live
  <1>7. done' \subseteq ran' /\ stray' \subseteq gone' OBVIOUS
  <1> QED BY <1>1, <1>2, <1>3, <1>4, <1>5, <1>6, <1>7

LEMMA InterruptKeeps ==
  ASSUME Core, Sound, Sound', Interrupt
  PROVE  Core'
  <1> USE DEF Core, TypeOK, Interrupt, Reissued, Restarted, hba, bounds, reports, history
  <1>1. TypeOK' BY DEF Places
  <1>2. Numbered' BY DEF Numbered, Live
  <1>3. Held' BY DEF Numbered, Live, Held, Holds, Waits
  <1>4. Answered' /\ Flagged'
    <2>1. CASE "error" \notin is BY <2>1 DEF Answered, Flagged, Waits
    <2>2. CASE "error" \in is
      <3>1. PICK t \in Threads : thr[t].at = "poll" /\ thr[t].n = cmd[ccs]
        BY <2>2 DEF Sound
      <3>2. thr[t].slot = ccs /\ \A u \in Threads : Holds(u) /\ thr[u].slot = ccs => u = t
        BY <3>1 DEF Numbered, Live, Held, Holds, Waits
      <3>3. error' = error \cup {ccs} /\ ci' = ci \ {ccs} /\ thr' = thr /\ ran' = ran
        BY <2>2
      <3>4. Answered' BY <3>1, <3>2, <3>3 DEF Answered, Holds, Waits
      <3> QED BY <3>1, <3>2, <3>3, <3>4 DEF Flagged
    <2> QED BY <2>1, <2>2
  <1>6. Issued' BY DEF Issued, Active, Numbered, Live
  <1>7. done' \subseteq ran' /\ stray' \subseteq gone' OBVIOUS
  <1> QED BY <1>1, <1>2, <1>3, <1>4, <1>6, <1>7

LEMMA InterruptEndKeeps ==
  ASSUME Core, Sound, Sound', InterruptEnd
  PROVE  Core'
  <1> USE DEF Core, TypeOK, InterruptEnd, Clear, hba, bounds, reports, history
  <1>1. TypeOK' BY DEF Places
  <1>2. Numbered' BY DEF Numbered, Live
  <1>3. Held' BY DEF Numbered, Live, Held, Holds, Waits
  <1>4. Answered' BY DEF Numbered, Live, Held, Holds, Answered, Waits
  <1>5. Flagged' BY DEF Flagged
  <1>6. Issued' BY DEF Issued, Active, Numbered, Live
  <1>7. done' \subseteq ran' /\ stray' \subseteq gone' OBVIOUS
  <1> QED BY <1>1, <1>2, <1>3, <1>4, <1>5, <1>6, <1>7

LEMMA CallKeeps ==
  ASSUME Core, Sound, Sound', NEW t \in Threads, Call(t)
  PROVE  Core'
  <1> USE DEF Core, TypeOK, Call, Clear, Runs, hba, bounds, reports, history
  <1>1. TypeOK' BY DEF Places
  <1>2. Numbered' BY DEF Numbered, Live
  <1>3. Held' BY DEF Numbered, Live, Held, Holds, Waits
  <1>4. Answered' BY DEF Numbered, Live, Held, Holds, Answered, Waits
  <1>5. Flagged' BY DEF Flagged
  <1>6. Issued' BY DEF Issued, Active, Numbered, Live
  <1>7. done' \subseteq ran' /\ stray' \subseteq gone' OBVIOUS
  <1> QED BY <1>1, <1>2, <1>3, <1>4, <1>5, <1>6, <1>7

LEMMA PrepareKeeps ==
  ASSUME Core, Sound, Sound', NEW t \in Threads, Prepare(t)
  PROVE  Core'
  <1> USE DEF Core, TypeOK, Prepare, Free, Runs, hba, bounds, reports, history
  <1>0. PICK s \in Slots \ ci :
          /\ cmd' = [cmd EXCEPT ![s] = thr[t].n]
          /\ thr' = [thr EXCEPT ![t].at = "issue", ![t].slot = s]
          /\ ~ \E u \in Threads \ {t} : thr[u].at # "idle" /\ thr[u].slot = s
    BY DEF Sound
  <1>1. TypeOK'
    <2>1. cmd' \in [Slots -> Nat] BY <1>0
    <2>2. thr' = [thr EXCEPT ![t] = [thr[t] EXCEPT !.at = "issue", !.slot = s]]
      BY <1>0
    <2>3. [thr[t] EXCEPT !.at = "issue", !.slot = s] \in
            [at : Places, n : Nat, slot : Slots \cup {None}]
      <3>1. thr[t] \in [at : Places, n : Nat, slot : Slots \cup {None}] OBVIOUS
      <3> QED BY <3>1 DEF Places
    <2>4. thr' \in [Threads -> [at : Places, n : Nat, slot : Slots \cup {None}]]
      <3> HIDE DEF Prepare, TypeOK
      <3>1. thr \in [Threads -> [at : Places, n : Nat, slot : Slots \cup {None}]]
        BY DEF TypeOK
      <3> QED BY <2>2, <2>3, <3>1
    <2> QED BY <2>1, <2>4
  <1>2. \A u \in Threads \ {t} : thr'[u] = thr[u]
    BY <1>0
  <1>3. /\ thr[t].at = "slot" /\ thr[t].n \in Nat \ {0}
        /\ thr'[t].at = "issue" /\ thr'[t].n = thr[t].n /\ thr'[t].slot = s
    <2>1. thr[t].at = "slot" OBVIOUS
    <2>2. thr[t].n \in Nat \ {0} BY <2>1 DEF Numbered, Live
    <2>3. thr'[t] = [thr[t] EXCEPT !.at = "issue", !.slot = s] BY <1>0
    <2>4. thr[t] \in [at : Places, n : Nat, slot : Slots \cup {None}] OBVIOUS
    <2> QED BY <2>1, <2>2, <2>3, <2>4
  <1>4. cmd'[s] = thr[t].n /\ \A r \in Slots \ {s} : cmd'[r] = cmd[r]
    BY <1>0
  <1>5. Numbered'
    <2>1. \A u \in Threads : thr'[u].n = thr[u].n /\ (Live(u)' <=> Live(u))
      BY <1>2, <1>3 DEF Live
    <2>2. \A r \in Slots : cmd[r] # thr[t].n BY <1>3 DEF Numbered
    <2>3. thr[t].n <= count BY <1>3 DEF Numbered, Live
    <2> QED BY <1>2, <1>3, <1>4, <2>1, <2>2, <2>3 DEF Numbered, Live
  <1>6. Held'
    <2>1. \A u \in Threads \ {t} : Holds(u) => thr[u].slot # s BY <1>0 DEF Holds, Waits
    <2>2. ASSUME NEW u \in Threads \ {t}
          PROVE  /\ Holds(u)' => thr'[u].slot \in Slots /\ cmd'[thr'[u].slot] = thr'[u].n
                 /\ thr'[u].at = "issue" => thr'[u].slot \notin ci'
      <3>1. thr'[u] = thr[u] /\ (Holds(u)' <=> Holds(u)) BY <1>2 DEF Holds, Waits
      <3> QED BY <1>4, <2>1, <3>1 DEF Held
    <2>3. s \in Slots /\ s \notin ci' OBVIOUS
    <2> QED BY <1>3, <1>4, <2>2, <2>3 DEF Held
  <1>7. Answered' BY <1>2, <1>3 DEF Answered, Waits
  <1>8. Flagged' BY <1>2, <1>3 DEF Flagged
  <1>9. Issued'
    <2>1. \A r \in ci : cmd'[r] = cmd[r] BY <1>4
    <2>2. \A n : Active(n) => Active(n)' BY <1>2, <1>3 DEF Active
    <2> QED BY <2>1, <2>2 DEF Issued
  <1>10. done' \subseteq ran' /\ stray' \subseteq gone' OBVIOUS
  <1> QED BY <1>1, <1>5, <1>6, <1>7, <1>8, <1>9, <1>10

LEMMA TooLongKeeps ==
  ASSUME Core, Sound, Sound', NEW t \in Threads, TooLong(t)
  PROVE  Core'
  <1> USE DEF Core, TypeOK, TooLong, Return, Go, Runs, hba, bounds, reports, history
  <1>1. TypeOK' BY DEF Places
  <1>2. Numbered' BY DEF Numbered, Live
  <1>3. Held' BY DEF Numbered, Live, Held, Holds, Waits
  <1>4. Answered' BY DEF Numbered, Live, Held, Holds, Answered, Waits
  <1>5. Flagged' BY DEF Flagged
  <1>6. Issued' BY DEF Issued, Active, Numbered, Live
  <1>7. done' \subseteq ran' /\ stray' \subseteq gone' OBVIOUS
  <1> QED BY <1>1, <1>2, <1>3, <1>4, <1>5, <1>6, <1>7

LEMMA IssueKeeps ==
  ASSUME Core, Sound, Sound', NEW t \in Threads, Issue(t)
  PROVE  Core'
  <1> USE DEF Core, TypeOK, Issue, Go, Runs, hba, bounds, reports, history
  <1>1. TypeOK' BY DEF Places, Held, Holds, Waits, Numbered, Live
  <1>2. Numbered' BY DEF Numbered, Live, Held, Holds, Waits
  <1>3. Held' BY DEF Numbered, Live, Held, Holds, Waits
  <1>4. Answered' BY DEF Numbered, Live, Held, Holds, Answered, Waits
  <1>5. Flagged' BY DEF Flagged, Held, Holds, Waits, Numbered, Live
  <1>6. Issued' BY DEF Issued, Active, Numbered, Live, Held, Holds, Waits
  <1>7. done' \subseteq ran' /\ stray' \subseteq gone' OBVIOUS
  <1> QED BY <1>1, <1>2, <1>3, <1>4, <1>5, <1>6, <1>7

LEMMA PollKeeps ==
  ASSUME Core, Sound, Sound', NEW t \in Threads, Poll(t)
  PROVE  Core'
  <1> USE DEF Core, TypeOK, Poll, Return, Go, Runs, hba, bounds, reports, history
  <1>1. TypeOK' BY DEF Places, Held, Holds, Waits, Numbered, Live
  <1>2. Numbered' BY DEF Numbered, Live, Held, Holds, Waits
  <1>3. Held' BY DEF Numbered, Live, Held, Holds, Waits
  <1>4. Answered' BY DEF Numbered, Live, Held, Holds, Answered, Waits
  <1>5. Flagged' BY DEF Flagged, Held, Holds, Waits, Numbered, Live
  <1>6. Issued'
    <2> SUFFICES ASSUME NEW s \in ci, cmd[s] \notin gone'
                 PROVE  Active(cmd[s])'
      BY FS_AddElement DEF Issued
    <2>1. PICK u \in Threads : Waits(u) /\ thr[u].n = cmd[s]
      BY DEF Issued, Active, Waits
    <2>2. thr[u].slot = s BY <2>1 DEF Issued, Numbered, Held, Holds
    <2>3. u # t => thr'[u] = thr[u] OBVIOUS
    <2>4. u = t => Waits(u)' /\ thr'[u].n = thr[u].n
      BY <2>1, <2>2 DEF Flagged, Waits
    <2> QED BY <2>1, <2>3, <2>4 DEF Active, Waits
  <1>7. done' \subseteq ran' /\ stray' \subseteq gone' OBVIOUS
  <1> QED BY <1>1, <1>2, <1>3, <1>4, <1>5, <1>6, <1>7

LEMMA LookKeeps ==
  ASSUME Core, Sound, Sound', NEW t \in Threads, Look(t)
  PROVE  Core'
  <1> USE DEF Core, TypeOK, Look, Return, Go, Runs, hba, bounds, reports, history
  <1>1. TypeOK' BY DEF Places, Held, Holds, Waits, Numbered, Live
  <1>2. Numbered' BY DEF Numbered, Live, Held, Holds, Waits
  <1>3. Held' BY DEF Numbered, Live, Held, Holds, Waits
  <1>4. Answered' BY DEF Numbered, Live, Held, Holds, Answered, Waits
  <1>5. Flagged' BY DEF Flagged, Held, Holds, Waits, Numbered, Live
  <1>6. Issued' BY DEF Issued, Active, Numbered, Live, Held, Holds, Waits
  <1>7. done' \subseteq ran' /\ stray' \subseteq gone' BY DEF Answered, Waits
  <1> QED BY <1>1, <1>2, <1>3, <1>4, <1>5, <1>6, <1>7

LEMMA GiveUpKeeps ==
  ASSUME Core, Sound, Sound', NEW t \in Threads, GiveUp(t)
  PROVE  Core'
  <1> USE DEF Core, TypeOK, GiveUp, Return, Go, Runs, hba, bounds, reports, history
  <1>1. TypeOK' BY DEF Places, Held, Holds, Waits, Numbered, Live
  <1>2. Numbered' BY DEF Numbered, Live, Held, Holds, Waits
  <1>3. Held' BY DEF Numbered, Live, Held, Holds, Waits
  <1>4. Answered' BY DEF Numbered, Live, Held, Holds, Answered, Waits
  <1>5. Flagged' BY DEF Flagged, Held, Holds, Waits, Numbered, Live
  <1>6. Issued'
    <2> SUFFICES ASSUME NEW s \in ci, cmd[s] \notin gone'
                 PROVE  Active(cmd[s])'
      BY FS_AddElement DEF Issued
    <2>1. PICK u \in Threads : Waits(u) /\ thr[u].n = cmd[s]
      BY DEF Issued, Active, Waits
    <2>2. thr[u].slot = s BY <2>1 DEF Issued, Numbered, Held, Holds
    <2>3. u # t => thr'[u] = thr[u] OBVIOUS
    <2>4. u = t => Waits(u)' /\ thr'[u].n = thr[u].n
      BY <2>1, <2>2 DEF Flagged, Waits
    <2> QED BY <2>1, <2>3, <2>4 DEF Active, Waits
  <1>7. done' \subseteq ran' /\ stray' \subseteq gone' OBVIOUS
  <1> QED BY <1>1, <1>2, <1>3, <1>4, <1>5, <1>6, <1>7

-----------------------------------------------------------------------------
(* Running out of slots.                                                   *)

\* With a thread looking for a slot and all of them issued, each slot holds a
\* command that was given up or that one of the other threads waits for.
LEMMA NoSlotLeft ==
  ASSUME Core, NEW t \in Threads, thr[t].at = "slot", Slots \subseteq ci
  PROVE  Cardinality(gone) + Cardinality(Threads) > NumSlots
  <1> DEFINE Others  == Threads \ {t}
             number  == [u \in Others |-> thr[u].n]
             Numbers == {number[u] : u \in Others}
  <1>1. /\ IsFiniteSet(gone) /\ Cardinality(gone) \in Nat
        /\ IsFiniteSet(Threads) /\ Cardinality(Threads) \in Nat
    BY AhciAssumption, FS_CardinalityType DEF Core, Issued
  <1>2. IsFiniteSet(Others) /\ Cardinality(Others) = Cardinality(Threads) - 1
    BY <1>1, FS_RemoveElement
  <1>3. IsFiniteSet(Numbers) /\ Cardinality(Numbers) <= Cardinality(Others)
    <2>1. number \in Surjection(Others, Numbers) BY DEF Surjection
    <2> HIDE DEF Others, Numbers, number
    <2> QED BY <1>2, <2>1, FS_Surjection
  <1>4. IsFiniteSet(Slots) /\ Cardinality(Slots) = NumSlots
    <2>1. NumSlots \in Nat /\ NumSlots >= 1 /\ NumSlots - 1 \in Int BY AhciAssumption
    <2>2. /\ IsFiniteSet(0 .. NumSlots - 1)
          /\ Cardinality(0 .. NumSlots - 1) = IF 0 > NumSlots - 1 THEN 0 ELSE NumSlots - 1 - 0 + 1
      BY <2>1, FS_Interval
    <2> QED BY <2>1, <2>2 DEF Slots
  <1>5. cmd \in [Slots -> gone \cup Numbers]
    <2>1. ASSUME NEW s \in Slots, cmd[s] \notin gone PROVE cmd[s] \in Numbers
      <3>1. PICK u \in Threads : thr[u].at \in {"poll", "look"} /\ thr[u].n = cmd[s]
        BY <2>1 DEF Core, Issued, Active
      <3>2. u \in Others BY <3>1
      <3> QED BY <3>1, <3>2
    <2> QED BY <2>1 DEF Core, TypeOK
  <1>6. \A s, r \in Slots : cmd[s] = cmd[r] => s = r
    BY DEF Core, Numbered, Issued
  <1>7. /\ IsFiniteSet(gone \cup Numbers)
        /\ Cardinality(gone \cup Numbers) <= Cardinality(gone) + Cardinality(Numbers)
    <2> HIDE DEF Numbers
    <2>1. gone \cap Numbers \subseteq gone OBVIOUS
    <2>2. Cardinality(gone \cap Numbers) \in Nat BY <1>1, <2>1, FS_Subset, FS_CardinalityType
    <2>3. Cardinality(Numbers) \in Nat BY <1>3, FS_CardinalityType
    <2>4. /\ IsFiniteSet(gone \cup Numbers)
          /\ Cardinality(gone \cup Numbers)
               = Cardinality(gone) + Cardinality(Numbers) - Cardinality(gone \cap Numbers)
      <3>1. IsFiniteSet(gone) /\ IsFiniteSet(Numbers) BY <1>1, <1>3
      <3> QED BY <3>1, FS_Union
    <2> QED BY <1>1, <2>2, <2>3, <2>4
  <1>8. Cardinality(gone \cup Numbers) >= NumSlots
    <2> HIDE DEF Numbers
    <2> SUFFICES ASSUME Cardinality(gone \cup Numbers) < Cardinality(Slots) PROVE FALSE
      BY <1>4, <1>7, FS_CardinalityType, AhciAssumption
    <2> QED BY <1>4, <1>5, <1>6, <1>7, FS_PigeonHole
  <1>9. Cardinality(Numbers) \in Nat /\ Cardinality(gone \cup Numbers) \in Nat
    BY <1>3, <1>7, FS_CardinalityType
  <1> QED BY <1>1, <1>2, <1>3, <1>7, <1>8, <1>9, AhciAssumption

-----------------------------------------------------------------------------
(* The specification.                                                      *)

LEMMA InitKeeps == Init => IInv
  <1> SUFFICES ASSUME Init PROVE IInv OBVIOUS
  <1>1. TypeOK BY AhciAssumption DEF Init, TypeOK, Places, Slots
  <1>2. Numbered /\ Held /\ Answered BY DEF Init, Numbered, Held, Answered, Live, Holds, Waits
  <1>3. Flagged /\ Issued BY FS_EmptySet DEF Init, Flagged, Issued
  <1> QED BY <1>1, <1>2, <1>3 DEF Init, IInv, Core, Exhausted

LEMMA NextKeeps == IInv /\ [Next]_vars => IInv'
  <1> SUFFICES ASSUME IInv, [Next]_vars PROVE IInv' OBVIOUS
  <1>1. CASE UNCHANGED vars
    BY <1>1 DEF IInv, Core, TypeOK, Numbered, Held, Answered, Flagged, Issued, Active, Exhausted, Sound,
                Live, Holds, Waits, vars, hba, bounds, reports, history
  <1>2. CASE Next
    <2>1. Sound /\ Core BY <1>2 DEF Next, IInv
    <2>2. Sound' => Core'
      <3> SUFFICES ASSUME Sound' PROVE Core' OBVIOUS
      <3>1. CASE Disk BY <2>1, <3>1, StartKeeps, FinishKeeps, FailKeeps DEF Disk
      <3>2. CASE Interrupt \/ InterruptEnd BY <2>1, <3>2, InterruptKeeps, InterruptEndKeeps
      <3>3. ASSUME NEW t \in Threads, Thread(t) PROVE Core'
        BY <2>1, <3>3, CallKeeps, PrepareKeeps, TooLongKeeps, IssueKeeps, PollKeeps, LookKeeps,
           GiveUpKeeps DEF Thread
      <3> QED BY <1>2, <3>1, <3>2, <3>3 DEF Next
    <2>3. CASE ~wild' BY <2>2, <2>3 DEF IInv, Exhausted
    <2>4. CASE wild'
      <3>1. PICK t \in Threads : Prepare(t)
        BY <1>2, <2>1, <2>4 DEF Sound, Next, Disk, Start, Finish, Fail, Interrupt, InterruptEnd, Thread, Call,
           TooLong, Issue, Poll, Look, GiveUp, history
      <3>2. thr[t].at = "slot" /\ Slots \subseteq ci /\ gone' = gone
        BY <2>1, <2>4, <3>1 DEF Prepare, Runs, Sound, reports
      <3>3. Exhausted' BY <2>1, <3>2, NoSlotLeft DEF Exhausted
      <3> QED BY <2>2, <3>3 DEF IInv
    <2> QED BY <2>3, <2>4
  <1> QED BY <1>1, <1>2

LEMMA Invariant == Spec => []IInv
  BY InitKeeps, NextKeeps, PTL DEF Spec

\* A call returns true only if the disk carried its command out, whatever errors
\* and recoveries of other threads' commands came in between.
THEOREM DoneIsDoneTheorem == Spec => []DoneIsDone
  <1>1. IInv => DoneIsDone BY DEF IInv, Core, DoneIsDone
  <1> QED BY <1>1, Invariant, PTL

\* The disk carries out no command whose call has returned, unless the call gave
\* it up; and all slots are taken only if that many were given up.
THEOREM NoStrayTheorem == Spec => []NoStray
  <1>1. IInv => NoStray BY DEF IInv, Core, Exhausted, NoStray
  <1> QED BY <1>1, Invariant, PTL
=============================================================================
