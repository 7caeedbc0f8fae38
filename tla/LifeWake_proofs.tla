---------------------------- MODULE LifeWake_proofs ----------------------------
(***************************************************************************)
(* Proofs about LifeWake, for every set of events and of runners, every    *)
(* inbox cap and every bound on the failures.                              *)
(***************************************************************************)
EXTENDS LifeWake, FiniteSetTheorems, TLAPS

LEMMA FaultNames ==
    /\ "call" \in Faults /\ "model" \in Faults /\ "crash" \in Faults
    /\ "loss" \in Faults /\ "knock" \in Faults /\ "expiry" \in Faults
    /\ "cap" \in Faults
BY DEF Faults

LEMMA SpendType ==
    ASSUME TypeOK, NEW f \in Faults, Spend(f)
    PROVE  spent' \in [Faults -> Nat]
BY DEF TypeOK, Spend

LEMMA GotoEffect ==
    ASSUME TypeOK, NEW r \in Runners, NEW step \in PCs, Goto(r, step)
    PROVE  /\ pc' \in [Runners -> PCs]
           /\ pc'[r] = step
           /\ \A s \in Runners \ {r} : pc'[s] = pc[s]
BY DEF TypeOK, Goto

LEMMA StepNames ==
    \A s \in {"idle", "lock", "cd", "inbox", "history", "run", "load", "append",
              "mark", "fold", "foldStore", "cool", "giveBack", "release"} : s \in PCs
BY DEF PCs

LEMMA NothingYet == NoRound \in Round /\ NoVersion \in Version
<1>1. {} \in SUBSET Events /\ {} \in SUBSET (1 .. MaxChats) /\ {} \in SUBSET Round
    OBVIOUS
<1> QED BY <1>1 DEF NoRound, NoVersion, Round, Version

\* What leaving the handler does, whichever way it is left.
LEMMA DoneEffect ==
    ASSUME TypeOK, NEW r \in Runners, Done(r)
    PROVE  /\ pc' \in [Runners -> PCs]
           /\ pc'[r] = "idle"
           /\ \A s \in Runners \ {r} : pc'[s] = pc[s]
           /\ round' \in [Runners -> Round]
           /\ now' \in [Runners -> 0 .. MaxChats]
           /\ copy' \in [Runners -> Version]
           /\ todo' \in [Runners -> SUBSET Events]
           /\ todo'[r] = {}
           /\ \A s \in Runners \ {r} : todo'[s] = todo[s]
           /\ overrun' \subseteq Runners
           /\ \A s \in Runners \ {r} : s \in overrun => s \in overrun'
<1>1. Goto(r, "idle") /\ "idle" \in PCs
    BY StepNames DEF Done
<1>2. 0 \in 0 .. MaxChats
    BY ConstantsAssumption
<1>3. round' \in [Runners -> Round] /\ copy' \in [Runners -> Version]
    BY NothingYet DEF TypeOK, Done
<1>4. now' \in [Runners -> 0 .. MaxChats]
    BY <1>2 DEF TypeOK, Done
<1>5. /\ todo' \in [Runners -> SUBSET Events]
      /\ todo'[r] = {}
      /\ \A s \in Runners \ {r} : todo'[s] = todo[s]
    BY DEF TypeOK, Done
<1>6. overrun' \subseteq Runners /\ \A s \in Runners \ {r} : s \in overrun => s \in overrun'
    BY DEF TypeOK, Done
<1> QED BY <1>1, <1>3, <1>4, <1>5, <1>6, GotoEffect

\* A runner that has an inbox: its batch is made of known events and chats.
LEMMA BatchType ==
    ASSUME TypeOK, NEW heard \in {RecentChats, {}}
    PROVE  [events |-> Oldest(InboxMax, Unread), chats |-> heard] \in Round
<1>1. Oldest(InboxMax, Unread) \subseteq Events
    BY DEF TypeOK, Oldest, Unread
<1>2. heard \subseteq 1 .. MaxChats
  <2>1. chats \in Nat /\ chats <= MaxChats /\ MaxChats \in Nat
      BY ConstantsAssumption DEF TypeOK
  <2>2. \A c \in 1 .. chats : c \in 1 .. MaxChats
      BY <2>1
  <2> QED BY <2>2 DEF RecentChats
<1> QED BY <1>1, <1>2 DEF Round

\* What a completed run is shown is counted.
LEMMA RunEffect ==
    ASSUME TypeOK, NEW r \in Runners, Run(r)
    PROVE  /\ shown' \in [Events -> Nat]
           /\ \A e \in Events : shown[e] > 0 => shown'[e] > 0
           /\ todo' \in [Runners -> SUBSET Events]
           /\ \A e \in todo'[r] : shown'[e] > 0
           /\ \A s \in Runners \ {r} : todo'[s] = todo[s]
<1>1. round[r].events \subseteq Events
    BY DEF TypeOK, Round
<1>2. shown' = [e \in Events |-> IF e \in round[r].events THEN shown[e] + 1 ELSE shown[e]]
    BY DEF Run
<1>3. \A e \in Events : shown[e] \in Nat
    BY DEF TypeOK
<1>4. shown' \in [Events -> Nat]
    BY <1>2, <1>3
<1>5. \A e \in Events : shown[e] > 0 => shown'[e] > 0
    BY <1>2, <1>3
<1>6. \A e \in round[r].events : shown'[e] > 0
    BY <1>1, <1>2, <1>3
<1>7. todo' = [todo EXCEPT ![r] = round[r].events]
    BY DEF Run
<1> QED BY <1>1, <1>4, <1>5, <1>6, <1>7 DEF TypeOK

--------------------------------------------------------------------------------
LEMMA TypeInit == Init => TypeOK
<1> SUFFICES ASSUME Init PROVE TypeOK
    OBVIOUS
<1>1. 0 \in 0 .. MaxChats
    BY ConstantsAssumption
<1> QED BY <1>1, NothingYet, StepNames DEF Init, TypeOK

\* Every variable keeps its type.
LEMMA TypeStep == TypeOK /\ [Next]_vars => TypeOK'
<1> SUFFICES ASSUME TypeOK, [Next]_vars PROVE TypeOK'
    OBVIOUS
<1> USE DEF mailbox, chat, redis, session, runner
<1>1. ASSUME NEW e \in Events, Deliver(e) \/ Knock(e) \/ KnockFails(e) PROVE TypeOK'
  <2>1. CASE Deliver(e)
      BY <2>1 DEF TypeOK, Deliver
  <2>2. CASE Knock(e)
      BY <2>2 DEF TypeOK, Knock
  <2>3. CASE KnockFails(e)
      BY <2>3, FaultNames, SpendType DEF TypeOK, KnockFails
  <2> QED BY <1>1, <2>1, <2>2, <2>3
<1>2. CASE KnockLost
    BY <1>2, FaultNames, SpendType DEF TypeOK, KnockLost
<1>3. CASE Renotify
    BY <1>3 DEF TypeOK, Renotify
<1>4. CASE ChatArrives \/ ChatAges
  <2>1. chats' \in 0 .. MaxChats /\ aged' \in 0 .. MaxChats
      BY <1>4, ConstantsAssumption DEF TypeOK, ChatArrives, ChatAges
  <2> QED BY <1>4, <2>1 DEF TypeOK, ChatArrives, ChatAges
<1>5. ASSUME NEW r \in Runners, Start(r) PROVE TypeOK'
    BY <1>5, StepNames, GotoEffect DEF TypeOK, Start
<1>6. ASSUME NEW r \in Runners, Lock(r) PROVE TypeOK'
  <2>1. pc' \in [Runners -> PCs]
      BY <1>6, StepNames, GotoEffect DEF Lock
  <2> QED BY <1>6, <2>1 DEF TypeOK, Lock
<1>7. ASSUME NEW r \in Runners, CheckCd(r) PROVE TypeOK'
  <2>1. pc' \in [Runners -> PCs]
      BY <1>7, StepNames DEF TypeOK, CheckCd, Goto
  <2> QED BY <1>7, <2>1 DEF TypeOK, CheckCd
<1>8. ASSUME NEW r \in Runners, ReadInbox(r) PROVE TypeOK'
  <2>1. PICK heard \in {RecentChats, {}} :
          /\ round' = [round EXCEPT ![r] =
                          [events |-> Oldest(InboxMax, Unread), chats |-> heard]]
          /\ IF heard = RecentChats THEN UNCHANGED spent ELSE Spend("call")
      BY <1>8 DEF ReadInbox
  <2>2. round' \in [Runners -> Round]
      BY <2>1, BatchType DEF TypeOK
  <2>3. spent' \in [Faults -> Nat]
      BY <2>1, FaultNames, SpendType DEF TypeOK
  <2>4. now' \in [Runners -> 0 .. MaxChats] /\ pc' \in [Runners -> PCs]
      BY <1>8, StepNames DEF TypeOK, ReadInbox, Goto
  <2> QED BY <1>8, <2>2, <2>3, <2>4 DEF TypeOK, ReadInbox
<1>9. ASSUME NEW r \in Runners, CheckHistory(r) PROVE TypeOK'
  <2>1. pc' \in [Runners -> PCs]
      BY <1>9, StepNames DEF TypeOK, CheckHistory, Goto
  <2> QED BY <1>9, <2>1 DEF TypeOK, CheckHistory
<1>10. ASSUME NEW r \in Runners, Run(r) PROVE TypeOK'
  <2>1. watermark' \in 0 .. MaxChats
      BY <1>10 DEF TypeOK, Run
  <2>2. pc' \in [Runners -> PCs]
      BY <1>10, StepNames, GotoEffect DEF Run
  <2> QED BY <1>10, <2>1, <2>2, RunEffect DEF TypeOK, Run
<1>11. ASSUME NEW r \in Runners, LoadSession(r) PROVE TypeOK'
  <2>1. [markers |-> transcript, ver |-> ver] \in Version
      BY DEF TypeOK, Version
  <2>2. pc' \in [Runners -> PCs]
      BY <1>11, StepNames, GotoEffect DEF LoadSession
  <2> QED BY <1>11, <2>1, <2>2 DEF TypeOK, LoadSession
<1>12. ASSUME NEW r \in Runners, AppendSession(r) PROVE TypeOK'
  <2>1. PICK kept \in SUBSET copy[r].markers :
          /\ transcript' = kept \cup {round[r]}
          /\ IF kept = copy[r].markers THEN UNCHANGED spent ELSE Spend("cap")
      BY <1>12 DEF AppendSession
  <2>2. copy[r].markers \subseteq Round /\ round[r] \in Round
      BY DEF TypeOK, Version
  <2>3. transcript' \subseteq Round
      BY <2>1, <2>2
  <2>4. spent' \in [Faults -> Nat]
      BY <2>1, FaultNames, SpendType DEF TypeOK
  <2>5. pc' \in [Runners -> PCs] /\ ver' \in Nat
      BY <1>12, StepNames, GotoEffect DEF TypeOK, AppendSession
  <2> QED BY <1>12, <2>3, <2>4, <2>5 DEF TypeOK, AppendSession
<1>13. ASSUME NEW r \in Runners, MarkRead(r) PROVE TypeOK'
  <2>1. CASE todo[r] = {}
      BY <1>13, <2>1, StepNames, GotoEffect DEF TypeOK, MarkRead
  <2>2. CASE todo[r] # {}
    <3>1. PICK e \in Oldest(1, todo[r]) :
            /\ read' = read \cup {e}
            /\ todo' = [todo EXCEPT ![r] = @ \ {e}]
            /\ UNCHANGED pc
        BY <1>13, <2>2 DEF MarkRead
    <3>2. e \in Events
        BY DEF Oldest, TypeOK
    <3> QED BY <1>13, <3>1, <3>2 DEF TypeOK, MarkRead
  <2> QED BY <2>1, <2>2
<1>14. ASSUME NEW r \in Runners, Fold(r) PROVE TypeOK'
  <2>1. [markers |-> transcript, ver |-> ver] \in Version
      BY DEF TypeOK, Version
  <2>2. pc' \in [Runners -> PCs]
      BY <1>14, StepNames, GotoEffect DEF Fold
  <2>3. copy' \in [Runners -> Version]
      BY <1>14, <2>1 DEF TypeOK, Fold
  <2> QED BY <1>14, <2>2, <2>3 DEF TypeOK, Fold
<1>15. ASSUME NEW r \in Runners, FoldStore(r) PROVE TypeOK'
  <2>1. copy[r].markers \subseteq Round
      BY DEF TypeOK, Version
  <2>2. transcript' \subseteq Round /\ ver' \in Nat
      BY <1>15, <2>1 DEF TypeOK, FoldStore
  <2>3. pc' \in [Runners -> PCs]
      BY <1>15, StepNames, GotoEffect DEF FoldStore
  <2> QED BY <1>15, <2>2, <2>3 DEF TypeOK, FoldStore
<1>16. ASSUME NEW r \in Runners, SetCd(r) PROVE TypeOK'
    BY <1>16, StepNames, GotoEffect DEF TypeOK, SetCd
<1>17. ASSUME NEW r \in Runners, Release(r) PROVE TypeOK'
    BY <1>17, DoneEffect DEF TypeOK, Release
<1>18. ASSUME NEW r \in Runners, RunFails(r) PROVE TypeOK'
  <2>1. watermark' \in 0 .. MaxChats
      BY <1>18 DEF TypeOK, RunFails
  <2> QED BY <1>18, <2>1, StepNames, GotoEffect, FaultNames, SpendType DEF TypeOK, RunFails
<1>19. ASSUME NEW r \in Runners, PersistFails(r) PROVE TypeOK'
    BY <1>19, StepNames, GotoEffect, FaultNames, SpendType DEF TypeOK, PersistFails
<1>20. ASSUME NEW r \in Runners, CallFails(r) PROVE TypeOK'
  <2>1. spent' \in [Faults -> Nat]
      BY <1>20, FaultNames, SpendType DEF CallFails
  <2>2. CASE Done(r)
      BY <1>20, <2>1, <2>2, DoneEffect DEF TypeOK, CallFails
  <2>3. CASE Goto(r, "release") /\ UNCHANGED <<round, now, copy, todo, overrun>>
      BY <1>20, <2>1, <2>3, StepNames, GotoEffect DEF TypeOK, CallFails
  <2> QED BY <1>20, <2>2, <2>3 DEF CallFails
<1>21. ASSUME NEW r \in Runners, Crash(r) PROVE TypeOK'
    BY <1>21, DoneEffect, FaultNames, SpendType DEF TypeOK, Crash
<1>22. ASSUME NEW r \in Runners, ConnectionLoss(r) PROVE TypeOK'
    BY <1>22, FaultNames, SpendType DEF TypeOK, ConnectionLoss
<1>23. CASE OrphanExpires
    BY <1>23 DEF TypeOK, OrphanExpires
<1>24. CASE LockExpires
    BY <1>24, FaultNames, SpendType DEF TypeOK, LockExpires
<1>25. CASE CdExpires
    BY <1>25 DEF TypeOK, CdExpires
<1>26. CASE UNCHANGED vars
    BY <1>26 DEF TypeOK, vars
<1> QED
    BY <1>1, <1>2, <1>3, <1>4, <1>5, <1>6, <1>7, <1>8, <1>9, <1>10, <1>11, <1>12, <1>13,
       <1>14, <1>15, <1>16, <1>17, <1>18, <1>19, <1>20, <1>21, <1>22, <1>23, <1>24, <1>25,
       <1>26 DEF Next, RunnerStep, RunnerFails

\* Whatever happens, every variable has its type (the state that
\* data/queries/mailbox.py and nodes/life_wake.py keep is well formed).
THEOREM TypeCorrect == Spec => []TypeOK
BY TypeInit, TypeStep, PTL DEF Spec

--------------------------------------------------------------------------------
(* What is marked read was shown, and rounds do not overlap unnoticed.     *)

\* What is still to be marked was shown as well, and whoever is in a round holds
\* the lock or has outlived it.
Sound ==
    /\ \A r \in Runners : \A e \in todo[r] : shown[e] > 0
    /\ \A r \in Runners : InRound(r) => lock = r \/ r \in overrun

IInv == TypeOK /\ Sound /\ ReadWasShown

\* A step that leaves the batches, the read events and what was shown alone.
LEMMA ShownKept ==
    ASSUME IInv, UNCHANGED <<read, todo, shown>>
    PROVE  ReadWasShown' /\ (\A r \in Runners : \A e \in todo[r] : shown[e] > 0)'
BY DEF IInv, Sound, ReadWasShown

\* A step of r that stays in the round, or enters none.
LEMMA LockKept ==
    ASSUME IInv, NEW r \in Runners, UNCHANGED <<lock, overrun>>,
           \A s \in Runners \ {r} : pc'[s] = pc[s],
           pc'[r] \notin {"idle", "lock"} => pc[r] \notin {"idle", "lock"}
    PROVE  (\A s \in Runners : InRound(s) => lock = s \/ s \in overrun)'
BY DEF IInv, Sound, InRound

\* A step that moves nobody and leaves the lock alone.
LEMMA AllKept ==
    ASSUME IInv, UNCHANGED <<read, todo, shown, lock, overrun, pc>>
    PROVE  Sound' /\ ReadWasShown'
BY DEF IInv, Sound, ReadWasShown, InRound

\* A step of r that only moves it along.
LEMMA MovedOn ==
    ASSUME IInv, NEW r \in Runners, NEW step \in PCs, Goto(r, step),
           UNCHANGED <<read, todo, shown, lock, overrun>>,
           step \notin {"idle", "lock"} => pc[r] \notin {"idle", "lock"}
    PROVE  Sound' /\ ReadWasShown'
<1>1. pc'[r] = step /\ \A s \in Runners \ {r} : pc'[s] = pc[s]
    BY GotoEffect DEF IInv
<1> QED BY <1>1, ShownKept, LockKept DEF Sound

\* Leaving the handler, with the lock freed by nobody else.
LEMMA LeftHandler ==
    ASSUME IInv, NEW r \in Runners, Done(r), UNCHANGED <<read, shown>>,
           lock' = lock \/ (lock = r /\ lock' = None)
    PROVE  Sound' /\ ReadWasShown'
<1>1. /\ pc'[r] = "idle" /\ todo'[r] = {}
      /\ \A s \in Runners \ {r} :
            pc'[s] = pc[s] /\ todo'[s] = todo[s] /\ (s \in overrun => s \in overrun')
    BY DoneEffect DEF IInv
<1>2. (\A s \in Runners : \A e \in todo[s] : shown[e] > 0)'
    BY <1>1 DEF IInv, Sound
<1>3. (\A s \in Runners : InRound(s) => lock = s \/ s \in overrun)'
    BY <1>1 DEF IInv, Sound, InRound
<1> QED BY <1>2, <1>3 DEF IInv, Sound, ReadWasShown

LEMMA SafeStep == IInv /\ [Next]_vars => IInv'
<1> SUFFICES ASSUME IInv, [Next]_vars PROVE Sound' /\ ReadWasShown'
    BY TypeStep DEF IInv
<1>0. TypeOK
    BY DEF IInv
<1> USE DEF mailbox, chat, redis, session, runner
<1>1. ASSUME NEW e \in Events, Deliver(e) \/ Knock(e) \/ KnockFails(e)
      PROVE  Sound' /\ ReadWasShown'
    BY <1>1, AllKept DEF Deliver, Knock, KnockFails
<1>2. CASE KnockLost \/ Renotify \/ ChatArrives \/ ChatAges \/ CdExpires
    BY <1>2, AllKept DEF KnockLost, Renotify, ChatArrives, ChatAges, CdExpires
<1>3. ASSUME NEW r \in Runners, Start(r) PROVE Sound' /\ ReadWasShown'
    BY <1>3, MovedOn, StepNames DEF Start
<1>4. ASSUME NEW r \in Runners, Lock(r) PROVE Sound' /\ ReadWasShown'
  <2>1. CASE lock = None /\ lock' = r /\ Goto(r, "cd")
    <3>1. pc'[r] = "cd" /\ \A s \in Runners \ {r} : pc'[s] = pc[s]
        BY <1>0, <2>1, GotoEffect, StepNames
    <3>2. (\A s \in Runners : InRound(s) => lock = s \/ s \in overrun)'
        BY <1>4, <2>1, <3>1, ConstantsAssumption DEF IInv, Sound, InRound, Lock
    <3> QED BY <1>4, <3>2, ShownKept DEF Sound, Lock
  <2>2. CASE lock # None
      BY <1>4, <2>2, MovedOn, StepNames DEF Lock
  <2> QED BY <1>4, <2>1, <2>2 DEF Lock
<1>5. ASSUME NEW r \in Runners, CheckCd(r) PROVE Sound' /\ ReadWasShown'
    BY <1>5, MovedOn, StepNames DEF CheckCd
<1>6. ASSUME NEW r \in Runners, ReadInbox(r) PROVE Sound' /\ ReadWasShown'
    BY <1>6, MovedOn, StepNames DEF ReadInbox
<1>7. ASSUME NEW r \in Runners, CheckHistory(r) PROVE Sound' /\ ReadWasShown'
    BY <1>7, MovedOn, StepNames DEF CheckHistory
<1>8. ASSUME NEW r \in Runners, Run(r) PROVE Sound' /\ ReadWasShown'
  <2>1. pc'[r] = "load" /\ \A s \in Runners \ {r} : pc'[s] = pc[s]
      BY <1>0, <1>8, GotoEffect, StepNames DEF Run
  <2>2. (\A s \in Runners : InRound(s) => lock = s \/ s \in overrun)'
      BY <1>8, <2>1, LockKept DEF Run
  <2>3. (\A s \in Runners : \A e \in todo[s] : shown[e] > 0)'
      BY <1>0, <1>8, RunEffect DEF IInv, Sound, TypeOK
  <2>4. ReadWasShown'
      BY <1>0, <1>8, RunEffect DEF IInv, ReadWasShown, TypeOK, Run
  <2> QED BY <2>2, <2>3, <2>4 DEF Sound
<1>9. ASSUME NEW r \in Runners, LoadSession(r) \/ AppendSession(r) PROVE Sound' /\ ReadWasShown'
    BY <1>9, MovedOn, StepNames DEF LoadSession, AppendSession
<1>10. ASSUME NEW r \in Runners, MarkRead(r) PROVE Sound' /\ ReadWasShown'
  <2>1. CASE todo[r] = {}
      BY <1>10, <2>1, MovedOn, StepNames DEF MarkRead
  <2>2. CASE todo[r] # {}
    <3>1. PICK e \in Oldest(1, todo[r]) :
            /\ read' = read \cup {e}
            /\ todo' = [todo EXCEPT ![r] = @ \ {e}]
            /\ UNCHANGED pc
        BY <1>10, <2>2 DEF MarkRead
    <3>2. shown[e] > 0
        BY DEF Oldest, IInv, Sound
    <3>3. ReadWasShown'
        BY <1>10, <3>1, <3>2 DEF IInv, ReadWasShown, MarkRead
    <3>4. (\A s \in Runners : \A f \in todo[s] : shown[f] > 0)'
        BY <1>0, <1>10, <3>1 DEF IInv, Sound, MarkRead, TypeOK
    <3>5. (\A s \in Runners : InRound(s) => lock = s \/ s \in overrun)'
        BY <1>10, <3>1, LockKept DEF MarkRead
    <3> QED BY <3>3, <3>4, <3>5 DEF Sound
  <2> QED BY <2>1, <2>2
<1>11. ASSUME NEW r \in Runners, Fold(r) PROVE Sound' /\ ReadWasShown'
    BY <1>11, MovedOn, StepNames DEF Fold
<1>12. ASSUME NEW r \in Runners, FoldStore(r) \/ SetCd(r) PROVE Sound' /\ ReadWasShown'
    BY <1>12, MovedOn, StepNames DEF FoldStore, SetCd
<1>13. ASSUME NEW r \in Runners, Release(r) PROVE Sound' /\ ReadWasShown'
    BY <1>13, LeftHandler DEF Release
<1>14. ASSUME NEW r \in Runners, RunFails(r) \/ PersistFails(r) PROVE Sound' /\ ReadWasShown'
    BY <1>14, MovedOn, StepNames DEF RunFails, PersistFails
<1>15. ASSUME NEW r \in Runners, CallFails(r) PROVE Sound' /\ ReadWasShown'
  <2>1. CASE Done(r)
      BY <1>15, <2>1, LeftHandler DEF CallFails
  <2>2. CASE /\ Goto(r, "release") /\ pc[r] \notin {"idle", "lock"}
             /\ UNCHANGED <<round, now, copy, todo, overrun>>
      BY <1>15, <2>2, MovedOn, StepNames DEF CallFails
  <2> QED BY <1>15, <2>1, <2>2 DEF CallFails
<1>16. ASSUME NEW r \in Runners, Crash(r) PROVE Sound' /\ ReadWasShown'
    BY <1>16, LeftHandler DEF Crash
<1>17. ASSUME NEW r \in Runners, ConnectionLoss(r) PROVE Sound' /\ ReadWasShown'
    BY <1>17, AllKept DEF ConnectionLoss
<1>18. CASE OrphanExpires \/ LockExpires
  <2>1. (\A s \in Runners : InRound(s) => lock = s \/ s \in overrun)'
      BY <1>18 DEF IInv, Sound, InRound, OrphanExpires, LockExpires
  <2> QED BY <1>18, <2>1, ShownKept DEF Sound, OrphanExpires, LockExpires
<1>19. CASE UNCHANGED vars
    BY <1>19, AllKept DEF vars
<1> QED
    BY <1>1, <1>2, <1>3, <1>4, <1>5, <1>6, <1>7, <1>8, <1>9, <1>10, <1>11, <1>12, <1>13,
       <1>14, <1>15, <1>16, <1>17, <1>18, <1>19 DEF Next, RunnerStep, RunnerFails

LEMMA SafeInit == Init => IInv
<1> SUFFICES ASSUME Init PROVE Sound /\ ReadWasShown
    BY TypeInit DEF IInv
<1> QED BY DEF Init, Sound, ReadWasShown, InRound

LEMMA Safe == Spec => []IInv
BY SafeInit, SafeStep, PTL DEF Spec

\* An event is marked read only after a completed run had it as input, whatever
\* arrives, fails, dies or expires meanwhile (mark_events_read marks the batch
\* that life_wake_node read, and nothing else).
THEOREM OnlyShownIsRead == Spec => []ReadWasShown
<1>1. IInv => ReadWasShown
    BY DEF IInv
<1> QED BY <1>1, Safe, PTL

\* Two rounds of one persona never overlap unless one of them has outlived the
\* lock's TTL (the token that single_flight compares before it deletes the key).
THEOREM RoundsAreSerial == Spec => []OneRoundAtATime
<1>1. IInv => OneRoundAtATime
    BY DEF IInv, Sound, OneRoundAtATime
<1> QED BY <1>1, Safe, PTL

--------------------------------------------------------------------------------
(* Surroundings wake nobody. *)

\* Until an active event arrives nobody knocks, so nobody starts.
Asleep ==
    envelopes \subseteq Passive =>
        knocking = {} /\ ~knocked /\ \A r \in Runners : pc[r] = "idle"

LEMMA AsleepStep == Asleep /\ [Next]_vars => Asleep'
<1> SUFFICES ASSUME Asleep, [Next]_vars, (envelopes \subseteq Passive)'
             PROVE  knocking' = {} /\ ~knocked' /\ \A r \in Runners : pc'[r] = "idle"
    BY DEF Asleep
<1> USE DEF mailbox, chat, redis, session, runner
<1>1. envelopes \subseteq envelopes'
    BY DEF Next, RunnerStep, RunnerFails, vars, Deliver, Knock, KnockFails, KnockLost,
           Renotify, ChatArrives, ChatAges, Start, Lock, CheckCd, ReadInbox, CheckHistory,
           Run, LoadSession, AppendSession, MarkRead, Fold, FoldStore, SetCd, Release,
           RunFails, PersistFails, CallFails, Crash, ConnectionLoss, OrphanExpires,
           LockExpires, CdExpires
<1>2. knocking = {} /\ ~knocked /\ \A r \in Runners : pc[r] = "idle"
    BY <1>1 DEF Asleep
<1>3. ASSUME NEW r \in Runners PROVE ~RunnerStep(r) /\ ~RunnerFails(r)
    BY <1>2
    DEF RunnerStep, RunnerFails, Start, Lock, CheckCd, ReadInbox, CheckHistory, Run,
        LoadSession, AppendSession, MarkRead, Fold, FoldStore, SetCd, Release, RunFails,
        PersistFails, CallFails, Crash, ConnectionLoss
<1>4. ~Renotify
    BY <1>1 DEF Renotify, Unread
<1>5. ASSUME NEW e \in Events, Deliver(e)
      PROVE  UNCHANGED <<knocking, knocked, pc>>
    BY <1>5 DEF Deliver
<1> QED
    BY <1>2, <1>3, <1>4, <1>5
    DEF Next, vars, Knock, KnockFails, KnockLost, ChatArrives, ChatAges, OrphanExpires,
        LockExpires, CdExpires

\* Surroundings wake nobody: until an event of an active kind is delivered no knock is
\* emitted, none is made up for by a world tick, and no round starts (deliver_event
\* and renotify_unread skip PASSIVE_EVENT_KINDS).
THEOREM SurroundingsAreQuiet == Spec => []PassiveWakesNobody
<1>1. Init => Asleep
    BY DEF Init, Asleep
<1>2. Asleep => PassiveWakesNobody
    BY DEF Asleep, PassiveWakesNobody
<1> QED BY <1>1, <1>2, AsleepStep, PTL DEF Spec

--------------------------------------------------------------------------------
(* A step of one runner leaves the others where they are. *)

LEMMA SpendEffect ==
    ASSUME TypeOK, NEW f \in Faults, Spend(f)
    PROVE  /\ spent'[f] = spent[f] + 1
           /\ \A g \in Faults \ {f} : spent'[g] = spent[g]
BY DEF TypeOK, Spend

RunnerMoves(r) == RunnerStep(r) \/ RunnerFails(r)

\* Only leaving the handler changes who has outlived the lock.
LEMMA OnlyItself ==
    ASSUME TypeOK, NEW r \in Runners, RunnerMoves(r)
    PROVE  /\ \A s \in Runners \ {r} :
                 pc'[s] = pc[s] /\ round'[s] = round[s] /\ copy'[s] = copy[s] /\ todo'[s] = todo[s]
           /\ \/ overrun' = overrun /\ (InRound(r) => InRound(r)')
              \/ Done(r)
           /\ InRound(r)' => InRound(r) \/ lock = None
           /\ spent'["expiry"] = spent["expiry"]
           /\ \A f \in Faults : spent'[f] = spent[f] \/ Spend(f)
<1> DEFINE Alone == \A s \in Runners \ {r} :
                       pc'[s] = pc[s] /\ round'[s] = round[s] /\ copy'[s] = copy[s] /\ todo'[s] = todo[s]
           Paid == /\ spent'["expiry"] = spent["expiry"]
                   /\ \A f \in Faults : spent'[f] = spent[f] \/ Spend(f)
           Goal == /\ Alone /\ Paid
                   /\ \/ overrun' = overrun /\ (InRound(r) => InRound(r)')
                      \/ Done(r)
                   /\ InRound(r)' => InRound(r) \/ lock = None
<1> USE DEF mailbox, chat, redis, session, runner
<1>1. ASSUME NEW f \in Faults \ {"expiry"}, Spend(f) PROVE Paid
    BY <1>1, FaultNames, SpendEffect DEF TypeOK
<1>2. ASSUME UNCHANGED spent PROVE Paid
    BY <1>2
<1>3. Paid
    BY <1>1, <1>2, FaultNames
    DEF RunnerMoves, RunnerStep, RunnerFails, Start, Lock, CheckCd, ReadInbox, CheckHistory,
        Run, LoadSession, AppendSession, MarkRead, Fold, FoldStore, SetCd, Release, RunFails,
        PersistFails, CallFails, Crash, ConnectionLoss
<1>4. ASSUME Done(r) PROVE Alone /\ ~InRound(r)'
    BY <1>4 DEF Done, Goto, TypeOK, InRound
<1>5. CASE Done(r)
    BY <1>3, <1>4, <1>5
<1>6. CASE Start(r) \/ Lock(r)
    BY <1>3, <1>6 DEF Start, Lock, Goto, TypeOK, InRound
<1>7. CASE \/ CheckCd(r) \/ ReadInbox(r) \/ CheckHistory(r) \/ Run(r) \/ LoadSession(r)
           \/ AppendSession(r) \/ MarkRead(r) \/ Fold(r) \/ FoldStore(r) \/ SetCd(r)
           \/ RunFails(r) \/ PersistFails(r) \/ ConnectionLoss(r)
  <2>1. InRound(r) \/ ConnectionLoss(r)
      BY <1>7
      DEF CheckCd, ReadInbox, CheckHistory, Run, LoadSession, AppendSession, MarkRead,
          Fold, FoldStore, SetCd, RunFails, PersistFails, InRound
  <2>2. overrun' = overrun /\ Alone
      BY <1>7
      DEF CheckCd, ReadInbox, CheckHistory, Run, LoadSession, AppendSession, MarkRead,
          Fold, FoldStore, SetCd, RunFails, PersistFails, ConnectionLoss, Goto, TypeOK
  <2>3. ConnectionLoss(r) \/ InRound(r)'
      BY <1>7, StepNames
      DEF CheckCd, ReadInbox, CheckHistory, Run, LoadSession, AppendSession, MarkRead,
          Fold, FoldStore, SetCd, RunFails, PersistFails, Goto, TypeOK, InRound
  <2>4. ConnectionLoss(r) => pc' = pc
      BY DEF ConnectionLoss
  <2> QED BY <1>3, <2>1, <2>2, <2>3, <2>4 DEF InRound
<1>8. CASE CallFails(r) /\ ~Done(r)
    BY <1>3, <1>8 DEF CallFails, Goto, TypeOK, InRound
<1>9. Release(r) \/ Crash(r) => Done(r)
    BY DEF Release, Crash
<1> QED
    BY <1>5, <1>6, <1>7, <1>8, <1>9 DEF RunnerMoves, RunnerStep, RunnerFails

\* The steps of the mailbox, the chats and the Redis keys leave the runners alone.
LEMMA RestSteps ==
    ASSUME TypeOK, [Next]_vars, ~\E r \in Runners : RunnerMoves(r)
    PROVE  /\ UNCHANGED <<pc, round, copy, todo, transcript, ver, read, shown>>
           /\ \A f \in Faults : spent'[f] = spent[f] \/ Spend(f)
           /\ \/ overrun' = overrun /\ spent'["expiry"] = spent["expiry"]
              \/ LockExpires
<1> USE DEF mailbox, chat, redis, session, runner
<1>1. /\ spent' = spent \/ Spend("knock") \/ LockExpires
      /\ UNCHANGED <<pc, round, copy, todo, transcript, ver, read, shown>>
      /\ overrun' = overrun \/ LockExpires
    BY DEF Next, RunnerMoves, vars, Deliver, Knock, KnockFails, KnockLost, Renotify,
           ChatArrives, ChatAges, OrphanExpires, LockExpires, CdExpires
<1>2. LockExpires => Spend("expiry")
    BY DEF LockExpires
<1> QED BY <1>1, <1>2, FaultNames, SpendEffect DEF TypeOK

--------------------------------------------------------------------------------
(* What a round reads from the transcript is still there when it writes. *)

\* Nobody has outlived a lock if no lock has expired, only who is in a round can
\* outlive it, and there are finitely many of them.
Overruns ==
    /\ spent["expiry"] = 0 => overrun = {}
    /\ \A r \in overrun : InRound(r)
    /\ IsFiniteSet(overrun)

\* A lock that has expired stays on the books.
LEMMA ExpiryStays ==
    ASSUME TypeOK, [Next]_vars, spent'["expiry"] = 0
    PROVE  spent["expiry"] = 0 /\ ~LockExpires
<1>1. spent["expiry"] \in Nat
    BY FaultNames DEF TypeOK
<1>2. ~Spend("expiry")
    BY <1>1, FaultNames, SpendEffect
<1>3. spent'["expiry"] = spent["expiry"]
    BY <1>2, FaultNames, OnlyItself, RestSteps DEF LockExpires
<1> QED BY <1>2, <1>3 DEF LockExpires

LEMMA OverrunsStep == TypeOK /\ Overruns /\ [Next]_vars => Overruns'
<1> SUFFICES ASSUME TypeOK, Overruns, [Next]_vars PROVE Overruns'
    OBVIOUS
<1>1. ASSUME NEW r \in Runners, RunnerMoves(r) PROVE Overruns'
  <2>1. CASE overrun' = overrun /\ (InRound(r) => InRound(r)')
    <3>1. \A s \in overrun : s \in Runners /\ InRound(s)'
        BY <1>1, <2>1, OnlyItself DEF Overruns, TypeOK, InRound
    <3> QED BY <1>1, <2>1, <3>1, OnlyItself DEF Overruns
  <2>2. CASE Done(r)
    <3>1. overrun' = overrun \ {r}
        BY <2>2 DEF Done
    <3>2. IsFiniteSet(overrun')
        BY <3>1, FS_RemoveElement DEF Overruns
    <3>3. \A s \in overrun' : InRound(s)'
        BY <1>1, <3>1, OnlyItself DEF Overruns, TypeOK, InRound
    <3> QED BY <1>1, <3>1, <3>2, <3>3, OnlyItself DEF Overruns
  <2> QED BY <1>1, <2>1, <2>2, OnlyItself
<1>2. CASE ~\E r \in Runners : RunnerMoves(r)
  <2>1. pc' = pc
      BY <1>2, RestSteps
  <2>2. CASE overrun' = overrun /\ spent'["expiry"] = spent["expiry"]
      BY <2>1, <2>2 DEF Overruns, InRound
  <2>3. CASE LockExpires
    <3>1. overrun' = overrun \cup {lock} /\ InRound(lock)
        BY <2>3 DEF LockExpires
    <3>2. IsFiniteSet(overrun')
        BY <3>1, FS_AddElement DEF Overruns
    <3>3. spent'["expiry"] # 0
        BY <2>3, ExpiryStays
    <3> QED BY <2>1, <3>1, <3>2, <3>3 DEF Overruns, InRound
  <2> QED BY <1>2, <2>2, <2>3, RestSteps
<1> QED BY <1>1, <1>2

\* While no lock has expired a round is alone.
LEMMA AloneUnlessExpired ==
    ASSUME IInv, Overruns, spent["expiry"] = 0, NEW r \in Runners, NEW s \in Runners,
           InRound(r), InRound(s)
    PROVE  r = s
BY DEF IInv, Sound, Overruns

\* A version number says what the transcript holds, and while no lock has expired
\* a round that is about to append has loaded the newest one, and a round that
\* is about to run is not in it.
Loaded ==
    /\ \A r \in Runners : pc[r] \in {"append", "foldStore"} =>
          /\ copy[r].ver <= ver
          /\ copy[r].ver = ver => copy[r].markers = transcript
    /\ spent["expiry"] = 0 =>
          \A r \in Runners :
              /\ pc[r] = "append" => copy[r].ver = ver
              /\ pc[r] = "run" => round[r] \notin transcript

\* Who may touch the transcript, and what a runner knows of it.
LEMMA SessionSteps ==
    ASSUME TypeOK, NEW r \in Runners, RunnerMoves(r)
    PROVE  /\ AppendSession(r) \/ FoldStore(r) \/ UNCHANGED <<transcript, ver>>
           /\ pc'[r] = "append" => LoadSession(r) \/ ConnectionLoss(r)
           /\ pc'[r] = "foldStore" => Fold(r) \/ ConnectionLoss(r)
           /\ pc'[r] = "run" => CheckHistory(r) \/ ConnectionLoss(r)
<1> USE DEF mailbox, chat, redis, session, runner
<1>1. AppendSession(r) \/ FoldStore(r) \/ UNCHANGED <<transcript, ver>>
    BY DEF RunnerMoves, RunnerStep, RunnerFails, Start, Lock, CheckCd, ReadInbox,
           CheckHistory, Run, LoadSession, MarkRead, Fold, SetCd, Release, RunFails,
           PersistFails, CallFails, Crash, ConnectionLoss
<1>2. CASE CheckHistory(r) \/ LoadSession(r) \/ Fold(r) \/ ConnectionLoss(r)
  <2>1. CheckHistory(r) => pc'[r] \in {"release", "run"}
      BY DEF CheckHistory, Goto, TypeOK
  <2>2. LoadSession(r) => pc'[r] = "append"
      BY DEF LoadSession, Goto, TypeOK
  <2>3. Fold(r) => pc'[r] \in {"cool", "foldStore"}
      BY DEF Fold, Goto, TypeOK
  <2> QED BY <1>1, <1>2, <2>1, <2>2, <2>3
<1>3. CASE ~(CheckHistory(r) \/ LoadSession(r) \/ Fold(r) \/ ConnectionLoss(r))
  <2>1. ASSUME NEW step \in PCs \ {"append", "foldStore", "run"}, Goto(r, step)
        PROVE  pc'[r] \notin {"append", "foldStore", "run"}
      BY <2>1 DEF Goto, TypeOK
  <2>2. ASSUME MarkRead(r) PROVE pc'[r] \notin {"append", "foldStore", "run"}
      BY <2>1, <2>2, StepNames DEF MarkRead
  <2>3. ASSUME Done(r) PROVE pc'[r] \notin {"append", "foldStore", "run"}
      BY <2>1, <2>3, StepNames DEF Done
  <2>4. ASSUME \/ Start(r) \/ Lock(r) \/ CheckCd(r) \/ ReadInbox(r) \/ Run(r)
               \/ AppendSession(r) \/ FoldStore(r) \/ SetCd(r) \/ RunFails(r)
               \/ PersistFails(r)
        PROVE  pc'[r] \notin {"append", "foldStore", "run"}
      BY <2>1, <2>4, StepNames
      DEF Start, Lock, CheckCd, ReadInbox, Run, AppendSession, FoldStore, SetCd, RunFails,
          PersistFails
  <2>5. ASSUME Release(r) \/ CallFails(r) \/ Crash(r)
        PROVE  pc'[r] \notin {"append", "foldStore", "run"}
      BY <2>1, <2>3, <2>5, StepNames DEF Release, CallFails, Crash
  <2> QED BY <1>1, <1>3, <2>2, <2>4, <2>5 DEF RunnerMoves, RunnerStep, RunnerFails
<1> QED BY <1>2, <1>3

LEMMA LoadedStep == IInv /\ Overruns /\ Loaded /\ [Next]_vars => Loaded'
<1> SUFFICES ASSUME IInv, Overruns, Loaded, [Next]_vars PROVE Loaded'
    OBVIOUS
<1> USE DEF mailbox, chat, redis, session, runner
<1>0. TypeOK /\ ver \in Nat
    BY DEF IInv, TypeOK
<1>1. CASE ~\E r \in Runners : RunnerMoves(r)
    BY <1>0, <1>1, RestSteps, ExpiryStays DEF Loaded
<1>2. ASSUME NEW r \in Runners, RunnerMoves(r) PROVE Loaded'
  <2>1. /\ \A s \in Runners \ {r} : pc'[s] = pc[s] /\ round'[s] = round[s] /\ copy'[s] = copy[s]
        /\ spent'["expiry"] = spent["expiry"]
      BY <1>0, <1>2, OnlyItself
  <2>2. /\ ver' \in Nat /\ ver' >= ver
        /\ ver' = ver => transcript' = transcript
    <3>1. CASE AppendSession(r) \/ FoldStore(r)
        BY <1>0, <3>1 DEF AppendSession, FoldStore
    <3> QED BY <1>0, <1>2, <3>1, SessionSteps
  <2>3. ASSUME NEW s \in Runners \ {r}, pc[s] \in {"append", "foldStore"}
        PROVE  copy[s].ver \in Nat /\ copy'[s].ver <= ver'
               /\ (copy'[s].ver = ver' => copy'[s].markers = transcript')
    <3>1. copy[s].ver \in Nat
        BY <1>0 DEF TypeOK, Version
    <3>2. copy[s].ver <= ver /\ (copy[s].ver = ver => copy[s].markers = transcript)
        BY <2>3 DEF Loaded
    <3> QED BY <1>0, <2>1, <2>2, <3>1, <3>2
  <2>4. ASSUME NEW s \in Runners \ {r}, spent["expiry"] = 0, pc[s] \in {"append", "run"}
        PROVE  UNCHANGED <<transcript, ver>>
    <3>1. InRound(s)
        BY <2>4 DEF InRound
    <3>2. ~InRound(r)
        BY <2>4, <3>1, AloneUnlessExpired
    <3>3. ~AppendSession(r) /\ ~FoldStore(r)
        BY <3>2 DEF AppendSession, FoldStore, InRound
    <3> QED BY <1>0, <1>2, <3>3, SessionSteps
  <2>5. CASE LoadSession(r)
    <3>1. copy'[r] = [markers |-> transcript, ver |-> ver] /\ pc'[r] = "append"
          /\ UNCHANGED <<transcript, ver>>
        BY <1>0, <2>5, GotoEffect, StepNames DEF LoadSession, TypeOK
    <3> QED BY <1>0, <2>1, <2>3, <2>4, <3>1 DEF Loaded
  <2>6. CASE Fold(r)
    <3>1. pc'[r] = "foldStore" => copy'[r] = [markers |-> transcript, ver |-> ver]
        BY <1>0, <2>6, GotoEffect, StepNames DEF Fold, TypeOK
    <3>2. pc'[r] \in {"cool", "foldStore"} /\ UNCHANGED <<transcript, ver>>
        BY <1>0, <2>6, GotoEffect, StepNames DEF Fold
    <3> QED BY <1>0, <2>1, <2>3, <2>4, <3>1, <3>2 DEF Loaded
  <2>7. CASE CheckHistory(r)
    <3>1. pc'[r] = "run" => round[r] \notin transcript
        BY <1>0, <2>7 DEF CheckHistory, Goto, TypeOK
    <3>2. pc'[r] \in {"run", "release"} /\ UNCHANGED <<transcript, ver, round>>
        BY <1>0, <2>7 DEF CheckHistory, Goto, TypeOK
    <3> QED BY <1>0, <2>1, <2>3, <2>4, <3>1, <3>2 DEF Loaded
  <2>8. CASE ConnectionLoss(r)
      BY <1>0, <2>1, <2>8 DEF ConnectionLoss, Loaded
  <2>9. CASE ~LoadSession(r) /\ ~Fold(r) /\ ~CheckHistory(r) /\ ~ConnectionLoss(r)
    <3>1. pc'[r] \notin {"append", "foldStore", "run"}
        BY <1>0, <1>2, <2>9, SessionSteps
    <3> QED BY <1>0, <2>1, <2>3, <2>4, <3>1 DEF Loaded
  <2> QED BY <2>5, <2>6, <2>7, <2>8, <2>9
<1> QED BY <1>1, <1>2

LEMMA LoadedAlways == Spec => [](IInv /\ Overruns /\ Loaded)
<1>1. Init => IInv /\ Overruns /\ Loaded
  <2> SUFFICES ASSUME Init PROVE Overruns /\ Loaded
      BY SafeInit
  <2>1. overrun = {} /\ \A r \in Runners : pc[r] = "idle"
      BY DEF Init
  <2> QED BY <2>1, FS_EmptySet DEF Overruns, Loaded
<1>2. IInv => TypeOK
    BY DEF IInv
<1> QED BY <1>1, <1>2, SafeStep, OverrunsStep, LoadedStep, PTL DEF Spec

\* A round whose marker is in the transcript is not run again, however often its
\* batch is knocked for, unless a lock has expired under a round
\* (_round_already_processed reads what no other round can be writing).
THEOREM RoundsRunOnce == Spec => NoRoundTwice
<1>1. IInv /\ Loaded /\ [Next]_vars
      => [\A r \in Runners :
             /\ pc[r] = "run" /\ pc'[r] = "load"
             /\ spent["expiry"] = 0
             => round[r] \notin transcript]_vars
    BY DEF Loaded
<1> QED BY <1>1, LoadedAlways, PTL DEF Spec, NoRoundTwice

\* Nothing but an append takes a round's marker out of the transcript, and that one
\* only by the hard cap or after a lock has expired: a fold stores what it has loaded,
\* markers and all, or gives way to a newer version (session_fold.py).
THEOREM FoldsKeepRounds == Spec => FoldKeepsRounds
<1>1. IInv /\ Overruns /\ Loaded /\ [Next]_vars
      => [\/ transcript \subseteq transcript'
          \/ /\ \E r \in Runners : pc[r] = "append" /\ pc'[r] = "mark"
             /\ spent["expiry"] > 0 \/ spent'["cap"] > spent["cap"]]_vars
  <2> SUFFICES ASSUME IInv, Overruns, Loaded, [Next]_vars, ~(transcript \subseteq transcript')
               PROVE  /\ \E r \in Runners : pc[r] = "append" /\ pc'[r] = "mark"
                      /\ spent["expiry"] > 0 \/ spent'["cap"] > spent["cap"]
      OBVIOUS
  <2>0. TypeOK /\ spent["expiry"] \in Nat /\ spent["cap"] \in Nat
      BY FaultNames DEF IInv, TypeOK
  <2>1. PICK r \in Runners : RunnerMoves(r)
      BY <2>0, RestSteps
  <2>2. ~FoldStore(r)
      BY DEF FoldStore, Loaded, session
  <2>3. AppendSession(r)
      BY <2>0, <2>1, <2>2, SessionSteps
  <2>4. pc[r] = "append" /\ pc'[r] = "mark"
      BY <2>0, <2>3, GotoEffect, StepNames DEF AppendSession
  <2>5. spent["expiry"] > 0 \/ spent'["cap"] > spent["cap"]
    <3> SUFFICES ASSUME spent["expiry"] = 0 PROVE spent'["cap"] > spent["cap"]
        BY <2>0
    <3>1. copy[r].markers = transcript
        BY <2>4 DEF Loaded
    <3>2. Spend("cap")
        BY <2>3, <3>1 DEF AppendSession
    <3> QED BY <2>0, <3>2, FaultNames, SpendEffect
  <2> QED BY <2>4, <2>5
<1> QED BY <1>1, LoadedAlways, PTL DEF Spec, FoldKeepsRounds

--------------------------------------------------------------------------------
(* Only calls that fail, workers that die and locks that expire repeat an event. *)

Mishaps == spent["call"] + spent["crash"] + spent["expiry"]

\* Rounds that have outlived their lock and may still run their batch.
Ahead == {"cd", "inbox", "history", "run"}

Strays == {r \in overrun : pc[r] \in Ahead}

\* No round that holds the lock will run the event again, as things stand.
Calm(e) ==
    /\ \/ e \in read
       \/ \E r \in Runners \ overrun : pc[r] \in {"load", "append", "mark"} /\ e \in todo[r]
    /\ \A r \in Runners \ overrun : pc[r] \in {"history", "run"} => e \notin round[r].events

\* Every run of an event but the first, and every one a stray may add, is paid for.
Charged ==
    \A e \in Events :
        /\ shown[e] + Cardinality(Strays) <= 1 + Mishaps
        /\ ~Calm(e) => shown[e] + Cardinality(Strays) <= Mishaps

LEMMA MishapsGrow ==
    ASSUME TypeOK, \A f \in Faults : spent'[f] = spent[f] \/ Spend(f)
    PROVE  /\ Mishaps \in Nat /\ Mishaps' \in Nat /\ Mishaps' >= Mishaps
           /\ \A f \in {"call", "crash", "expiry"} : Spend(f) => Mishaps' >= Mishaps + 1
<1>1. ASSUME NEW f \in Faults
      PROVE  /\ spent[f] \in Nat /\ spent'[f] \in Nat /\ spent'[f] >= spent[f]
             /\ Spend(f) => spent'[f] = spent[f] + 1
  <2>1. spent[f] \in Nat
      BY DEF TypeOK
  <2>2. Spend(f) => spent'[f] = spent[f] + 1
      BY SpendEffect
  <2> QED BY <2>1, <2>2
<1> QED BY <1>1, FaultNames DEF Mishaps

LEMMA StraysCount ==
    ASSUME Overruns
    PROVE  IsFiniteSet(Strays) /\ Cardinality(Strays) \in Nat
<1>1. Strays \in SUBSET overrun
    BY DEF Strays
<1> QED BY <1>1, FS_Subset, FS_CardinalityType DEF Overruns

\* A step that shows nothing and adds no stray is charged for if it costs calm.
LEMMA QuietCharge ==
    ASSUME TypeOK, Overruns, Overruns', NEW e \in Events,
           shown[e] + Cardinality(Strays) <= 1 + Mishaps,
           ~Calm(e) => shown[e] + Cardinality(Strays) <= Mishaps,
           \A f \in Faults : spent'[f] = spent[f] \/ Spend(f),
           shown'[e] = shown[e], Strays' \subseteq Strays,
           Calm(e) => Calm(e)' \/ Mishaps' >= Mishaps + 1
    PROVE  /\ shown'[e] + Cardinality(Strays') <= 1 + Mishaps'
           /\ ~Calm(e)' => shown'[e] + Cardinality(Strays') <= Mishaps'
<1>1. /\ Cardinality(Strays) \in Nat /\ Cardinality(Strays') \in Nat
      /\ Cardinality(Strays') <= Cardinality(Strays)
  <2>1. IsFiniteSet(Strays') /\ Cardinality(Strays') \in Nat
    <3>1. Strays' \in SUBSET overrun'
        BY DEF Strays
    <3> QED BY <3>1, FS_Subset, FS_CardinalityType DEF Overruns
  <2> QED BY <2>1, StraysCount, FS_Subset
<1>2. Mishaps \in Nat /\ Mishaps' \in Nat /\ Mishaps' >= Mishaps
    BY MishapsGrow
<1>3. shown[e] \in Nat
    BY DEF TypeOK
<1> HIDE DEF Mishaps
<1> QED BY <1>1, <1>2, <1>3

\* Whoever is ahead of its run was so before, or has just taken the lock.
LEMMA StraysShrink ==
    ASSUME IInv, Overruns, NEW r \in Runners, RunnerMoves(r)
    PROVE  Strays' \subseteq Strays
<1> USE DEF mailbox, chat, redis, session, runner
<1>0. TypeOK
    BY DEF IInv
<1>1. overrun' \subseteq overrun /\ \A s \in Runners \ {r} : pc'[s] = pc[s]
    BY <1>0, OnlyItself DEF Done
<1>2. ASSUME pc'[r] \in Ahead PROVE pc[r] \in Ahead \/ ~InRound(r)
  <2>1. ASSUME NEW step \in PCs \ Ahead, Goto(r, step) PROVE FALSE
      BY <1>0, <1>2, <2>1, GotoEffect
  <2>2. ASSUME MarkRead(r) PROVE FALSE
      BY <1>2, <2>1, <2>2, StepNames DEF MarkRead, Ahead
  <2>3. ASSUME Done(r) PROVE FALSE
      BY <2>1, <2>3, StepNames DEF Done, Ahead
  <2>4. ASSUME \/ Run(r) \/ LoadSession(r) \/ AppendSession(r) \/ Fold(r) \/ FoldStore(r)
               \/ SetCd(r) \/ RunFails(r) \/ PersistFails(r)
        PROVE  FALSE
      BY <2>1, <2>4, StepNames
      DEF Run, LoadSession, AppendSession, Fold, FoldStore, SetCd, RunFails, PersistFails,
          Ahead
  <2>5. ASSUME Release(r) \/ CallFails(r) \/ Crash(r) PROVE FALSE
      BY <2>1, <2>3, <2>5, StepNames DEF Release, CallFails, Crash, Ahead
  <2>6. Start(r) \/ Lock(r) => ~InRound(r)
      BY DEF Start, Lock, InRound
  <2>7. CheckCd(r) \/ ReadInbox(r) \/ CheckHistory(r) => pc[r] \in Ahead
      BY DEF CheckCd, ReadInbox, CheckHistory, Ahead
  <2>8. ConnectionLoss(r) => pc' = pc
      BY DEF ConnectionLoss
  <2> QED BY <1>2, <2>2, <2>4, <2>5, <2>6, <2>7, <2>8 DEF RunnerMoves, RunnerStep, RunnerFails
<1> QED BY <1>0, <1>1, <1>2 DEF Strays, Overruns, TypeOK

\* A runner keeps an event calm by writing down what it ran; only a call that fails
\* or a death ends that before the event is read.
LEMMA CalmKept ==
    ASSUME IInv, Overruns, NEW r \in Runners, RunnerMoves(r), NEW e \in Events, Calm(e)
    PROVE  Calm(e)' \/ Spend("call") \/ Spend("crash") \/ Run(r)
<1> USE DEF mailbox, chat, redis, session, runner
<1> SUFFICES ASSUME ~Spend("call"), ~Spend("crash"), ~Run(r) PROVE Calm(e)'
    OBVIOUS
<1>0. TypeOK
    BY DEF IInv
<1>1. /\ \A s \in Runners \ {r} : pc'[s] = pc[s] /\ round'[s] = round[s] /\ todo'[s] = todo[s]
      /\ \A s \in Runners \ {r} : s \in overrun <=> s \in overrun'
    BY <1>0, OnlyItself DEF Done
<1>2. read \subseteq read'
    BY DEF RunnerMoves, RunnerStep, RunnerFails, Start, Lock, CheckCd, ReadInbox, CheckHistory,
           LoadSession, AppendSession, MarkRead, Fold, FoldStore, SetCd, Release, RunFails,
           PersistFails, CallFails, Crash, ConnectionLoss
<1>3. ASSUME r \notin overrun, pc[r] \in {"load", "append", "mark"}, e \in todo[r]
      PROVE  \/ e \in read'
             \/ r \notin overrun' /\ pc'[r] \in {"load", "append", "mark"} /\ e \in todo'[r]
  <2>1. \/ LoadSession(r) \/ AppendSession(r) \/ MarkRead(r) \/ ConnectionLoss(r)
        \/ CallFails(r) \/ Crash(r) \/ PersistFails(r)
      BY <1>3
      DEF RunnerMoves, RunnerStep, RunnerFails, Start, Lock, CheckCd, ReadInbox, CheckHistory,
          Fold, FoldStore, SetCd, Release, RunFails
  <2>2. ~CallFails(r) /\ ~Crash(r) /\ ~PersistFails(r)
      BY DEF CallFails, Crash, PersistFails
  <2>3. CASE LoadSession(r) \/ AppendSession(r)
    <3>1. pc'[r] \in {"append", "mark"}
        BY <1>0, <2>3, GotoEffect, StepNames DEF LoadSession, AppendSession
    <3> QED BY <1>3, <2>3, <3>1 DEF LoadSession, AppendSession
  <2>4. CASE MarkRead(r)
    <3>1. PICK f \in Oldest(1, todo[r]) :
            /\ read' = read \cup {f}
            /\ todo' = [todo EXCEPT ![r] = @ \ {f}]
            /\ UNCHANGED pc
        BY <1>3, <2>4 DEF MarkRead
    <3>2. todo'[r] = todo[r] \ {f}
        BY <1>0, <3>1 DEF TypeOK
    <3> QED BY <1>3, <2>4, <3>1, <3>2 DEF MarkRead
  <2>5. CASE ConnectionLoss(r)
      BY <1>3, <2>5 DEF ConnectionLoss
  <2> QED BY <2>1, <2>2, <2>3, <2>4, <2>5
<1>4. ASSUME r \notin overrun', pc'[r] \in {"history", "run"}
      PROVE  e \notin round'[r].events
  <2>1. ASSUME NEW step \in PCs \ {"history", "run"}, Goto(r, step) PROVE FALSE
      BY <1>0, <1>4, <2>1, GotoEffect
  <2>2. ASSUME Done(r) PROVE FALSE
      BY <2>1, <2>2, StepNames DEF Done
  <2>3. CASE \/ Start(r) \/ Lock(r) \/ CheckCd(r) \/ LoadSession(r) \/ AppendSession(r)
             \/ Fold(r) \/ FoldStore(r) \/ SetCd(r) \/ RunFails(r) \/ PersistFails(r)
      BY <2>1, <2>3, StepNames
      DEF Start, Lock, CheckCd, LoadSession, AppendSession, Fold, FoldStore, SetCd, RunFails,
          PersistFails
  <2>4. CASE Release(r) \/ CallFails(r) \/ Crash(r)
      BY <2>1, <2>2, <2>4, StepNames DEF Release, CallFails, Crash
  <2>5. CASE MarkRead(r)
      BY <1>4, <2>1, <2>5, StepNames DEF MarkRead
  <2>6. CASE CheckHistory(r) \/ ConnectionLoss(r)
      BY <1>4, <2>6 DEF CheckHistory, ConnectionLoss, Calm
  <2>7. CASE ReadInbox(r)
    <3>1. r \notin overrun /\ InRound(r) /\ pc[r] = "inbox"
        BY <1>4, <2>7 DEF ReadInbox, InRound
    <3>2. e \in read
        BY <3>1 DEF Calm, IInv, Sound, InRound
    <3>3. \A f \in round'[r].events : f \in Unread
        BY <1>0, <2>7 DEF ReadInbox, Oldest, TypeOK
    <3> QED BY <3>2, <3>3 DEF Unread
  <2> QED
      BY <2>3, <2>4, <2>5, <2>6, <2>7 DEF RunnerMoves, RunnerStep, RunnerFails
<1> QED BY <1>1, <1>2, <1>3, <1>4 DEF Calm

\* A completed run is the one a calm event is owed, or that of a stray.
LEMMA RunCharge ==
    ASSUME IInv, Overruns, Overruns', Charged, NEW r \in Runners, Run(r)
    PROVE  Charged'
<1> USE DEF mailbox, chat, redis, session, runner
<1>0. TypeOK
    BY DEF IInv
<1>1. /\ \A s \in Runners \ {r} : pc'[s] = pc[s] /\ round'[s] = round[s] /\ todo'[s] = todo[s]
      /\ pc[r] = "run" /\ pc'[r] = "load" /\ todo'[r] = round[r].events
      /\ UNCHANGED <<read, overrun, round, spent>>
    BY <1>0, GotoEffect, StepNames DEF Run, TypeOK
<1>2. /\ \A f \in Faults : spent'[f] = spent[f] \/ Spend(f)
      /\ Mishaps' = Mishaps /\ Mishaps \in Nat
    BY <1>0, <1>1, MishapsGrow DEF Mishaps
<1>3. Strays' = Strays \ {r} /\ (r \in overrun <=> r \in Strays)
    BY <1>0, <1>1 DEF Strays, Ahead, TypeOK
<1>4. ASSUME NEW e \in Events, e \notin round[r].events \/ r \in overrun, Calm(e) PROVE Calm(e)'
    BY <1>1, <1>4 DEF Calm
<1> SUFFICES ASSUME NEW e \in Events
             PROVE  /\ shown'[e] + Cardinality(Strays') <= 1 + Mishaps'
                    /\ ~Calm(e)' => shown'[e] + Cardinality(Strays') <= Mishaps'
    BY DEF Charged
<1>5. /\ shown[e] + Cardinality(Strays) <= 1 + Mishaps
      /\ ~Calm(e) => shown[e] + Cardinality(Strays) <= Mishaps
      /\ shown[e] \in Nat
    BY <1>0 DEF Charged, TypeOK
<1>6. shown'[e] = IF e \in round[r].events THEN shown[e] + 1 ELSE shown[e]
    BY DEF Run
<1>7. CASE e \notin round[r].events
    BY <1>0, <1>2, <1>3, <1>4, <1>5, <1>6, <1>7, QuietCharge
<1>8. CASE e \in round[r].events /\ r \in overrun
  <2>1. Cardinality(Strays') = Cardinality(Strays) - 1 /\ Cardinality(Strays) \in Nat
      BY <1>3, <1>8, StraysCount, FS_RemoveElement
  <2>2. Calm(e) => Calm(e)'
      BY <1>4, <1>8
  <2> HIDE DEF Mishaps
  <2> QED BY <1>2, <1>5, <1>6, <1>8, <2>1, <2>2
<1>9. CASE e \in round[r].events /\ r \notin overrun
  <2>1. ~Calm(e)
      BY <1>1, <1>9 DEF Calm
  <2>2. \A s \in Runners \ overrun : s # r => ~InRound(s)
      BY <1>1, <1>9 DEF IInv, Sound, InRound
  <2>3. Calm(e)'
      BY <1>1, <1>9, <2>2 DEF Calm, InRound
  <2>4. Strays' = Strays /\ Cardinality(Strays) \in Nat
      BY <1>3, <1>9, StraysCount
  <2> HIDE DEF Mishaps
  <2> QED BY <1>2, <1>5, <1>6, <1>9, <2>1, <2>3, <2>4
<1> QED BY <1>7, <1>8, <1>9

\* A lock that expires is paid for, and makes a stray of a round ahead of its run.
LEMMA ExpiryCharge ==
    ASSUME IInv, Overruns, Overruns', Charged, LockExpires
    PROVE  Charged'
<1> USE DEF mailbox, chat, redis, session, runner
<1>0. TypeOK
    BY DEF IInv
<1>1. /\ lock \in Runners /\ InRound(lock) /\ overrun' = overrun \cup {lock}
      /\ UNCHANGED <<pc, round, todo, read, shown>> /\ Spend("expiry")
    BY <1>0 DEF LockExpires, TypeOK
<1>2. Mishaps \in Nat /\ Mishaps' \in Nat /\ Mishaps' >= Mishaps + 1
    BY <1>0, <1>1, FaultNames, SpendEffect, MishapsGrow
<1>3. Strays' = IF pc[lock] \in Ahead THEN Strays \cup {lock} ELSE Strays
    BY <1>1 DEF Strays
<1>4. /\ Cardinality(Strays) \in Nat /\ Cardinality(Strays') \in Nat
      /\ Cardinality(Strays') <= Cardinality(Strays) + 1
      /\ pc[lock] \notin Ahead => Cardinality(Strays') = Cardinality(Strays)
  <2>1. Cardinality(Strays \cup {lock}) \in {Cardinality(Strays), Cardinality(Strays) + 1}
      BY StraysCount, FS_AddElement
  <2> QED BY <1>3, <2>1, StraysCount
<1> SUFFICES ASSUME NEW e \in Events
             PROVE  /\ shown'[e] + Cardinality(Strays') <= 1 + Mishaps'
                    /\ ~Calm(e)' => shown'[e] + Cardinality(Strays') <= Mishaps'
    BY DEF Charged
<1>5. /\ shown[e] + Cardinality(Strays) <= 1 + Mishaps
      /\ ~Calm(e) => shown[e] + Cardinality(Strays) <= Mishaps
      /\ shown[e] \in Nat /\ shown'[e] = shown[e]
    BY <1>0, <1>1 DEF Charged, TypeOK
<1>6. Calm(e) /\ pc[lock] \in Ahead => Calm(e)'
    BY <1>1 DEF Calm, Ahead
<1> HIDE DEF Mishaps
<1> QED BY <1>2, <1>4, <1>5, <1>6

LEMMA ChargedStep ==
    ASSUME IInv, Overruns, Overruns', Charged, [Next]_vars
    PROVE  Charged'
<1>0. TypeOK
    BY DEF IInv
<1>1. CASE LockExpires
    BY <1>1, ExpiryCharge
<1>2. ASSUME NEW r \in Runners, Run(r) PROVE Charged'
    BY <1>2, RunCharge
<1>3. ASSUME NEW r \in Runners, RunnerMoves(r), ~Run(r) PROVE Charged'
  <2>1. UNCHANGED shown
      BY <1>3
      DEF RunnerMoves, RunnerStep, RunnerFails, Start, Lock, CheckCd, ReadInbox, CheckHistory,
          LoadSession, AppendSession, MarkRead, Fold, FoldStore, SetCd, Release, RunFails,
          PersistFails, CallFails, Crash, ConnectionLoss
  <2>2. \A f \in Faults : spent'[f] = spent[f] \/ Spend(f)
      BY <1>0, <1>3, OnlyItself
  <2>3. Strays' \subseteq Strays
      BY <1>3, StraysShrink
  <2>4. ASSUME NEW e \in Events, Calm(e) PROVE Calm(e)' \/ Mishaps' >= Mishaps + 1
      BY <1>0, <1>3, <2>2, <2>4, CalmKept, MishapsGrow
  <2> QED BY <1>0, <2>1, <2>2, <2>3, <2>4, QuietCharge DEF Charged
<1>4. CASE ~LockExpires /\ ~\E r \in Runners : RunnerMoves(r)
  <2>1. /\ UNCHANGED <<pc, round, todo, read, shown, overrun>>
        /\ \A f \in Faults : spent'[f] = spent[f] \/ Spend(f)
      BY <1>0, <1>4, RestSteps
  <2>2. Strays' = Strays /\ \A e \in Events : Calm(e) => Calm(e)'
      BY <2>1 DEF Strays, Calm
  <2> QED BY <1>0, <2>1, <2>2, QuietCharge DEF Charged
<1> QED BY <1>1, <1>2, <1>3, <1>4

\* An event is input to one completed run only, whatever knocks, redeliveries, failing
\* models and overtaken transcripts there are; each further run of it is paid for with a
\* call that failed, a worker that died or a lock that expired under a round.
THEOREM RepeatsAreFaults == Spec => []RepeatsNeedFaults
<1>1. Init => Charged
  <2> SUFFICES ASSUME Init, NEW e \in Events
               PROVE  shown[e] + Cardinality(Strays) = 0 /\ Mishaps = 0
      BY DEF Charged
  <2>1. shown[e] = 0 /\ overrun = {} /\ \A f \in Faults : spent[f] = 0
      BY DEF Init
  <2>2. Strays = {} /\ Mishaps = 0
      BY <2>1, FaultNames DEF Strays, Mishaps
  <2> QED BY <2>1, <2>2, FS_EmptySet
<1>2. TypeOK /\ Overruns /\ Charged => RepeatsNeedFaults
  <2> SUFFICES ASSUME TypeOK, Overruns, Charged, NEW e \in Events
               PROVE  shown[e] <= 1 + spent["call"] + spent["crash"] + spent["expiry"]
      BY DEF RepeatsNeedFaults
  <2>1. Cardinality(Strays) \in Nat /\ shown[e] \in Nat
      BY StraysCount DEF TypeOK
  <2>2. spent["call"] \in Nat /\ spent["crash"] \in Nat /\ spent["expiry"] \in Nat
      BY FaultNames DEF TypeOK
  <2> QED BY <2>1, <2>2 DEF Charged, Mishaps
<1>3. IInv => TypeOK
    BY DEF IInv
<1> QED BY <1>1, <1>2, <1>3, ChargedStep, LoadedAlways, PTL DEF Spec
================================================================================
