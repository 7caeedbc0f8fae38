---------------------------- MODULE Debounce_proofs ----------------------------
(***************************************************************************)
(* Proofs about Debounce, for every number of handlers, events and         *)
(* reschedules, every max_buffer and every bound on the environment.       *)
(***************************************************************************)
EXTENDS Debounce, TLAPS

LEMMA TriggerFields ==
    /\ None \notin Trigger
    /\ \A t \in Trigger :
          /\ t.ev \in 1 .. MaxEvents /\ t.ev \in Nat
          /\ t.gen \in 0 .. MaxReschedules /\ t.gen \in Nat
BY ConstantsAssumption DEF Trigger

\* A rescheduled trigger belongs to the same event and is a new one.
LEMMA RescheduledTrigger ==
    ASSUME NEW t \in Trigger, t.gen < MaxReschedules
    PROVE  /\ Rescheduled(t) \in Trigger
           /\ Rescheduled(t).ev = t.ev
           /\ Rescheduled(t).gen = t.gen + 1
           /\ Rescheduled(t) # t
<1>1. t = [ev |-> t.ev, gen |-> t.gen] /\ t.ev \in 1 .. MaxEvents /\ t.gen \in Nat
    BY TriggerFields DEF Trigger
<1>2. Rescheduled(t) = [ev |-> t.ev, gen |-> t.gen + 1]
    BY <1>1 DEF Rescheduled
<1>3. t.gen + 1 \in 0 .. MaxReschedules /\ t.gen + 1 # t.gen
    BY <1>1, ConstantsAssumption
<1> QED BY <1>1, <1>2, <1>3 DEF Trigger

LEMMA BusyHasTrigger ==
    ASSUME TypeOK, NEW h \in Handlers, pc[h] # "idle"
    PROVE  /\ trig[h] \in Trigger /\ trig[h] # None
           /\ trig[h].ev \in 1 .. MaxEvents /\ trig[h].ev \in Nat
BY TriggerFields DEF TypeOK

--------------------------------------------------------------------------------
(* What the helpers do to the variables they touch. *)

LEMMA GotoEffect ==
    ASSUME TypeOK, NEW h \in Handlers, NEW step \in PCs, Goto(h, step)
    PROVE  /\ pc' \in [Handlers -> PCs]
           /\ pc'[h] = step
           /\ \A g \in Handlers \ {h} : pc'[g] = pc[g]
BY DEF TypeOK, Goto

LEMMA SpendEffect ==
    ASSUME TypeOK, NEW e \in Faults, Spend(e)
    PROVE  /\ spent' \in [Faults -> Nat]
           /\ spent'[e] = spent[e] + 1
           /\ \A d \in Faults \ {e} : spent'[d] = spent[d]
BY DEF TypeOK, Spend

LEMMA AnsweredEffect ==
    ASSUME TypeOK, NEW h \in Handlers, NEW step \in PCs, Answered(h, step)
    PROVE  /\ pc' \in [Handlers -> PCs]
           /\ pc'[h] \in {step, "nack"}
           /\ \A g \in Handlers \ {h} : pc'[g] = pc[g]
           /\ spent' \in [Faults -> Nat]
           /\ spent'["expiry"] = spent["expiry"]
<1>1. "nack" \in PCs /\ "fault" \in Faults /\ "expiry" \in Faults \ {"fault"}
    BY DEF PCs, Faults
<1>2. CASE Goto(h, step) /\ UNCHANGED spent
    BY <1>2, GotoEffect DEF TypeOK
<1>3. CASE Goto(h, "nack") /\ Spend("fault")
    BY <1>1, <1>3, GotoEffect, SpendEffect
<1> QED BY <1>2, <1>3 DEF Answered

LEMMA ReleaseEffect ==
    ASSUME TypeOK, NEW h \in Handlers, Release(h)
    PROVE  /\ pc' \in [Handlers -> PCs]
           /\ trig' \in [Handlers -> Trigger \cup {None}]
           /\ held' \in [Handlers -> BOOLEAN]
           /\ pc'[h] = "idle" /\ trig'[h] = None /\ ~held'[h]
           /\ \A g \in Handlers \ {h} :
                 pc'[g] = pc[g] /\ trig'[g] = trig[g] /\ held'[g] = held[g]
<1>1. "idle" \in PCs /\ Goto(h, "idle")
    BY DEF PCs, Release
<1> QED BY <1>1, GotoEffect DEF TypeOK, Release

\* What an emitter's Lua script sets.
LEMMA PublishLuaEffect ==
    ASSUME TypeOK, PublishLua
    PROVE  /\ emitted' = emitted + 1 /\ emitted' \in 1 .. MaxEvents
           /\ latest' \in Trigger /\ latest'.ev = emitted'
           /\ \A t \in Trigger : t.ev <= emitted => latest' # t
           /\ publishing' = publishing \cup {latest'}
           /\ \/ count' = 0 /\ base' = emitted + 1
              \/ count' = count + 1 /\ count' < MaxBuffer /\ base' = base
<1>1. emitted + 1 \in 1 .. MaxEvents
    BY ConstantsAssumption DEF TypeOK, PublishLua
<1>2. latest' = [ev |-> emitted + 1, gen |-> 0] /\ 0 \in 0 .. MaxReschedules
    BY ConstantsAssumption DEF PublishLua
<1>3. latest' \in Trigger /\ latest'.ev = emitted + 1
    BY <1>1, <1>2 DEF Trigger
<1>4. \A t \in Trigger : t.ev <= emitted => latest' # t
  <2>1. emitted \in Nat /\ ~(emitted + 1 <= emitted)
      BY DEF TypeOK
  <2> QED BY <1>3, <2>1
<1>5. \/ count' = 0 /\ base' = emitted + 1
      \/ count' = count + 1 /\ count' < MaxBuffer /\ base' = base
    BY ConstantsAssumption DEF PublishLua, TypeOK
<1> QED BY <1>1, <1>3, <1>4, <1>5 DEF PublishLua

--------------------------------------------------------------------------------
\* Every variable keeps its type.
LEMMA TypeStep == TypeOK /\ [Next]_vars => TypeOK'
<1> SUFFICES ASSUME TypeOK, [Next]_vars PROVE TypeOK'
    OBVIOUS
<1> USE DEF redis, queues, handlers, history
<1>0. /\ "fault" \in Faults /\ "crash" \in Faults /\ "loss" \in Faults
      /\ "expiry" \in Faults /\ "replay" \in Faults
      /\ 0 \in 0 .. MaxBuffer - 1
    BY ConstantsAssumption DEF Faults
<1>1. CASE PublishLua
  <2>1. emitted' \in 0 .. MaxEvents /\ base' \in 0 .. MaxEvents
      BY <1>1, PublishLuaEffect, ConstantsAssumption DEF TypeOK
  <2>2. count' \in 0 .. MaxBuffer - 1
      BY <1>1, PublishLuaEffect, ConstantsAssumption DEF TypeOK
  <2> QED BY <1>1, <2>1, <2>2, PublishLuaEffect DEF TypeOK, PublishLua
<1>2. ASSUME NEW t \in Trigger, PublishFails(t) PROVE TypeOK'
    BY <1>0, <1>2, SpendEffect DEF TypeOK, PublishFails
<1>3. ASSUME NEW t \in Trigger, Replay(t) PROVE TypeOK'
    BY <1>0, <1>3, SpendEffect DEF TypeOK, Replay
<1>4. ASSUME NEW h \in Handlers, InfraError(h) PROVE TypeOK'
  <2>1. "nack" \in PCs
      BY DEF PCs
  <2> QED BY <1>0, <1>4, <2>1, GotoEffect, SpendEffect DEF TypeOK, InfraError
<1>5. ASSUME NEW h \in Handlers, Crash(h) PROVE TypeOK'
  <2>1. trig[h] \in Trigger
      BY <1>5, BusyHasTrigger DEF Crash
  <2>2. pc[h] = "republish" => Rescheduled(trig[h]) \in Trigger
      BY <2>1, RescheduledTrigger DEF TypeOK
  <2>3. torn' \subseteq Trigger /\ queue' \subseteq Trigger
      BY <1>5, <2>1, <2>2 DEF TypeOK, Crash, Requeue
  <2> QED BY <1>0, <1>5, <2>3, ReleaseEffect, SpendEffect DEF TypeOK, Crash
<1>6. ASSUME NEW h \in Handlers, ConnectionLoss(h) PROVE TypeOK'
  <2>1. trig[h] \in Trigger
      BY <1>6 DEF TypeOK, ConnectionLoss
  <2>2. queue' \subseteq Trigger
      BY <1>6, <2>1 DEF TypeOK, ConnectionLoss, Requeue
  <2> QED BY <1>0, <1>6, <2>2, SpendEffect DEF TypeOK, ConnectionLoss
<1>7. CASE LatestExpires
    BY <1>0, <1>7, SpendEffect DEF TypeOK, LatestExpires
<1>8. ASSUME NEW t \in Trigger, Publish(t) PROVE TypeOK'
    BY <1>8 DEF TypeOK, Publish
<1>9. ASSUME NEW h \in Handlers, Claim(h) PROVE TypeOK'
  <2>1. "claim" \in PCs /\ "ack" \in PCs /\ "run" \in PCs
      BY DEF PCs
  <2>2. trig[h] \in Trigger /\ trig[h].ev \in 1 .. MaxEvents
      BY <1>9, BusyHasTrigger DEF Claim
  <2>3. CASE latest # trig[h] /\ Answered(h, "ack") /\ UNCHANGED <<count, base>>
      BY <1>9, <2>1, <2>2, <2>3, AnsweredEffect DEF TypeOK, Claim
  <2>4. CASE /\ latest = trig[h] /\ count' = 0 /\ base' = trig[h].ev
             /\ Answered(h, "run")
    <3>1. base' \in 0 .. MaxEvents
        BY <2>2, <2>4, ConstantsAssumption
    <3> QED BY <1>0, <1>9, <2>1, <2>2, <2>4, <3>1, AnsweredEffect DEF TypeOK, Claim
  <2> QED BY <1>9, <2>3, <2>4 DEF Claim
<1>10. ASSUME NEW h \in Handlers, ConsumerReturns(h) PROVE TypeOK'
  <2>1. "del" \in PCs
      BY DEF PCs
  <2>2. done' \in 0 .. MaxEvents
      BY <1>10, BusyHasTrigger, ConstantsAssumption DEF TypeOK, ConsumerReturns
  <2> QED BY <1>10, <2>1, <2>2, GotoEffect DEF TypeOK, ConsumerReturns
<1>11. ASSUME NEW h \in Handlers, ConsumerReschedules(h) PROVE TypeOK'
  <2>1. "cas" \in PCs
      BY DEF PCs
  <2> QED BY <1>11, <2>1, GotoEffect DEF TypeOK, ConsumerReschedules
<1>12. ASSUME NEW h \in Handlers, ConsumerRaises(h) PROVE TypeOK'
  <2>1. "nack" \in PCs
      BY DEF PCs
  <2> QED BY <1>12, <2>1, GotoEffect DEF TypeOK, ConsumerRaises
<1>13. ASSUME NEW h \in Handlers, ConditionalDel(h) PROVE TypeOK'
  <2>1. "ack" \in PCs
      BY DEF PCs
  <2>2. latest' \in Trigger \cup {None} /\ count' \in 0 .. MaxBuffer - 1
      BY <1>0, <1>13 DEF TypeOK, ConditionalDel
  <2> QED BY <1>13, <2>1, <2>2, AnsweredEffect DEF TypeOK, ConditionalDel
<1>14. ASSUME NEW h \in Handlers, RescheduleCas(h) PROVE TypeOK'
  <2>1. "ack" \in PCs /\ "republish" \in PCs
      BY DEF PCs
  <2>2. Rescheduled(trig[h]) \in Trigger /\ trig[h].gen < MaxReschedules
      BY <1>14, BusyHasTrigger, RescheduledTrigger DEF TypeOK, RescheduleCas
  <2>3. CASE latest # trig[h] /\ Answered(h, "ack") /\ UNCHANGED <<latest, torn>>
      BY <1>14, <2>1, <2>2, <2>3, AnsweredEffect DEF TypeOK, RescheduleCas
  <2>4. CASE /\ latest' = Rescheduled(trig[h]) /\ Answered(h, "republish")
             /\ torn' = IF pc'[h] = "nack" THEN torn \cup {latest'} ELSE torn
      BY <1>14, <2>1, <2>2, <2>4, AnsweredEffect DEF TypeOK, RescheduleCas
  <2> QED BY <1>14, <2>3, <2>4 DEF RescheduleCas
<1>15. ASSUME NEW h \in Handlers, Republish(h) PROVE TypeOK'
  <2>1. "ack" \in PCs /\ "nack" \in PCs
      BY DEF PCs
  <2>2. Rescheduled(trig[h]) \in Trigger
      BY <1>15, BusyHasTrigger, RescheduledTrigger DEF TypeOK, Republish
  <2>3. CASE /\ queue' = queue \cup {Rescheduled(trig[h])} /\ Answered(h, "ack")
             /\ UNCHANGED torn
      BY <1>15, <2>1, <2>2, <2>3, AnsweredEffect DEF TypeOK, Republish
  <2>4. CASE /\ Goto(h, "nack") /\ Spend("fault") /\ UNCHANGED queue
             /\ torn' = torn \cup {Rescheduled(trig[h])}
      BY <1>0, <1>15, <2>1, <2>2, <2>4, GotoEffect, SpendEffect DEF TypeOK, Republish
  <2> QED BY <1>15, <2>3, <2>4 DEF Republish
<1>16. ASSUME NEW h \in Handlers, Ack(h) PROVE TypeOK'
    BY <1>16, ReleaseEffect DEF TypeOK, Ack
<1>17. ASSUME NEW h \in Handlers, Nack(h) PROVE TypeOK'
  <2>1. trig[h] \in Trigger
      BY <1>17, BusyHasTrigger DEF Nack
  <2> QED BY <1>17, <2>1, ReleaseEffect DEF TypeOK, Nack
<1>18. ASSUME NEW h \in Handlers, NEW t \in Trigger, Deliver(h, t) PROVE TypeOK'
  <2>1. "claim" \in PCs
      BY DEF PCs
  <2> QED BY <1>18, <2>1, GotoEffect DEF TypeOK, Deliver
<1>19. CASE UNCHANGED vars
    BY <1>19 DEF vars, TypeOK
<1>20. ASSUME NEW h \in Handlers, HandlerStep(h) PROVE TypeOK'
    BY <1>9, <1>10, <1>11, <1>12, <1>13, <1>14, <1>15, <1>16, <1>17, <1>18, <1>20
       DEF HandlerStep
<1> QED
    BY <1>1, <1>2, <1>3, <1>4, <1>5, <1>6, <1>7, <1>8, <1>19, <1>20
       DEF Next, Environment

\* The variables have their types.
THEOREM TypeCorrect == Spec => []TypeOK
<1>1. Init => TypeOK
    BY ConstantsAssumption DEF Init, TypeOK, PCs, Faults
<1> QED BY <1>1, TypeStep, PTL DEF Spec

--------------------------------------------------------------------------------
(* Coherent and CountIsBacklog are inductive together. *)

\* What Coherent asks of one handler.
HandlerCoherent(h) ==
    /\ trig[h] # None => trig[h].ev <= emitted
    /\ pc[h] \in {"run", "del"} => base >= trig[h].ev
    /\ pc[h] = "del" => done >= trig[h].ev
    /\ pc[h] = "republish" => Passed(trig[h])

\* A step that leaves the Redis keys and the counters alone and lets one handler
\* go on, or drops its trigger, keeps both, if no new trigger appears and the
\* handler does not enter a step that promises something.
LEMMA QuietStep ==
    ASSUME TypeOK, Coherent, CountIsBacklog, NEW h \in Handlers,
           UNCHANGED <<redis, emitted, base, done>>,
           \A t \in Known' : t \in Known \/ t.ev <= emitted,
           \A g \in Handlers \ {h} : pc'[g] = pc[g] /\ trig'[g] = trig[g],
           \/ trig'[h] = None
           \/ trig'[h].ev <= emitted,
           \/ pc'[h] \notin {"run", "del", "republish"}
           \/ pc'[h] = pc[h] /\ trig'[h] = trig[h]
    PROVE  Coherent' /\ CountIsBacklog'
<1>1. \A g \in Handlers : HandlerCoherent(g)
    BY DEF Coherent, HandlerCoherent
<1>2. \A g \in Handlers : HandlerCoherent(g)'
  <2>1. ASSUME NEW g \in Handlers \ {h} PROVE HandlerCoherent(g)'
      BY <1>1, <2>1 DEF HandlerCoherent, Passed, redis
  <2>2. HandlerCoherent(h)'
      BY <1>1 DEF HandlerCoherent, Passed, redis
  <2> QED BY <2>1, <2>2
<1>3. \A t \in Known' : t.ev <= emitted'
    BY DEF Coherent
<1>4. Fresh' /\ done' <= emitted' /\ base' <= emitted' /\ CountIsBacklog'
    BY DEF Coherent, Fresh, CountIsBacklog, redis
<1> QED BY <1>2, <1>3, <1>4 DEF Coherent, HandlerCoherent

LEMMA CoherentStep ==
    TypeOK /\ TypeOK' /\ Coherent /\ CountIsBacklog /\ [Next]_vars
        => Coherent' /\ CountIsBacklog'
<1> SUFFICES ASSUME TypeOK, TypeOK', Coherent, CountIsBacklog, [Next]_vars
             PROVE  Coherent' /\ CountIsBacklog'
    OBVIOUS
<1> USE DEF queues, handlers, history
<1>a. \A g \in Handlers : HandlerCoherent(g)
    BY DEF Coherent, HandlerCoherent
<1>b. emitted \in Nat /\ base \in Nat /\ done \in Nat /\ count \in Nat
    BY DEF TypeOK
<1>c. /\ "nack" \in PCs /\ "ack" \in PCs /\ "claim" \in PCs /\ "run" \in PCs
      /\ "del" \in PCs /\ "cas" \in PCs /\ "republish" \in PCs
    BY DEF PCs
<1>1. CASE PublishLua
  <2>1. /\ latest'.ev = emitted' /\ emitted' = emitted + 1
        /\ UNCHANGED <<pc, trig, queue, dlq, torn, done>>
        /\ publishing' = publishing \cup {latest'}
      BY <1>1, PublishLuaEffect DEF PublishLua
  <2>2. base' <= emitted' /\ base' >= base /\ CountIsBacklog'
      BY <1>1, <1>b, PublishLuaEffect DEF CountIsBacklog, Coherent
  <2>3. \A t \in Known' : t.ev <= emitted'
    <3>1. \A t \in Known : t \in Trigger /\ t.ev \in Nat /\ t.ev <= emitted
        BY TriggerFields DEF Known, TypeOK, Coherent
    <3>2. Known' = Known \cup {latest'}
        BY <2>1 DEF Known
    <3> QED BY <1>b, <2>1, <3>1, <3>2
  <2>4. \A g \in Handlers : HandlerCoherent(g)'
    <3> SUFFICES ASSUME NEW g \in Handlers PROVE HandlerCoherent(g)'
        OBVIOUS
    <3>1. trig[g] # None => trig[g].ev \in Nat /\ trig[g].ev <= emitted
        BY <1>a, TriggerFields DEF HandlerCoherent, TypeOK
    <3>2. pc[g] \in {"run", "del", "republish"} => trig[g] # None
        BY TriggerFields DEF TypeOK
    <3>3. base' \in Nat
        BY DEF TypeOK
    <3>4. pc[g] \in {"run", "del"} => base' >= trig[g].ev
        BY <1>a, <1>b, <2>2, <3>1, <3>2, <3>3 DEF HandlerCoherent
    <3>5. pc[g] = "republish" => Passed(trig[g])'
        BY <1>b, <2>1, <3>1, <3>2 DEF Passed
    <3> QED BY <1>a, <1>b, <2>1, <3>1, <3>4, <3>5 DEF HandlerCoherent
  <2>5. done' <= emitted'
      BY <1>b, <2>1 DEF Coherent
  <2> QED BY <2>1, <2>2, <2>3, <2>4, <2>5 DEF Coherent, HandlerCoherent, Fresh
<1>2. ASSUME NEW t \in Trigger, Publish(t) \/ PublishFails(t) \/ Replay(t)
      PROVE  Coherent' /\ CountIsBacklog'
  <2>1. Known' \subseteq Known /\ UNCHANGED <<redis, emitted, base, done, pc, trig>>
      BY <1>2 DEF Publish, PublishFails, Replay, Known
  <2>2. \A g \in Handlers : HandlerCoherent(g)'
      BY <1>a, <2>1 DEF HandlerCoherent, Passed, redis
  <2> QED BY <2>1, <2>2 DEF Coherent, HandlerCoherent, Fresh, CountIsBacklog, redis
<1>3. ASSUME NEW h \in Handlers, InfraError(h) \/ ConsumerRaises(h) \/ ConsumerReschedules(h)
      PROVE  Coherent' /\ CountIsBacklog'
  <2>1. /\ pc'[h] \in {"nack", "cas"}
        /\ \A g \in Handlers \ {h} : pc'[g] = pc[g]
      BY <1>3, <1>c, GotoEffect DEF InfraError, ConsumerRaises, ConsumerReschedules
  <2>2. UNCHANGED <<redis, publishing, queue, dlq, torn, emitted, base, done, trig>>
      BY <1>3 DEF InfraError, ConsumerRaises, ConsumerReschedules
  <2>3. trig[h] = None \/ trig[h].ev <= emitted
      BY <1>a DEF HandlerCoherent
  <2> QED BY <2>1, <2>2, <2>3, QuietStep DEF Known
<1>4. ASSUME NEW h \in Handlers, Crash(h) \/ Ack(h) \/ Nack(h)
      PROVE  Coherent' /\ CountIsBacklog'
  <2>1. /\ pc'[h] = "idle" /\ trig'[h] = None
        /\ \A g \in Handlers \ {h} : pc'[g] = pc[g] /\ trig'[g] = trig[g]
      BY <1>4, ReleaseEffect DEF Crash, Ack, Nack
  <2>2. /\ trig[h] \in Trigger /\ trig[h].ev <= emitted
        /\ pc[h] = "republish" => Rescheduled(trig[h]).ev <= emitted
      BY <1>4, <1>a, BusyHasTrigger, RescheduledTrigger
         DEF Crash, Ack, Nack, HandlerCoherent, TypeOK
  <2>3. /\ UNCHANGED <<redis, emitted, base, done>>
        /\ \A t \in Known' : t \in Known \/ t.ev <= emitted
      BY <1>4, <2>2 DEF Crash, Ack, Nack, Known, Requeue
  <2> QED BY <2>1, <2>3, QuietStep
<1>5. ASSUME NEW h \in Handlers, ConnectionLoss(h) PROVE Coherent' /\ CountIsBacklog'
  <2>1. trig[h] \in Trigger /\ trig[h].ev <= emitted
      BY <1>5, <1>a, TriggerFields DEF ConnectionLoss, HandlerCoherent, TypeOK
  <2>2. /\ UNCHANGED <<redis, emitted, base, done, pc, trig>>
        /\ \A t \in Known' : t \in Known \/ t.ev <= emitted
      BY <1>5, <2>1 DEF ConnectionLoss, Known, Requeue
  <2> QED BY <2>1, <2>2, QuietStep
<1>6. CASE LatestExpires
  <2>1. /\ UNCHANGED <<publishing, queue, dlq, torn, emitted, done, pc, trig>>
        /\ latest' = None /\ count' = 0 /\ base' = emitted
      BY <1>6 DEF LatestExpires
  <2>2. base' >= base /\ base \in Nat /\ emitted \in Nat
      BY <2>1 DEF CountIsBacklog, TypeOK
  <2>3. \A g \in Handlers : trig[g] # None => trig[g] \in Trigger /\ trig[g].ev \in Nat
      BY TriggerFields DEF TypeOK
  <2>4. \A g \in Handlers : HandlerCoherent(g)'
      BY <1>a, <2>1, <2>2, <2>3, BusyHasTrigger DEF HandlerCoherent, Passed
  <2> QED BY <2>1, <2>2, <2>4 DEF Coherent, HandlerCoherent, Fresh, CountIsBacklog, Known
<1>7. ASSUME NEW h \in Handlers, NEW t \in Trigger, Deliver(h, t)
      PROVE  Coherent' /\ CountIsBacklog'
  <2>1. /\ pc'[h] = "claim" /\ trig'[h] = t
        /\ \A g \in Handlers \ {h} : pc'[g] = pc[g] /\ trig'[g] = trig[g]
      BY <1>7, <1>c, GotoEffect DEF Deliver, TypeOK
  <2>2. t.ev <= emitted
      BY <1>7 DEF Deliver, Coherent, Known
  <2>3. UNCHANGED <<redis, emitted, base, done>> /\ Known' \subseteq Known
      BY <1>7 DEF Deliver, Known
  <2> QED BY <2>1, <2>2, <2>3, QuietStep
<1>8. ASSUME NEW h \in Handlers, Claim(h) PROVE Coherent' /\ CountIsBacklog'
  <2>1. /\ UNCHANGED <<latest, publishing, queue, dlq, torn, emitted, done, trig>>
        /\ trig[h] \in Trigger /\ trig[h].ev \in Nat /\ trig[h].ev <= emitted
      BY <1>8, <1>a, BusyHasTrigger DEF Claim, HandlerCoherent
  <2>2. CASE latest # trig[h] /\ Answered(h, "ack") /\ UNCHANGED <<count, base>>
    <3>1. pc'[h] \in {"ack", "nack"} /\ \A g \in Handlers \ {h} : pc'[g] = pc[g]
        BY <1>c, <2>2, AnsweredEffect
    <3> QED BY <2>1, <2>2, <3>1, QuietStep DEF Known, redis
  <2>3. CASE /\ latest = trig[h] /\ count' = 0 /\ base' = trig[h].ev
             /\ Answered(h, "run")
    <3>1. pc'[h] \in {"run", "nack"} /\ \A g \in Handlers \ {h} : pc'[g] = pc[g]
        BY <1>c, <2>3, AnsweredEffect
    <3>2. trig[h].ev = emitted /\ base' = emitted
        BY <2>1, <2>3, TriggerFields DEF Coherent, Fresh
    <3>3. ASSUME NEW g \in Handlers PROVE HandlerCoherent(g)'
      <4>1. CASE g = h
          BY <1>b, <2>1, <3>1, <3>2, <4>1 DEF HandlerCoherent
      <4>2. CASE g # h
        <5>1. trig[g] # None => trig[g].ev \in Nat /\ trig[g].ev <= emitted
            BY <1>a, TriggerFields DEF HandlerCoherent, TypeOK
        <5>2. pc[g] \in {"run", "del"} => trig[g] # None
            BY TriggerFields DEF TypeOK
        <5> QED BY <1>a, <1>b, <2>1, <3>1, <3>2, <4>2, <5>1, <5>2
                DEF HandlerCoherent, Passed
      <4> QED BY <4>1, <4>2
    <3>4. CountIsBacklog' /\ base' <= emitted'
        BY <1>b, <2>1, <2>3, <3>2 DEF CountIsBacklog
    <3> QED BY <2>1, <3>3, <3>4 DEF Coherent, HandlerCoherent, Fresh, Known
  <2> QED BY <1>8, <2>2, <2>3 DEF Claim
<1>9. ASSUME NEW h \in Handlers, ConsumerReturns(h) PROVE Coherent' /\ CountIsBacklog'
  <2>1. /\ UNCHANGED <<redis, publishing, queue, dlq, torn, emitted, base, trig>>
        /\ trig[h] \in Trigger /\ trig[h].ev \in Nat /\ trig[h].ev <= emitted
        /\ base >= trig[h].ev
      BY <1>9, <1>a, BusyHasTrigger DEF ConsumerReturns, HandlerCoherent
  <2>2. pc'[h] = "del" /\ \A g \in Handlers \ {h} : pc'[g] = pc[g]
      BY <1>9, <1>c, GotoEffect DEF ConsumerReturns
  <2>3. done' >= done /\ done' >= trig[h].ev /\ done' <= emitted /\ done' \in Nat
      BY <1>9, <1>b, <2>1 DEF ConsumerReturns, Coherent
  <2>4. ASSUME NEW g \in Handlers PROVE HandlerCoherent(g)'
    <3>1. CASE g = h
        BY <2>1, <2>2, <2>3, <3>1 DEF HandlerCoherent
    <3>2. CASE g # h
      <4>1. pc[g] = "del" => trig[g].ev \in Nat
          BY BusyHasTrigger
      <4> QED BY <1>a, <1>b, <2>1, <2>2, <2>3, <3>2, <4>1
              DEF HandlerCoherent, Passed, redis
    <3> QED BY <3>1, <3>2
  <2> QED BY <2>1, <2>3, <2>4
          DEF Coherent, HandlerCoherent, Fresh, CountIsBacklog, Known, redis
<1>10. ASSUME NEW h \in Handlers, ConditionalDel(h) PROVE Coherent' /\ CountIsBacklog'
  <2>1. /\ UNCHANGED <<publishing, queue, dlq, torn, emitted, base, done, trig>>
        /\ trig[h] \in Trigger /\ trig[h].ev \in Nat /\ trig[h].ev <= emitted
        /\ base >= trig[h].ev
      BY <1>10, <1>a, BusyHasTrigger DEF ConditionalDel, HandlerCoherent
  <2>2. pc'[h] \in {"ack", "nack"} /\ \A g \in Handlers \ {h} : pc'[g] = pc[g]
      BY <1>10, <1>c, AnsweredEffect DEF ConditionalDel
  <2>3. CASE latest # trig[h]
    <3>1. UNCHANGED redis
        BY <1>10, <2>3 DEF ConditionalDel
    <3> QED BY <2>1, <2>2, <3>1, QuietStep DEF Known
  <2>4. CASE latest = trig[h]
    <3>1. latest' = None /\ count' = 0
        BY <1>10, <2>4 DEF ConditionalDel
    <3>2. emitted = base
        BY <1>b, <2>1, <2>4, TriggerFields DEF Coherent, Fresh
    <3>3. \A g \in Handlers : HandlerCoherent(g)'
        BY <1>a, <2>1, <2>2, <3>1 DEF HandlerCoherent, Passed
    <3> QED BY <1>b, <2>1, <3>1, <3>2, <3>3
            DEF Coherent, HandlerCoherent, Fresh, CountIsBacklog, Known
  <2> QED BY <2>3, <2>4
<1>11. ASSUME NEW h \in Handlers, RescheduleCas(h) PROVE Coherent' /\ CountIsBacklog'
  <2>1. /\ UNCHANGED <<count, publishing, queue, dlq, emitted, base, done, trig>>
        /\ trig[h] \in Trigger /\ trig[h].ev \in Nat /\ trig[h].gen \in Nat
        /\ trig[h].ev <= emitted /\ trig[h].gen < MaxReschedules
      BY <1>11, <1>a, BusyHasTrigger, TriggerFields
         DEF RescheduleCas, HandlerCoherent, TypeOK
  <2>2. CASE latest # trig[h] /\ Answered(h, "ack") /\ UNCHANGED <<latest, torn>>
    <3>1. pc'[h] \in {"ack", "nack"} /\ \A g \in Handlers \ {h} : pc'[g] = pc[g]
        BY <1>c, <2>2, AnsweredEffect
    <3> QED BY <2>1, <2>2, <3>1, QuietStep DEF Known, redis
  <2>3. CASE /\ latest = trig[h] /\ latest' = Rescheduled(trig[h])
             /\ Answered(h, "republish")
             /\ torn' = IF pc'[h] = "nack" THEN torn \cup {latest'} ELSE torn
    <3>1. pc'[h] \in {"republish", "nack"} /\ \A g \in Handlers \ {h} : pc'[g] = pc[g]
        BY <1>c, <2>3, AnsweredEffect
    <3>2. latest'.ev = trig[h].ev /\ latest'.gen = trig[h].gen + 1
        BY <2>1, <2>3, RescheduledTrigger
    <3>3. trig[h].ev = emitted /\ latest # None
        BY <2>1, <2>3, TriggerFields DEF Coherent, Fresh
    <3>4. ASSUME NEW g \in Handlers PROVE HandlerCoherent(g)'
      <4>1. CASE g = h
          BY <2>1, <3>1, <3>2, <4>1 DEF HandlerCoherent, Passed
      <4>2. CASE g # h
        <5>1. pc[g] = "republish" => trig[g].ev \in Nat /\ trig[g].gen \in Nat
            BY BusyHasTrigger, TriggerFields
        <5>2. pc[g] = "republish" => Passed(trig[g])'
            BY <1>a, <2>1, <2>3, <3>2, <3>3, <5>1 DEF HandlerCoherent, Passed
        <5> QED BY <1>a, <2>1, <3>1, <4>2, <5>2 DEF HandlerCoherent
      <4> QED BY <4>1, <4>2
    <3>5. \A t \in Known' : t.ev <= emitted'
        BY <2>1, <2>3, <3>2, <3>3 DEF Coherent, Known
    <3> QED BY <2>1, <3>2, <3>3, <3>4, <3>5
            DEF Coherent, HandlerCoherent, Fresh, CountIsBacklog
  <2> QED BY <1>11, <2>2, <2>3 DEF RescheduleCas
<1>12. ASSUME NEW h \in Handlers, Republish(h) PROVE Coherent' /\ CountIsBacklog'
  <2>1. /\ UNCHANGED <<redis, publishing, dlq, emitted, base, done, trig>>
        /\ trig[h] \in Trigger /\ trig[h].ev <= emitted
        /\ Rescheduled(trig[h]).ev <= emitted
      BY <1>12, <1>a, BusyHasTrigger, RescheduledTrigger
         DEF Republish, HandlerCoherent, TypeOK
  <2>2. pc'[h] \in {"ack", "nack"} /\ \A g \in Handlers \ {h} : pc'[g] = pc[g]
      BY <1>12, <1>c, AnsweredEffect, GotoEffect DEF Republish
  <2>3. \A t \in Known' : t \in Known \/ t.ev <= emitted
      BY <1>12, <2>1 DEF Republish, Known
  <2> QED BY <2>1, <2>2, <2>3, QuietStep
<1>13. CASE UNCHANGED vars
  <2>1. \A g \in Handlers : HandlerCoherent(g)'
      BY <1>a, <1>13 DEF HandlerCoherent, Passed, vars, redis
  <2> QED BY <1>13, <2>1 DEF vars, redis, Coherent, HandlerCoherent, Fresh, Known, CountIsBacklog
<1>14. ASSUME NEW h \in Handlers, HandlerStep(h) PROVE Coherent' /\ CountIsBacklog'
    BY <1>3, <1>4, <1>7, <1>8, <1>9, <1>10, <1>11, <1>12, <1>14 DEF HandlerStep
<1> QED
    BY <1>1, <1>2, <1>3, <1>4, <1>5, <1>6, <1>13, <1>14 DEF Next, Environment

\* count is always the number of events behind the newest fired one.
THEOREM CountCorrect == Spec => []CountIsBacklog
<1>1. Init => Coherent /\ CountIsBacklog
    BY DEF Init, Coherent, Fresh, Known, CountIsBacklog
<1> QED BY <1>1, TypeCorrect, CoherentStep, PTL DEF Spec

\* A consumer starts only out of a claim that found its trigger in latest.
LEMMA OnlyClaimStarts ==
    ASSUME TypeOK, [Next]_vars, NEW h \in Handlers, pc[h] = "claim", pc'[h] = "run"
    PROVE  latest = trig[h]
<1> USE DEF queues, handlers, history
<1>c. /\ "nack" \in PCs /\ "ack" \in PCs /\ "claim" \in PCs /\ "run" \in PCs
      /\ "del" \in PCs /\ "cas" \in PCs /\ "republish" \in PCs
    BY DEF PCs
<1>1. ~UNCHANGED pc
    OBVIOUS
<1>2. PICK g \in Handlers :
        \/ InfraError(g) \/ Crash(g) \/ HandlerStep(g)
    BY <1>1 DEF Next, Environment, vars, PublishLua, Publish, PublishFails, Replay,
                ConnectionLoss, LatestExpires
<1>3. CASE InfraError(g) \/ ConsumerReturns(g) \/ ConsumerReschedules(g) \/ ConsumerRaises(g)
    BY <1>c, <1>3, GotoEffect
       DEF InfraError, ConsumerReturns, ConsumerReschedules, ConsumerRaises
<1>4. CASE ConditionalDel(g) \/ RescheduleCas(g) \/ Republish(g)
  <2>1. /\ pc[g] # "claim" /\ \A f \in Handlers \ {g} : pc'[f] = pc[f]
      BY <1>c, <1>4, AnsweredEffect, GotoEffect
         DEF ConditionalDel, RescheduleCas, Republish
  <2> QED BY <2>1
<1>5. CASE Crash(g) \/ Ack(g) \/ Nack(g)
    BY <1>5, ReleaseEffect DEF Crash, Ack, Nack
<1>6. ASSUME NEW t \in Trigger, Deliver(g, t) PROVE FALSE
    BY <1>c, <1>6, GotoEffect DEF Deliver
<1>7. CASE Claim(g)
    BY <1>c, <1>7, AnsweredEffect DEF Claim
<1> QED BY <1>2, <1>3, <1>4, <1>5, <1>6, <1>7 DEF HandlerStep

\* Only the newest event fires.
THEOREM NewestFires == Spec => OnlyTheNewestFires
<1>1. Init => Coherent /\ CountIsBacklog
    BY DEF Init, Coherent, Fresh, Known, CountIsBacklog
<1>2. TypeOK /\ Coherent /\ [Next]_vars =>
        [\A h \in Handlers : pc[h] = "claim" /\ pc'[h] = "run" => trig[h].ev = emitted]_vars
    BY OnlyClaimStarts, BusyHasTrigger DEF Coherent, Fresh
<1> QED BY <1>1, <1>2, TypeCorrect, CoherentStep, PTL DEF Spec, OnlyTheNewestFires

--------------------------------------------------------------------------------
(* NoLostFire: one handler's step at a time. *)

Covered(t) == InSight(t) \/ t \in torn

\* What handler h alone does for trigger t.
Bears(h, t) == Works(h, t) \/ (pc[h] = "republish" /\ t = Rescheduled(trig[h]))

\* A step of handler h that keeps latest loses nothing if the queues only grow
\* and what h was bearing is still covered.
LEMMA HandlerMoves ==
    ASSUME TypeOK, NoLostFire, NEW h \in Handlers,
           UNCHANGED <<latest, emitted>>, done' \in Nat, done' >= done,
           spent'["expiry"] = spent["expiry"],
           publishing \cup queue \cup dlq \subseteq (publishing \cup queue \cup dlq)',
           torn \subseteq torn',
           \A g \in Handlers \ {h} :
              pc'[g] = pc[g] /\ trig'[g] = trig[g] /\ held'[g] = held[g],
           latest # None /\ done < emitted /\ Bears(h, latest) => Covered(latest)'
    PROVE  NoLostFire'
<1> SUFFICES ASSUME spent'["expiry"] = 0, done' < emitted'
             PROVE  latest' # None /\ Covered(latest)'
    BY DEF NoLostFire, Covered
<1>1. done < emitted
    BY DEF TypeOK
<1>2. latest # None /\ Covered(latest)
    BY <1>1 DEF NoLostFire, Covered
<1>3. CASE latest \in publishing \cup queue \cup dlq \cup torn
    BY <1>2, <1>3 DEF Covered, InSight
<1>4. CASE \E g \in Handlers : Bears(g, latest)
  <2>1. PICK g \in Handlers : Bears(g, latest)
      BY <1>4
  <2>2. CASE g = h
      BY <1>1, <1>2, <2>1, <2>2
  <2>3. CASE g # h
      BY <1>2, <2>1, <2>3 DEF Covered, InSight, Bears, Works
  <2> QED BY <2>2, <2>3
<1> QED BY <1>2, <1>3, <1>4 DEF Covered, InSight, Bears

LEMMA FireStep ==
    TypeOK /\ TypeOK' /\ Coherent /\ NoLostFire /\ [Next]_vars => NoLostFire'
<1> SUFFICES ASSUME TypeOK, TypeOK', Coherent, NoLostFire, [Next]_vars
             PROVE  NoLostFire'
    OBVIOUS
<1> USE DEF queues, handlers, history
<1>b. emitted \in Nat /\ done \in Nat /\ done' \in Nat
    BY DEF TypeOK
<1>c. /\ "nack" \in PCs /\ "ack" \in PCs /\ "claim" \in PCs /\ "run" \in PCs
      /\ "del" \in PCs /\ "cas" \in PCs /\ "republish" \in PCs
      /\ "fault" \in Faults \ {"expiry"} /\ "crash" \in Faults \ {"expiry"}
      /\ "loss" \in Faults \ {"expiry"} /\ "replay" \in Faults \ {"expiry"}
      /\ "expiry" \in Faults
    BY DEF PCs, Faults
<1>1. CASE PublishLua
  <2>1. latest' \in Trigger /\ latest' \in publishing'
      BY <1>1, PublishLuaEffect
  <2> QED BY <2>1, TriggerFields DEF NoLostFire, InSight
<1>2. ASSUME NEW t \in Trigger, Publish(t) \/ PublishFails(t) \/ Replay(t)
      PROVE  NoLostFire'
  <2>1. UNCHANGED <<latest, emitted, done, pc, trig, held>>
      BY <1>2 DEF Publish, PublishFails, Replay, redis
  <2>2. (publishing \cup queue \cup dlq \cup torn)
            \subseteq (publishing \cup queue \cup dlq \cup torn)'
      BY <1>2 DEF Publish, PublishFails, Replay
  <2>3. spent'["expiry"] = spent["expiry"]
      BY <1>2, <1>c, SpendEffect DEF Publish, PublishFails, Replay
  <2> QED BY <2>1, <2>2, <2>3 DEF NoLostFire, InSight, Works
<1>3. ASSUME NEW h \in Handlers, InfraError(h) \/ ConsumerRaises(h)
                                 \/ ConsumerReschedules(h) \/ ConsumerReturns(h)
      PROVE  NoLostFire'
  <2>1. /\ pc[h] # "republish" /\ pc'[h] \in {"nack", "cas", "del"}
        /\ \A g \in Handlers \ {h} : pc'[g] = pc[g]
      BY <1>3, <1>c, GotoEffect
         DEF InfraError, ConsumerRaises, ConsumerReschedules, ConsumerReturns
  <2>2. UNCHANGED <<latest, publishing, queue, dlq, torn, emitted, trig, held>>
      BY <1>3 DEF InfraError, ConsumerRaises, ConsumerReschedules, ConsumerReturns, redis
  <2>3. done' >= done
      BY <1>3, <1>b, BusyHasTrigger
         DEF InfraError, ConsumerRaises, ConsumerReschedules, ConsumerReturns
  <2>4. spent'["expiry"] = spent["expiry"]
      BY <1>3, <1>c, SpendEffect
         DEF InfraError, ConsumerRaises, ConsumerReschedules, ConsumerReturns
  <2>5. Bears(h, latest) => Covered(latest)'
      BY <2>1, <2>2 DEF Bears, Works, Covered, InSight
  <2> QED BY <1>b, <2>1, <2>2, <2>3, <2>4, <2>5, HandlerMoves
<1>4. ASSUME NEW h \in Handlers, Crash(h) PROVE NoLostFire'
  <2>1. /\ \A g \in Handlers \ {h} :
              pc'[g] = pc[g] /\ trig'[g] = trig[g] /\ held'[g] = held[g]
        /\ spent'["expiry"] = spent["expiry"]
      BY <1>4, <1>c, ReleaseEffect, SpendEffect DEF Crash
  <2>2. /\ UNCHANGED <<latest, publishing, dlq, emitted, done>>
        /\ queue \subseteq queue' /\ torn \subseteq torn'
      BY <1>4 DEF Crash, Requeue, redis
  <2>3. Bears(h, latest) => Covered(latest)'
      BY <1>4, <2>2 DEF Crash, Requeue, Bears, Works, Covered, InSight
  <2> QED BY <1>b, <2>1, <2>2, <2>3, HandlerMoves
<1>5. ASSUME NEW h \in Handlers, Ack(h) \/ Nack(h) PROVE NoLostFire'
  <2>1. /\ \A g \in Handlers \ {h} :
              pc'[g] = pc[g] /\ trig'[g] = trig[g] /\ held'[g] = held[g]
      BY <1>5, ReleaseEffect DEF Ack, Nack
  <2>2. /\ UNCHANGED <<latest, publishing, queue, torn, emitted, done, spent>>
        /\ dlq \subseteq dlq'
      BY <1>5 DEF Ack, Nack, redis
  <2>3. Bears(h, latest) => Covered(latest)'
      BY <1>5, <2>2 DEF Ack, Nack, Bears, Works, Covered, InSight
  <2> QED BY <1>b, <2>1, <2>2, <2>3, HandlerMoves
<1>6. ASSUME NEW h \in Handlers, ConnectionLoss(h) PROVE NoLostFire'
  <2>1. /\ UNCHANGED <<latest, publishing, dlq, torn, emitted, done, pc, trig>>
        /\ queue \subseteq queue'
        /\ \A g \in Handlers \ {h} : held'[g] = held[g]
      BY <1>6 DEF ConnectionLoss, Requeue, redis, TypeOK
  <2>2. spent'["expiry"] = spent["expiry"]
      BY <1>6, <1>c, SpendEffect DEF ConnectionLoss
  <2>3. Bears(h, latest) => Covered(latest)'
      BY <1>6, <2>1 DEF ConnectionLoss, Requeue, Bears, Works, Covered, InSight
  <2> QED BY <1>b, <2>1, <2>2, <2>3, HandlerMoves
<1>7. CASE LatestExpires
  <2>1. spent'["expiry"] = spent["expiry"] + 1 /\ spent["expiry"] \in Nat
      BY <1>7, <1>c, SpendEffect DEF LatestExpires, TypeOK
  <2> QED BY <2>1 DEF NoLostFire
<1>8. ASSUME NEW h \in Handlers, NEW t \in Trigger, Deliver(h, t) PROVE NoLostFire'
  <2>1. /\ pc'[h] = "claim" /\ trig'[h] = t /\ held'[h]
        /\ \A g \in Handlers \ {h} :
              pc'[g] = pc[g] /\ trig'[g] = trig[g] /\ held'[g] = held[g]
      BY <1>8, <1>c, GotoEffect DEF Deliver, TypeOK
  <2>2. /\ UNCHANGED <<latest, publishing, dlq, torn, emitted, done, spent>>
        /\ queue' = queue \ {t} /\ ~held[h] /\ pc[h] = "idle"
      BY <1>8 DEF Deliver, redis, TypeOK
  <2>3. Works(h, t)'
      BY <2>1 DEF Works
  <2>4. InSight(latest) => InSight(latest)'
      BY <2>1, <2>2, <2>3 DEF InSight, Works
  <2> QED BY <2>2, <2>4 DEF NoLostFire
<1>9. ASSUME NEW h \in Handlers, Claim(h) PROVE NoLostFire'
  <2>1. UNCHANGED <<latest, publishing, queue, dlq, torn, emitted, done, trig, held>>
      BY <1>9 DEF Claim
  <2>2. /\ pc'[h] \in {"ack", "run", "nack"} /\ (pc'[h] = "ack" => latest # trig[h])
        /\ \A g \in Handlers \ {h} : pc'[g] = pc[g]
        /\ spent'["expiry"] = spent["expiry"]
      BY <1>9, <1>c, AnsweredEffect DEF Claim
  <2>3. Bears(h, latest) => Covered(latest)'
      BY <1>9, <2>1, <2>2 DEF Claim, Bears, Works, Covered, InSight
  <2> QED BY <1>b, <2>1, <2>2, <2>3, HandlerMoves
<1>10. ASSUME NEW h \in Handlers, ConditionalDel(h) PROVE NoLostFire'
  <2>1. UNCHANGED <<publishing, queue, dlq, torn, emitted, done, trig, held>>
      BY <1>10 DEF ConditionalDel
  <2>2. /\ pc'[h] \in {"ack", "nack"} /\ \A g \in Handlers \ {h} : pc'[g] = pc[g]
        /\ spent'["expiry"] = spent["expiry"]
      BY <1>10, <1>c, AnsweredEffect DEF ConditionalDel
  <2>3. CASE latest # trig[h]
    <3>1. UNCHANGED latest /\ ~Bears(h, latest)
        BY <1>10, <2>3 DEF ConditionalDel, redis, Bears, Works
    <3> QED BY <1>b, <2>1, <2>2, <3>1, HandlerMoves
  <2>4. CASE latest = trig[h]
    <3>1. done >= emitted
        BY <1>10, <2>4, BusyHasTrigger DEF ConditionalDel, Coherent, Fresh
    <3> QED BY <1>b, <2>1, <3>1 DEF NoLostFire
  <2> QED BY <2>3, <2>4
<1>11. ASSUME NEW h \in Handlers, RescheduleCas(h) PROVE NoLostFire'
  <2>1. UNCHANGED <<publishing, queue, dlq, emitted, done, trig, held>>
      BY <1>11 DEF RescheduleCas
  <2>2. CASE latest # trig[h] /\ Answered(h, "ack") /\ UNCHANGED <<latest, torn>>
    <3>1. /\ \A g \in Handlers \ {h} : pc'[g] = pc[g]
          /\ spent'["expiry"] = spent["expiry"] /\ ~Bears(h, latest)
        BY <1>11, <1>c, <2>2, AnsweredEffect DEF RescheduleCas, Bears, Works
    <3> QED BY <1>b, <2>1, <2>2, <3>1, HandlerMoves
  <2>3. CASE /\ latest' = Rescheduled(trig[h]) /\ Answered(h, "republish")
             /\ torn' = IF pc'[h] = "nack" THEN torn \cup {latest'} ELSE torn
    <3>1. pc'[h] \in {"republish", "nack"}
        BY <1>c, <2>3, AnsweredEffect
    <3>2. latest' \in Trigger
        BY <1>11, <2>3, BusyHasTrigger, RescheduledTrigger DEF RescheduleCas, TypeOK
    <3>3. InSight(latest)' \/ latest' \in torn'
        BY <2>1, <2>3, <3>1 DEF InSight
    <3> QED BY <3>2, <3>3, TriggerFields DEF NoLostFire
  <2> QED BY <1>11, <2>2, <2>3 DEF RescheduleCas
<1>12. ASSUME NEW h \in Handlers, Republish(h) PROVE NoLostFire'
  <2>1. /\ UNCHANGED <<latest, publishing, dlq, emitted, done, trig, held>>
        /\ queue \subseteq queue' /\ torn \subseteq torn'
        /\ Rescheduled(trig[h]) \in queue' \cup torn'
      BY <1>12 DEF Republish, redis
  <2>2. /\ \A g \in Handlers \ {h} : pc'[g] = pc[g]
        /\ spent'["expiry"] = spent["expiry"]
      BY <1>12, <1>c, AnsweredEffect, GotoEffect, SpendEffect DEF Republish
  <2>3. latest # None => latest # trig[h]
      BY <1>12, BusyHasTrigger, TriggerFields DEF Republish, Coherent, Passed
  <2>4. latest # None /\ Bears(h, latest) => Covered(latest)'
      BY <2>1, <2>3 DEF Bears, Works, Covered, InSight
  <2> QED BY <1>b, <2>1, <2>2, <2>4, HandlerMoves
<1>13. CASE UNCHANGED vars
    BY <1>13 DEF vars, redis, NoLostFire, InSight, Works
<1>14. ASSUME NEW h \in Handlers, HandlerStep(h) PROVE NoLostFire'
    BY <1>3, <1>5, <1>8, <1>9, <1>10, <1>11, <1>12, <1>14 DEF HandlerStep
<1> QED
    BY <1>1, <1>2, <1>3, <1>4, <1>6, <1>7, <1>13, <1>14 DEF Next, Environment

\* The gap between a Lua script and its publish is the only way to lose a fire.
THEOREM FiresAreKept == Spec => []NoLostFire
<1>1. Init => Coherent /\ CountIsBacklog /\ NoLostFire
    BY DEF Init, Coherent, Fresh, Known, CountIsBacklog, NoLostFire
<1> QED BY <1>1, TypeCorrect, CoherentStep, FireStep, PTL DEF Spec

--------------------------------------------------------------------------------
(* The debounced edge does what the contract of delivery allows, step by step. *)

\* A step happens by itself or is one event of the environment; only a failing or
\* dying publisher tears a trigger off its message.
LEMMA SpentByStep ==
    ASSUME TypeOK, [Next]_vars
    PROVE  /\ UNCHANGED spent \/ \E e \in Faults : Spend(e)
           /\ torn' # torn => Spend("fault") \/ Spend("crash")
<1> USE DEF redis, queues, handlers, history
<1>0. Faults = {"fault", "crash", "loss", "expiry", "replay"}
    BY DEF Faults
<1>1. ASSUME NEW h \in Handlers, RescheduleCas(h)
      PROVE  /\ UNCHANGED spent \/ Spend("fault")
             /\ torn' # torn => Spend("fault")
  <2>1. CASE latest # trig[h] /\ Answered(h, "ack") /\ UNCHANGED <<latest, torn>>
      BY <2>1 DEF Answered
  <2>2. CASE /\ Answered(h, "republish")
             /\ torn' = IF pc'[h] = "nack" THEN torn \cup {latest'} ELSE torn
    <3>1. CASE Goto(h, "republish") /\ UNCHANGED spent
      <4>1. pc'[h] = "republish"
          BY <3>1 DEF Goto, TypeOK
      <4> QED BY <2>2, <3>1, <4>1
    <3> QED BY <2>2, <3>1 DEF Answered
  <2> QED BY <1>1, <2>1, <2>2 DEF RescheduleCas
<1>2. ASSUME NEW h \in Handlers,
             \/ Claim(h) \/ ConsumerReturns(h) \/ ConsumerReschedules(h)
             \/ ConsumerRaises(h) \/ ConditionalDel(h) \/ Republish(h) \/ Ack(h)
             \/ Nack(h) \/ \E t \in Trigger : Deliver(h, t)
      PROVE  /\ UNCHANGED spent \/ Spend("fault")
             /\ torn' # torn => Spend("fault")
    BY <1>2
    DEF Claim, ConsumerReturns, ConsumerReschedules, ConsumerRaises, ConditionalDel,
        Republish, Ack, Nack, Deliver, Answered
<1>3. CASE Environment
    BY <1>0, <1>3
    DEF Environment, PublishLua, PublishFails, Replay, InfraError, Crash, ConnectionLoss,
        LatestExpires
<1>4. CASE \E t \in Trigger : Publish(t)
    BY <1>4 DEF Publish
<1>5. CASE UNCHANGED vars
    BY <1>5 DEF vars
<1> QED BY <1>0, <1>1, <1>2, <1>3, <1>4, <1>5 DEF Next, HandlerStep

\* Before any of these events no trigger is torn and latest keeps.
Breaking == {"fault", "crash", "expiry"}

Quiet == \A e \in Breaking : spent[e] = 0

LEMMA QuietBefore ==
    ASSUME TypeOK, [Next]_vars, Quiet'
    PROVE  Quiet /\ torn' = torn
<1>1. Breaking \subseteq Faults
    BY DEF Breaking, Faults
<1>2. ASSUME NEW e \in Breaking PROVE ~Spend(e)
  <2>1. spent[e] \in Nat /\ spent'[e] = 0
      BY <1>1 DEF TypeOK, Quiet
  <2> QED BY <1>1, <2>1, SpendEffect
<1>3. \A e \in Breaking : spent'[e] = spent[e]
    BY <1>1, <1>2, SpentByStep, SpendEffect
<1>4. torn' = torn
    BY <1>2, SpentByStep DEF Breaking
<1> QED BY <1>3, <1>4 DEF Quiet

Whole == Quiet => torn = {}

LEMMA NothingTorn == Spec => []Whole
<1>1. Init => Whole
    BY DEF Init, Whole
<1>2. TypeOK /\ Whole /\ [Next]_vars => Whole'
    BY QuietBefore DEF Whole
<1> QED BY <1>1, <1>2, TypeCorrect, PTL DEF Spec

\* What the status of an event says, and that none is lost while nothing is torn.
StatusIs(e) ==
    /\ e > emitted => StatusOf(e) = "absent"
    /\ e <= emitted => StatusOf(e) \in {"pending", "parked", "done"}
    /\ StatusOf(e) = "done" <=> e <= emitted /\ e <= done
    /\ e <= emitted /\ e > done /\ latest \notin dlq => StatusOf(e) = "pending"

Guarded == Quiet => \A e \in 1 .. MaxEvents : StatusIs(e)

LEMMA NothingUnseen ==
    ASSUME TypeOK, Coherent, NoLostFire, Whole
    PROVE  Guarded
<1> SUFFICES ASSUME Quiet, NEW e \in 1 .. MaxEvents
             PROVE  StatusIs(e)
    BY DEF Guarded
<1>1. emitted \in Nat /\ done \in Nat /\ e \in Nat /\ done <= emitted
    BY DEF TypeOK, Coherent
<1>2. CASE e > emitted
  <2>1. StatusOf(e) = "absent"
      BY <1>1, <1>2 DEF StatusOf
  <2> QED BY <1>1, <1>2, <2>1 DEF StatusIs
<1>3. CASE e <= done
  <2>1. StatusOf(e) = "done"
      BY <1>1, <1>3 DEF StatusOf
  <2> QED BY <1>1, <1>3, <2>1 DEF StatusIs
<1>4. CASE e <= emitted /\ e > done
  <2>1. latest # None /\ InSight(latest)
      BY <1>1, <1>4 DEF NoLostFire, Whole, Quiet, Breaking
  <2>2. StatusOf(e) = IF latest \in dlq THEN "parked" ELSE "pending"
      BY <1>1, <1>4, <2>1 DEF StatusOf
  <2> QED BY <1>1, <1>4, <2>2 DEF StatusIs
<1> QED BY <1>1, <1>2, <1>3, <1>4

\* Nothing is un-covered, and an event appears with its trigger on the way.
LEMMA MovesAllowed ==
    ASSUME TypeOK, Coherent, [Next]_vars, NEW e \in 1 .. MaxEvents,
           StatusIs(e), StatusIs(e)', StatusOf(e)' # StatusOf(e)
    PROVE  <<StatusOf(e), StatusOf(e)'>> \in Contract!Moves
<1> USE DEF redis, queues, handlers, history
<1>1. emitted \in Nat /\ done \in Nat /\ e \in Nat /\ done <= emitted
    BY DEF TypeOK, Coherent
<1>2. \/ UNCHANGED emitted /\ done' \in Nat /\ done' >= done
      \/ PublishLua
  <2>1. ASSUME NEW h \in Handlers, ConsumerReturns(h)
        PROVE  UNCHANGED emitted /\ done' \in Nat /\ done' >= done
      BY <1>1, <2>1, BusyHasTrigger DEF ConsumerReturns
  <2>2. ASSUME UNCHANGED <<emitted, done>>
        PROVE  UNCHANGED emitted /\ done' \in Nat /\ done' >= done
      BY <1>1, <2>2
  <2>3. ASSUME NEW h \in Handlers,
               \/ Claim(h) \/ ConsumerReschedules(h) \/ ConsumerRaises(h)
               \/ ConditionalDel(h) \/ RescheduleCas(h) \/ Republish(h) \/ Ack(h)
               \/ Nack(h) \/ \E t \in Trigger : Deliver(h, t)
        PROVE  UNCHANGED <<emitted, done>>
      BY <2>3
      DEF Claim, ConsumerReschedules, ConsumerRaises, ConditionalDel, RescheduleCas,
          Republish, Ack, Nack, Deliver
  <2> QED
      BY <2>1, <2>2, <2>3
      DEF Next, Environment, HandlerStep, vars, PublishFails, Replay, InfraError, Crash,
          ConnectionLoss, LatestExpires, Publish
<1>3. CASE UNCHANGED emitted /\ done' \in Nat /\ done' >= done
  <2>1. e <= emitted /\ StatusOf(e) # "done"
      BY <1>1, <1>3 DEF StatusIs
  <2> QED BY <1>3, <2>1 DEF StatusIs, Contract!Moves
<1>4. CASE PublishLua
  <2>1. /\ emitted' = emitted + 1 /\ done' = done
        /\ latest' \in Trigger /\ latest'.ev = emitted + 1 /\ dlq' = dlq
      BY <1>4, PublishLuaEffect DEF PublishLua
  <2>2. latest' \notin dlq'
      BY <1>1, <2>1 DEF Coherent, Known
  <2>3. CASE e > emitted
    <3>1. e <= emitted' /\ e > done'
        BY <1>1, <2>1, <2>3 DEF StatusIs
    <3>2. StatusOf(e) = "absent" /\ StatusOf(e)' = "pending"
        BY <2>2, <2>3, <3>1 DEF StatusIs
    <3> QED BY <3>2 DEF Contract!Moves
  <2>4. CASE e <= emitted
    <3>1. e <= emitted' /\ StatusOf(e) # "done"
        BY <1>1, <2>1, <2>4 DEF StatusIs
    <3> QED BY <2>4, <3>1 DEF StatusIs, Contract!Moves
  <2> QED BY <1>1, <2>3, <2>4
<1> QED BY <1>2, <1>3, <1>4

Seen == [e \in 1 .. MaxEvents |-> StatusOf(e)]

\* Until a call fails, a process dies or latest outlives its TTL, every step is one
\* the contract allows, or none it sees: an event appears pending, waits as a dead
\* letter at worst, and one a run has covered stays covered.
THEOREM StepsKeepContract == Spec => [][Quiet' => [Contract!Next]_Seen]_vars
<1>1. TypeOK /\ Coherent /\ Guarded /\ Guarded' /\ [Next]_vars
      => [Quiet' => [Contract!Next]_Seen]_vars
  <2> SUFFICES ASSUME TypeOK, Coherent, Guarded, Guarded', [Next]_vars, Quiet'
               PROVE  Contract!Next
      OBVIOUS
  <2>1. \A e \in 1 .. MaxEvents : StatusIs(e) /\ StatusIs(e)'
      BY QuietBefore DEF Guarded
  <2>2. TypeOK' => emitted' \in Nat
      BY DEF TypeOK
  <2>3. \A e \in 1 .. MaxEvents : StatusOf(e)' \in {"absent", "pending", "parked", "done"}
      BY <2>1, <2>2, TypeStep DEF StatusIs
  <2>4. \A e \in 1 .. MaxEvents : StatusOf(e)' # StatusOf(e)
                => <<StatusOf(e), StatusOf(e)'>> \in Contract!Moves
      BY <2>1, MovesAllowed
  <2> QED BY <2>3, <2>4 DEF Contract!Next, Contract!Statuses
<1>2. Init => Coherent /\ CountIsBacklog
    BY DEF Init, Coherent, Fresh, Known, CountIsBacklog
<1> QED
    BY <1>1, <1>2, CoherentStep, NothingUnseen, TypeCorrect, FiresAreKept, NothingTorn, PTL
    DEF Spec

\* A deployment where no call fails, no process dies and no key expires; events,
\* reschedules, dropped connections and replayed dead letters are not limited.
Undisturbable == \A e \in Breaking : Limit[e] = 0

\* There all behaviours of the debounced edge are behaviours of the contract: the
\* safety half of what ImplementsContract says.
THEOREM FiresKeepContract == ASSUME Undisturbable PROVE Spec => Contract!Spec
<1>1. Init => Quiet
    BY DEF Init, Quiet, Breaking, Faults
<1>2. TypeOK /\ Quiet /\ [Next]_vars => Quiet'
  <2> SUFFICES ASSUME TypeOK, Quiet, [Next]_vars, NEW e \in Breaking PROVE spent'[e] = 0
      BY DEF Quiet
  <2>1. e \in Faults /\ spent[e] = 0 /\ Limit[e] = 0
      BY DEF Breaking, Faults, Quiet, Undisturbable
  <2>2. ~Spend(e)
      BY <2>1 DEF Spend
  <2> QED BY <2>1, <2>2, SpentByStep, SpendEffect
<1>3. Init => Contract!Init
  <2>1. ASSUME Init, NEW e \in 1 .. MaxEvents PROVE StatusOf(e) = "absent"
    <3>1. emitted = 0 /\ done = 0
        BY <2>1 DEF Init
    <3>2. e \in Nat /\ e > 0
        BY ConstantsAssumption
    <3> QED BY <3>1, <3>2 DEF StatusOf
  <2> QED BY <2>1 DEF Contract!Init
<1>4. UNCHANGED vars => UNCHANGED Seen
  <2>1. UNCHANGED vars => \A e \in 1 .. MaxEvents : StatusOf(e)' = StatusOf(e)
      BY DEF vars, redis, queues, handlers, history, StatusOf, InSight, Works
  <2> QED BY <2>1 DEF Seen
<1> QED
    BY <1>1, <1>2, <1>3, <1>4, StepsKeepContract, TypeCorrect, PTL
    DEF Spec, Seen, Contract!Spec
================================================================================
