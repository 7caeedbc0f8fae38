---------------------------- MODULE Promises_proofs ----------------------------
(***************************************************************************)
(* Proofs about DeadLetters, Outbox, SourceLoops and Tagger, for every      *)
(* number of letters, dispatchers, time sources and tasks, every finite     *)
(* number of requests, rows and frames, every batch size, length of queue   *)
(* and bound.                                                               *)
(***************************************************************************)
EXTENDS Promises, Tagger, FiniteSetTheorems, SequenceTheorems, TLAPS

\* A finite set that has at most one element more has at most one element more.
LEMMA OneMore ==
    ASSUME NEW S, IsFiniteSet(S), NEW x, NEW T, T \subseteq S \cup {x}
    PROVE  Cardinality(T) <= Cardinality(S) + 1
<1>1. IsFiniteSet(S \cup {x}) /\ Cardinality(S \cup {x}) \in {Cardinality(S), Cardinality(S) + 1}
    BY FS_AddElement
<1>2. Cardinality(T) <= Cardinality(S \cup {x}) /\ Cardinality(S) \in Nat /\ Cardinality(T) \in Nat
    BY <1>1, FS_Subset, FS_CardinalityType
<1> QED BY <1>1, <1>2

--------------------------------------------------------------------------------
(* The frames of a queue source.                                             *)

BootStates == {"down", "running", "graph", "trigger", "topology", "schema", "consumers", "sources"}

LoopsTyped ==
    /\ boot \in BootStates
    /\ loops \in [Sources -> {"off", "on", "ended"}]
    /\ fatal \in BOOLEAN
    /\ due \in [Timed -> Nat] /\ ticks \in [Timed -> 0 .. MaxTicks] /\ emitting \in [Timed -> Nat]
    /\ frames \in [Frames -> {"ready", "unacked", "acked", "dead"}]
    /\ handling \in Frames \cup {NoFrame} /\ ours \in BOOLEAN
    /\ late \in [Frames -> Nat]
    /\ handled \in [Frames -> Nat]
    /\ troubles \in [LoopEvents -> Nat]

\* What a process has going ends with it, and a task is the tick of some moment.
OnlyWhenRunning ==
    /\ boot # "running" => /\ \A s \in Sources : loops[s] = "off"
                           /\ \A s \in Timed : emitting[s] = 0
                           /\ handling = NoFrame /\ ~fatal
                           /\ \A f \in Frames : late[f] = 0
    /\ \A s \in Timed : due[s] + emitting[s] <= ticks[s]

\* The deaths, failed loops and lost connections that have given frames back; a failure
\* whose watchdog has not come yet will.
Restarts == troubles["crash"] + troubles["fatal"] + troubles["loss"]
Came == Restarts - (IF fatal THEN 1 ELSE 0)

\* What of a frame may still go to the node: a delivery that is not in its hands yet,
\* and the copies of the channels that were lost.
Pending(f) ==
    late[f] + (IF frames[f] \in {"ready", "unacked"} /\ ~(ours /\ handling = f) THEN 1 ELSE 0)

InHands ==
    /\ handling # NoFrame => handled[handling] > 0
    /\ ours => handling # NoFrame /\ frames[handling] = "unacked"

\* It went and will go there at most once for each restart, and once more.
FramesEarned ==
    /\ fatal => troubles["fatal"] > 0
    /\ InHands
    /\ \A f \in Frames :
        /\ handled[f] + Pending(f) <= 1 + Came
        /\ frames[f] = "acked" => handled[f] > 0

DeadFrames == {f \in Frames : frames[f] = "dead"}
DeadAreCounted == Cardinality(DeadFrames) <= troubles["frame"] + troubles["stop"]

LoopsIInv == LoopsTyped /\ OnlyWhenRunning /\ FramesEarned /\ DeadAreCounted

\* A trouble is counted and nothing else.
LEMMA TroubleEffect ==
    ASSUME troubles \in [LoopEvents -> Nat], NEW e \in LoopEvents, Trouble(e)
    PROVE  /\ troubles' \in [LoopEvents -> Nat]
           /\ troubles'[e] = troubles[e] + 1
           /\ \A o \in LoopEvents \ {e} : troubles'[o] = troubles[o]
BY DEF Trouble

\* The counters are numbers.
LEMMA LoopCounts ==
    ASSUME LoopsIInv
    PROVE  /\ \A e \in LoopEvents : troubles[e] \in Nat
           /\ troubles["crash"] \in Nat /\ troubles["fatal"] \in Nat /\ troubles["loss"] \in Nat
           /\ troubles["frame"] \in Nat /\ troubles["stop"] \in Nat
           /\ Restarts \in Nat /\ Came \in Nat
           /\ IsFiniteSet(DeadFrames) /\ Cardinality(DeadFrames) \in Nat
<1>1. \A e \in LoopEvents : troubles[e] \in Nat
    BY DEF LoopsIInv, LoopsTyped
<1>2. {"crash", "fatal", "frame", "stop", "loss"} \subseteq LoopEvents
    BY DEF LoopEvents
<1>3. IsFiniteSet(DeadFrames)
    BY LoopsAssumption, FS_Subset DEF DeadFrames
<1> QED BY <1>1, <1>2, <1>3, FS_CardinalityType DEF LoopsIInv, FramesEarned, Restarts, Came

\* What may still come of a frame is a number, and counts against the restarts.
LEMMA FrameCounts ==
    ASSUME LoopsIInv, NEW f \in Frames
    PROVE  /\ handled[f] \in Nat /\ late[f] \in Nat /\ Pending(f) \in Nat /\ f # NoFrame
           /\ handled[f] + Pending(f) <= 1 + Came
           /\ frames[f] = "acked" => handled[f] > 0
BY LoopsAssumption DEF LoopsIInv, LoopsTyped, FramesEarned, Pending

\* A step that leaves the frames alone, and the errors.
LEMMA FramesKept ==
    ASSUME LoopsIInv, UNCHANGED <<fatal, frameVars>>,
           \A e \in {"crash", "fatal", "frame", "stop", "loss"} : troubles'[e] = troubles[e]
    PROVE  FramesEarned' /\ DeadAreCounted'
<1>1. Came' = Came /\ DeadFrames' = DeadFrames
    BY DEF Came, Restarts, DeadFrames, frameVars
<1>2. \A f \in Frames : Pending(f)' = Pending(f)
    BY DEF Pending, frameVars
<1> QED BY <1>1, <1>2 DEF LoopsIInv, FramesEarned, InHands, DeadAreCounted, frameVars

--------------------------------------------------------------------------------
LEMMA BootGoesOn ==
    ASSUME LoopsIInv, BootStep PROVE LoopsIInv'
<1>1. boot' \in BootStates /\ (boot # "sources" => boot' # "running")
  <2> DEFINE at == CHOOSE i \in DOMAIN BootSteps : BootSteps[i] = boot
  <2>1. CASE boot = "down"
      BY <2>1 DEF BootStep, BootStates, BootSteps
  <2>2. CASE boot = "sources"
      BY <2>2 DEF BootStep, BootStates
  <2>3. CASE boot \notin {"down", "sources"}
    <3>1. \E i \in 1 .. 5 : BootSteps[i] = boot
        BY <2>3 DEF LoopsIInv, LoopsTyped, BootStates, BootSteps, BootStep
    <3>2. DOMAIN BootSteps = 1 .. 6 /\ BootSteps[6] = "sources"
        BY DEF BootSteps
    <3>3. at \in 1 .. 6 /\ BootSteps[at] = boot
        BY <3>1, <3>2
    <3>4. at \in 1 .. 5
        BY <2>3, <3>2, <3>3
    <3>5. boot' = BootSteps[at + 1]
        BY <2>3 DEF BootStep
    <3> HIDE DEF at
    <3>6. BootSteps[at + 1] \in BootStates \ {"running"}
        BY <3>4 DEF BootSteps, BootStates
    <3> QED BY <3>5, <3>6
  <2> QED BY <2>1, <2>2, <2>3
<1>2. /\ boot # "running"
      /\ UNCHANGED <<fatal, ticks, emitting, frameVars, troubles>>
      /\ boot # "sources" => UNCHANGED <<loops, due>>
      /\ boot = "sources" => /\ boot' = "running"
                             /\ loops' = [s \in Sources |-> IF s = Queue \/ TimeSources THEN "on" ELSE "off"]
                             /\ due' = [s \in Timed |-> 0]
    BY DEF BootStep
<1>3. LoopsTyped'
    BY <1>1, <1>2 DEF LoopsIInv, LoopsTyped, frameVars
<1>4. OnlyWhenRunning'
    BY <1>1, <1>2 DEF LoopsIInv, OnlyWhenRunning, LoopsTyped, frameVars
<1> QED BY <1>2, <1>3, <1>4, FramesKept DEF LoopsIInv

LEMMA BootIsOver ==
    ASSUME LoopsIInv, BootFails PROVE LoopsIInv'
<1>1. "boot" \in LoopEvents
    BY DEF LoopEvents
<1>2. /\ troubles' \in [LoopEvents -> Nat]
      /\ \A o \in LoopEvents \ {"boot"} : troubles'[o] = troubles[o]
    BY <1>1, TroubleEffect DEF BootFails, LoopsIInv, LoopsTyped
<1>3. \A e \in {"crash", "fatal", "frame", "stop", "loss"} : troubles'[e] = troubles[e]
    BY <1>2 DEF LoopEvents
<1>4. /\ boot' = "down" /\ boot # "running"
      /\ UNCHANGED <<loops, fatal, due, ticks, emitting, frameVars>>
    BY DEF BootFails
<1> QED BY <1>2, <1>3, <1>4, FramesKept DEF LoopsIInv, LoopsTyped, OnlyWhenRunning, BootStates, frameVars

\* The steps of a time source.
LEMMA TicksGoOn ==
    ASSUME LoopsIInv, NEW s \in Timed, TickComes(s) \/ Fire(s) \/ EmitEnds(s)
    PROVE  LoopsIInv'
<1>1. s \in Sources /\ boot = boot' /\ UNCHANGED <<loops, fatal, frameVars, troubles>>
    BY DEF TickComes, Fire, EmitEnds, Sources
<1>2. boot = "running"
    BY <1>1 DEF LoopsIInv, LoopsTyped, OnlyWhenRunning, TickComes, Fire, EmitEnds
<1>3. /\ due' \in [Timed -> Nat] /\ ticks' \in [Timed -> 0 .. MaxTicks] /\ emitting' \in [Timed -> Nat]
      /\ \A o \in Timed : due'[o] + emitting'[o] <= ticks'[o]
    BY LoopsAssumption DEF LoopsIInv, LoopsTyped, OnlyWhenRunning, TickComes, Fire, EmitEnds
<1>4. LoopsTyped' /\ OnlyWhenRunning'
    BY <1>1, <1>2, <1>3 DEF LoopsIInv, LoopsTyped, OnlyWhenRunning, frameVars
<1> QED BY <1>1, <1>4, FramesKept DEF LoopsIInv

\* A frame becomes dead: one more, if it was not.
LEMMA OneMoreDead ==
    ASSUME LoopsIInv, NEW f \in Frames, DeadFrames' \subseteq DeadFrames \cup {f}
    PROVE  /\ IsFiniteSet(DeadFrames') /\ Cardinality(DeadFrames') \in Nat
           /\ Cardinality(DeadFrames') <= Cardinality(DeadFrames) + 1
<1>1. IsFiniteSet(DeadFrames')
    BY LoopsAssumption, FS_Subset DEF DeadFrames
<1> QED BY <1>1, LoopCounts, OneMore, FS_CardinalityType

LEMMA FrameArrives ==
    ASSUME LoopsIInv, NEW f \in Frames, DeliverFrame(f) PROVE LoopsIInv'
<1>1. /\ frames[f] = "ready" /\ frames' = [frames EXCEPT ![f] = "unacked"]
      /\ UNCHANGED <<boot, loops, fatal, due, ticks, emitting, handling, ours, late, handled, troubles>>
    BY DEF DeliverFrame
<1>2. Came' = Came /\ DeadFrames' = DeadFrames
    BY <1>1 DEF LoopsIInv, LoopsTyped, Came, Restarts, DeadFrames
<1>3. LoopsTyped' /\ OnlyWhenRunning'
    BY <1>1 DEF LoopsIInv, LoopsTyped, OnlyWhenRunning
<1>4. InHands' /\ (ours => handling # f)
    BY <1>1 DEF LoopsIInv, LoopsTyped, FramesEarned, InHands
<1>5. ASSUME NEW o \in Frames
      PROVE  Pending(o)' = Pending(o) /\ (frames'[o] = "acked" => frames[o] = "acked")
    BY <1>1, <1>4 DEF LoopsIInv, LoopsTyped, Pending
<1>6. FramesEarned'
    BY <1>1, <1>2, <1>4, <1>5 DEF LoopsIInv, FramesEarned
<1> QED BY <1>1, <1>2, <1>3, <1>6 DEF LoopsIInv, DeadAreCounted

\* A frame in nobody's hands that is refused is dead, and nothing more comes of it.
LEMMA FrameIsRefused ==
    ASSUME LoopsIInv, NEW f \in Frames, Trouble("frame"), frames[f] = "unacked",
           frames' = [frames EXCEPT ![f] = "dead"], UNCHANGED <<fatal, late, handled>>,
           \/ handling = NoFrame /\ UNCHANGED <<handling, ours>>
           \/ handling = f /\ handling' = NoFrame /\ ours' = FALSE
    PROVE  troubles' \in [LoopEvents -> Nat] /\ FramesEarned' /\ DeadAreCounted'
<1>1. /\ troubles' \in [LoopEvents -> Nat] /\ troubles'["frame"] = troubles["frame"] + 1
      /\ \A o \in {"crash", "fatal", "stop", "loss"} : troubles'[o] = troubles[o]
    BY TroubleEffect DEF LoopEvents, LoopsIInv, LoopsTyped
<1>2. Came' = Came /\ DeadFrames' \subseteq DeadFrames \cup {f}
    BY <1>1 DEF Came, Restarts, DeadFrames, LoopsIInv, LoopsTyped
<1>3. InHands'
    BY DEF LoopsIInv, FramesEarned, InHands
<1>4. ASSUME NEW o \in Frames
      PROVE  /\ handled'[o] = handled[o] /\ Pending(o)' \in Nat /\ Pending(o)' <= Pending(o)
             /\ frames'[o] = "acked" => frames[o] = "acked"
  <2>1. frames'[o] = IF o = f THEN "dead" ELSE frames[o]
      BY DEF LoopsIInv, LoopsTyped
  <2>2. late[o] \in Nat /\ late'[o] = late[o] /\ (o # f => handling # o) /\ o # NoFrame
      BY LoopsAssumption DEF LoopsIInv, LoopsTyped
  <2> QED BY <2>1, <2>2 DEF Pending
<1>5. FramesEarned'
  <2>1. ASSUME NEW o \in Frames
        PROVE  handled'[o] + Pending(o)' <= 1 + Came' /\ (frames'[o] = "acked" => handled'[o] > 0)
      BY <1>2, <1>4, FrameCounts, LoopCounts
  <2> QED BY <1>1, <1>3, <2>1 DEF LoopsIInv, FramesEarned
<1>6. DeadAreCounted'
    BY <1>1, <1>2, OneMoreDead, LoopCounts DEF LoopsIInv, DeadAreCounted
<1> QED BY <1>1, <1>5, <1>6

\* The node has a frame in hand once more, which came by a delivery or by a late copy.
LEMMA FrameIsInHand ==
    ASSUME LoopsIInv, NEW f \in Frames, handling = NoFrame, handling' = f,
           handled' = [handled EXCEPT ![f] = @ + 1], UNCHANGED <<fatal, frames, troubles>>,
           \/ frames[f] = "unacked" /\ ours' = TRUE /\ late' = late
           \/ late[f] > 0 /\ late' = [late EXCEPT ![f] = @ - 1] /\ ours' = ours
    PROVE  FramesEarned' /\ DeadAreCounted'
<1>1. Came' = Came /\ DeadFrames' = DeadFrames /\ ~ours
    BY DEF Came, Restarts, DeadFrames, LoopsIInv, FramesEarned, InHands
<1>2. handled[f] \in Nat /\ handled'[f] = handled[f] + 1 /\ f # NoFrame /\ late[f] \in Nat
    BY FrameCounts DEF LoopsIInv, LoopsTyped
<1>3. InHands'
    BY <1>1, <1>2 DEF InHands
<1>4. Pending(f)' = Pending(f) - 1
  <2>1. CASE frames[f] = "unacked" /\ ours' = TRUE /\ late' = late
      BY <1>1, <1>2, <2>1 DEF Pending
  <2>2. CASE late[f] > 0 /\ late' = [late EXCEPT ![f] = @ - 1] /\ ours' = ours
    <3>1. late'[f] = late[f] - 1
        BY <2>2 DEF LoopsIInv, LoopsTyped
    <3> QED BY <1>1, <1>2, <2>2, <3>1 DEF Pending
  <2> QED BY <2>1, <2>2
<1>5. ASSUME NEW o \in Frames, o # f
      PROVE  handled'[o] = handled[o] /\ Pending(o)' = Pending(o)
  <2>1. late'[o] = late[o] /\ o # NoFrame /\ handled'[o] = handled[o]
      BY <1>5, FrameCounts DEF LoopsIInv, LoopsTyped
  <2> QED BY <1>1, <1>5, <2>1 DEF Pending
<1>6. ASSUME NEW o \in Frames
      PROVE  handled'[o] + Pending(o)' <= 1 + Came' /\ (frames'[o] = "acked" => handled'[o] > 0)
  <2>1. CASE o = f
      BY <1>1, <1>2, <1>4, <2>1, FrameCounts, LoopCounts
  <2> QED BY <1>1, <1>5, <2>1, FrameCounts
<1> QED BY <1>1, <1>3, <1>6 DEF LoopsIInv, FramesEarned, DeadAreCounted

LEMMA FrameIsTaken ==
    ASSUME LoopsIInv, NEW f \in Frames, Take(f) \/ TakeLate(f) PROVE LoopsIInv'
<1>1. /\ handling = NoFrame /\ boot = "running"
      /\ UNCHANGED <<boot, loops, fatal, due, ticks, emitting>>
    BY DEF Take, TakeLate, LoopsIInv, LoopsTyped, OnlyWhenRunning, Sources
<1>2. late' \in [Frames -> Nat] /\ handled' \in [Frames -> Nat]
  <2>1. CASE Take(f)
      BY <2>1 DEF Take, LoopsIInv, LoopsTyped
  <2>2. CASE TakeLate(f)
    <3>1. late[f] \in Nat /\ late[f] > 0 /\ late' = [late EXCEPT ![f] = @ - 1]
        BY <2>2, FrameCounts DEF TakeLate
    <3>2. late[f] - 1 \in Nat
        BY <3>1
    <3>3. handled' \in [Frames -> Nat]
        BY <2>2 DEF TakeLate, LoopsIInv, LoopsTyped
    <3> QED BY <3>1, <3>2, <3>3 DEF LoopsIInv, LoopsTyped
  <2> QED BY <2>1, <2>2
<1>3. /\ frames' \in [Frames -> {"ready", "unacked", "acked", "dead"}]
      /\ handling' \in Frames \cup {NoFrame} /\ ours' \in BOOLEAN
    BY DEF Take, TakeLate, LoopsIInv, LoopsTyped
<1>4. OnlyWhenRunning'
    BY <1>1 DEF LoopsIInv, OnlyWhenRunning
<1>5. troubles' \in [LoopEvents -> Nat] /\ FramesEarned' /\ DeadAreCounted'
  <2>1. CASE handling' = f /\ UNCHANGED <<frames, troubles>>
    <3>1. FramesEarned' /\ DeadAreCounted'
        BY <1>1, <2>1, FrameIsInHand, LoopsAssumption DEF Take, TakeLate
    <3> QED BY <2>1, <3>1 DEF LoopsIInv, LoopsTyped
  <2>2. CASE Trouble("frame") /\ frames' = [frames EXCEPT ![f] = "dead"]
             /\ frames[f] = "unacked" /\ UNCHANGED <<handling, ours, late, handled>>
      BY <1>1, <2>2, FrameIsRefused
  <2>3. CASE Trouble("frame") /\ late[f] > 0 /\ late' = [late EXCEPT ![f] = @ - 1]
             /\ UNCHANGED <<frames, handling, ours, handled>>
    <3>1. /\ troubles' \in [LoopEvents -> Nat] /\ troubles'["frame"] = troubles["frame"] + 1
          /\ \A o \in {"crash", "fatal", "stop", "loss"} : troubles'[o] = troubles[o]
        BY <2>3, TroubleEffect DEF LoopEvents, LoopsIInv, LoopsTyped
    <3>2. Came' = Came /\ DeadFrames' = DeadFrames /\ InHands'
        BY <1>1, <2>3, <3>1 DEF Came, Restarts, DeadFrames, LoopsIInv, FramesEarned, InHands
    <3>3. ASSUME NEW o \in Frames PROVE Pending(o)' \in Nat /\ Pending(o)' <= Pending(o)
      <4>1. late[o] \in Nat /\ late'[o] \in Nat /\ late'[o] <= late[o]
          BY <1>2, <2>3, FrameCounts DEF LoopsIInv, LoopsTyped
      <4> QED BY <2>3, <4>1 DEF Pending
    <3>4. ASSUME NEW o \in Frames
          PROVE  handled'[o] + Pending(o)' <= 1 + Came' /\ (frames'[o] = "acked" => handled'[o] > 0)
        BY <2>3, <3>2, <3>3, FrameCounts, LoopCounts
    <3>5. FramesEarned'
        BY <1>1, <3>1, <3>2, <3>4 DEF LoopsIInv, FramesEarned
    <3>6. DeadAreCounted'
        BY <3>1, <3>2, LoopCounts DEF LoopsIInv, DeadAreCounted
    <3> QED BY <3>1, <3>5, <3>6
  <2> QED BY <2>1, <2>2, <2>3 DEF Take, TakeLate
<1> QED BY <1>1, <1>2, <1>3, <1>4, <1>5 DEF LoopsIInv, LoopsTyped

LEMMA FrameIsDone ==
    ASSUME LoopsIInv, NodeEnds PROVE LoopsIInv'
<1>1. PICK f \in Frames : f = handling
    BY DEF NodeEnds, LoopsIInv, LoopsTyped
<1>2. /\ boot = "running" /\ f # NoFrame /\ handling' = NoFrame /\ ours /\ ours' = FALSE
      /\ UNCHANGED <<boot, loops, fatal, due, ticks, emitting, late, handled>>
    BY <1>1 DEF NodeEnds, LoopsIInv, LoopsTyped, OnlyWhenRunning
<1>3. frames[f] = "unacked" /\ handled[f] > 0
    BY <1>1, <1>2 DEF LoopsIInv, FramesEarned, InHands
<1>4. CASE frames' = [frames EXCEPT ![f] = "acked"] /\ UNCHANGED troubles
  <2>1. Came' = Came /\ DeadFrames' = DeadFrames
      BY <1>2, <1>3, <1>4 DEF LoopsIInv, LoopsTyped, Came, Restarts, DeadFrames
  <2>2. LoopsTyped' /\ OnlyWhenRunning'
      BY <1>2, <1>4 DEF LoopsIInv, LoopsTyped, OnlyWhenRunning
  <2>3. ASSUME NEW o \in Frames
        PROVE  handled'[o] + Pending(o)' <= 1 + Came' /\ (frames'[o] = "acked" => handled'[o] > 0)
    <3>1. frames'[o] = IF o = f THEN "acked" ELSE frames[o]
        BY <1>4 DEF LoopsIInv, LoopsTyped
    <3>2. Pending(o)' = Pending(o)
        BY <1>1, <1>2, <1>3, <3>1 DEF Pending
    <3> QED BY <1>2, <1>3, <2>1, <3>1, <3>2, FrameCounts
  <2>4. FramesEarned'
      BY <1>2, <1>4, <2>3 DEF LoopsIInv, FramesEarned, InHands
  <2> QED BY <1>4, <2>1, <2>2, <2>4 DEF LoopsIInv, DeadAreCounted
<1>5. CASE Trouble("frame") /\ frames' = [frames EXCEPT ![f] = "dead"]
  <2>1. troubles' \in [LoopEvents -> Nat] /\ FramesEarned' /\ DeadAreCounted'
      BY <1>1, <1>2, <1>3, <1>5, FrameIsRefused
  <2> QED BY <1>2, <1>5, <2>1 DEF LoopsIInv, LoopsTyped, OnlyWhenRunning
<1> QED BY <1>1, <1>4, <1>5 DEF NodeEnds

LEMMA FrameIsDoneLate ==
    ASSUME LoopsIInv, NodeEndsLate PROVE LoopsIInv'
<1>1. /\ handling # NoFrame /\ ~ours /\ handling' = NoFrame
      /\ UNCHANGED <<boot, loops, fatal, due, ticks, emitting, frames, ours, late, handled, troubles>>
    BY DEF NodeEndsLate
<1>2. Came' = Came /\ DeadFrames' = DeadFrames /\ \A o \in Frames : Pending(o)' = Pending(o)
    BY <1>1 DEF Came, Restarts, DeadFrames, Pending
<1>3. LoopsTyped' /\ OnlyWhenRunning'
    BY <1>1 DEF LoopsIInv, LoopsTyped, OnlyWhenRunning
<1>4. FramesEarned'
    BY <1>1, <1>2 DEF LoopsIInv, FramesEarned, InHands
<1> QED BY <1>1, <1>2, <1>3, <1>4 DEF LoopsIInv, DeadAreCounted

--------------------------------------------------------------------------------
\* What goes back to the broker is ready again, and nothing else changes.
LEMMA GivenBack ==
    ASSUME LoopsIInv, NEW f \in Frames
    PROVE  /\ Returned(Unacked)[f] = IF frames[f] = "unacked" THEN "ready" ELSE frames[f]
           /\ Returned(Unacked) \in [Frames -> {"ready", "unacked", "acked", "dead"}]
BY DEF Returned, Unacked, LoopsIInv, LoopsTyped

LEMMA ConnectionIsBack ==
    ASSUME LoopsIInv, Reconnects PROVE LoopsIInv'
<1>1. /\ boot = "running" /\ ours' = FALSE /\ frames' = Returned(Unacked)
      /\ UNCHANGED <<boot, loops, fatal, due, ticks, emitting, handling, handled>>
    BY DEF Reconnects, LoopsIInv, LoopsTyped, OnlyWhenRunning, Sources
<1>2. /\ troubles' \in [LoopEvents -> Nat] /\ troubles'["loss"] = troubles["loss"] + 1
      /\ \A o \in {"crash", "fatal", "frame", "stop"} : troubles'[o] = troubles[o]
    BY TroubleEffect DEF Reconnects, LoopEvents, LoopsIInv, LoopsTyped
<1>3. Came' = Came + 1
    BY <1>1, <1>2, LoopCounts DEF Came, Restarts
<1>4. ASSUME NEW f \in Frames
      PROVE  /\ late'[f] \in Nat
             /\ late'[f] = IF frames[f] = "unacked" /\ ~(ours /\ f = handling)
                             THEN late[f] + 1 ELSE late[f]
             /\ frames'[f] = IF frames[f] = "unacked" THEN "ready" ELSE frames[f]
    BY <1>1, GivenBack, FrameCounts DEF Reconnects, Unacked
<1>5. late' \in [Frames -> Nat]
  <2>1. late' = [f \in Frames |-> late'[f]]
      BY DEF Reconnects
  <2> QED BY <1>4, <2>1
<1>6. LoopsTyped' /\ OnlyWhenRunning'
    BY <1>1, <1>2, <1>5, GivenBack, LoopsAssumption DEF LoopsIInv, LoopsTyped, OnlyWhenRunning, Returned, Unacked
<1>7. ASSUME NEW f \in Frames
      PROVE  handled'[f] + Pending(f)' <= 1 + Came' /\ (frames'[f] = "acked" => handled'[f] > 0)
  <2>1. Pending(f)' <= Pending(f) + 1 /\ Pending(f)' \in Nat
      BY <1>1, <1>4, FrameCounts DEF Pending
  <2> QED BY <1>1, <1>3, <1>4, <2>1, FrameCounts, LoopCounts
<1>8. FramesEarned'
    BY <1>1, <1>2, <1>7 DEF LoopsIInv, FramesEarned, InHands
<1>9. DeadFrames' = DeadFrames
    BY <1>4 DEF DeadFrames
<1> QED BY <1>2, <1>6, <1>8, <1>9 DEF LoopsIInv, DeadAreCounted

LEMMA ALoopEnds ==
    ASSUME LoopsIInv, NEW s \in Sources, LoopFails(s) PROVE LoopsIInv'
<1>1. /\ boot = "running" /\ (s = Queue => handling = NoFrame) /\ fatal' = TRUE
      /\ loops' = [loops EXCEPT ![s] = "ended"]
      /\ frames' = IF s = Queue THEN Returned(Unacked) ELSE frames
      /\ late' = IF s = Queue THEN [f \in Frames |-> 0] ELSE late
      /\ UNCHANGED <<boot, due, ticks, emitting, handling, ours, handled>>
    BY DEF LoopFails, LoopsIInv, OnlyWhenRunning
<1>2. /\ troubles' \in [LoopEvents -> Nat] /\ troubles'["fatal"] = troubles["fatal"] + 1
      /\ \A o \in {"crash", "frame", "stop", "loss"} : troubles'[o] = troubles[o]
    BY TroubleEffect DEF LoopFails, LoopEvents, LoopsIInv, LoopsTyped
<1>3. Came' >= Came /\ Came' \in Nat /\ troubles'["fatal"] > 0
    BY <1>1, <1>2, LoopCounts DEF Came, Restarts
<1>4. ours => s # Queue
    BY <1>1 DEF LoopsIInv, FramesEarned, InHands
<1>5. \A f \in Frames :
        /\ \/ frames'[f] = frames[f]
           \/ s = Queue /\ frames[f] = "unacked" /\ frames'[f] = "ready"
        /\ late'[f] \in Nat /\ late'[f] <= late[f]
  <2>1. CASE s # Queue
      BY <1>1, <2>1, FrameCounts
  <2>2. CASE s = Queue
    <3>1. frames' = Returned(Unacked) /\ late' = [f \in Frames |-> 0]
        BY <1>1, <2>2
    <3> SUFFICES ASSUME NEW f \in Frames
                 PROVE  /\ frames'[f] = frames[f] \/ (frames[f] = "unacked" /\ frames'[f] = "ready")
                        /\ late'[f] = 0 /\ late[f] \in Nat
        BY <2>2
    <3>2. late'[f] = 0 /\ late[f] \in Nat
        BY <3>1, FrameCounts
    <3> QED BY <3>1, <3>2, GivenBack
  <2> QED BY <2>1, <2>2
<1>6. DeadFrames' = DeadFrames
    BY <1>5 DEF DeadFrames
<1>7. LoopsTyped' /\ OnlyWhenRunning'
  <2>1. frames' \in [Frames -> {"ready", "unacked", "acked", "dead"}]
      BY <1>1 DEF Returned, Unacked, LoopsIInv, LoopsTyped
  <2>2. late' \in [Frames -> Nat]
      BY <1>1 DEF LoopsIInv, LoopsTyped
  <2> QED BY <1>1, <1>2, <2>1, <2>2 DEF LoopsIInv, LoopsTyped, OnlyWhenRunning
<1>8. FramesEarned'
  <2>1. InHands'
      BY <1>1, <1>4 DEF LoopsIInv, FramesEarned, InHands
  <2>2. ASSUME NEW f \in Frames
        PROVE  handled'[f] + Pending(f)' <= 1 + Came' /\ (frames'[f] = "acked" => handled'[f] > 0)
    <3>1. Pending(f)' <= Pending(f) /\ Pending(f)' \in Nat
        BY <1>1, <1>4, <1>5, FrameCounts DEF Pending
    <3> QED BY <1>1, <1>3, <1>5, <3>1, FrameCounts, LoopCounts
  <2> QED BY <1>3, <2>1, <2>2 DEF FramesEarned
<1> QED BY <1>2, <1>6, <1>7, <1>8 DEF LoopsIInv, DeadAreCounted

\* A process that is gone leaves the frames to the broker, the one in the node's hands
\* to be handled again only if that was counted.
LEMMA ProcessGone ==
    ASSUME LoopsIInv, NEW left \in [Frames -> {"ready", "acked", "dead"}], Gone(left),
           troubles' \in [LoopEvents -> Nat], Came' \in Nat, Came' >= Came,
           \A f \in Frames :
               /\ left[f] = "acked" => frames[f] = "acked"
               /\ left[f] = "ready" => /\ frames[f] \in {"ready", "unacked"}
                                      /\ (~(ours /\ f = handling) \/ Came' > Came)
    PROVE  LoopsTyped' /\ OnlyWhenRunning' /\ FramesEarned'
<1>1. /\ boot' = "down" /\ fatal' = FALSE /\ handling' = NoFrame /\ ours' = FALSE
      /\ frames' = left
      /\ loops' = [s \in Sources |-> "off"] /\ late' = [f \in Frames |-> 0]
      /\ due' = [s \in Timed |-> 0] /\ emitting' = [s \in Timed |-> 0]
      /\ UNCHANGED <<ticks, handled>>
    BY DEF Gone
<1>2. LoopsTyped' /\ OnlyWhenRunning'
  <2>1. ASSUME NEW s \in Timed
        PROVE  due'[s] = 0 /\ emitting'[s] = 0 /\ due'[s] + emitting'[s] <= ticks'[s]
      BY <1>1, LoopsAssumption DEF LoopsIInv, LoopsTyped
  <2>2. OnlyWhenRunning'
      BY <1>1, <2>1 DEF OnlyWhenRunning
  <2>3. due' \in [Timed -> Nat] /\ emitting' \in [Timed -> Nat] /\ late' \in [Frames -> Nat]
      BY <1>1
  <2>4. frames' \in [Frames -> {"ready", "unacked", "acked", "dead"}]
      BY <1>1
  <2> QED BY <1>1, <2>2, <2>3, <2>4 DEF LoopsIInv, LoopsTyped, BootStates
<1>3. ASSUME NEW f \in Frames
      PROVE  handled'[f] + Pending(f)' <= 1 + Came' /\ (frames'[f] = "acked" => handled'[f] > 0)
  <2>1. handled'[f] = handled[f] /\ frames'[f] = left[f] /\ left[f] # "unacked" /\ late'[f] = 0
      BY <1>1
  <2>2. Pending(f)' = IF left[f] = "ready" THEN 1 ELSE 0
      BY <1>1, <2>1 DEF Pending
  <2>3. CASE left[f] = "ready"
    <3>1. Pending(f) >= 1 \/ Came' > Came
        BY <2>3, FrameCounts DEF Pending
    <3> QED BY <2>1, <2>2, <2>3, <3>1, FrameCounts, LoopCounts
  <2>4. CASE left[f] # "ready"
      BY <2>1, <2>2, <2>4, FrameCounts, LoopCounts
  <2> QED BY <2>3, <2>4
<1> QED BY <1>1, <1>2, <1>3 DEF FramesEarned, InHands

LEMMA ReturnedLeft ==
    ASSUME LoopsIInv
    PROVE  /\ Returned(Unacked) \in [Frames -> {"ready", "acked", "dead"}]
           /\ \A f \in Frames :
                /\ Returned(Unacked)[f] = "acked" => frames[f] = "acked"
                /\ Returned(Unacked)[f] = "dead" <=> frames[f] = "dead"
                /\ Returned(Unacked)[f] = "ready" => frames[f] \in {"ready", "unacked"}
BY DEF Returned, Unacked, LoopsIInv, LoopsTyped

LEMMA ProcessEnds ==
    ASSUME LoopsIInv, Watchdog \/ Dies PROVE LoopsIInv'
<1>1. Gone(Returned(Unacked)) /\ frames' = Returned(Unacked) /\ fatal' = FALSE
    BY DEF Watchdog, Dies, Gone
<1>2. /\ troubles' \in [LoopEvents -> Nat]
      /\ Came' \in Nat /\ Came' > Came
      /\ troubles'["frame"] = troubles["frame"] /\ troubles'["stop"] = troubles["stop"]
  <2>1. CASE Watchdog
    <3>1. fatal /\ troubles' = troubles
        BY <2>1 DEF Watchdog
    <3> QED BY <1>1, <3>1, LoopCounts DEF LoopsIInv, LoopsTyped, Came, Restarts
  <2>2. CASE Dies
    <3>1. /\ troubles' \in [LoopEvents -> Nat] /\ troubles'["crash"] = troubles["crash"] + 1
          /\ \A o \in {"fatal", "frame", "stop", "loss"} : troubles'[o] = troubles[o]
        BY <2>2, TroubleEffect DEF Dies, LoopEvents, LoopsIInv, LoopsTyped
    <3> QED BY <1>1, <3>1, LoopCounts DEF Came, Restarts
  <2> QED BY <2>1, <2>2
<1>3. LoopsTyped' /\ OnlyWhenRunning' /\ FramesEarned'
    BY <1>1, <1>2, ReturnedLeft, ProcessGone, LoopCounts
<1>4. DeadFrames' = DeadFrames
    BY <1>1, ReturnedLeft DEF DeadFrames
<1> QED BY <1>2, <1>3, <1>4 DEF LoopsIInv, DeadAreCounted

LEMMA ProcessStops ==
    ASSUME LoopsIInv, Stop PROVE LoopsIInv'
<1> DEFINE left == [f \in Frames |-> IF ours /\ f = handling THEN "dead" ELSE Returned(Unacked)[f]]
<1>1. Gone(left) /\ frames' = left /\ fatal' = FALSE
    BY DEF Stop, Gone
<1>2. /\ troubles' \in [LoopEvents -> Nat] /\ troubles'["stop"] = troubles["stop"] + 1
      /\ \A o \in {"crash", "fatal", "frame", "loss"} : troubles'[o] = troubles[o]
    BY TroubleEffect DEF Stop, LoopEvents, LoopsIInv, LoopsTyped
<1>3. Came' \in Nat /\ Came' >= Came
    BY <1>1, <1>2, LoopCounts DEF Came, Restarts
<1>4. /\ left \in [Frames -> {"ready", "acked", "dead"}]
      /\ \A f \in Frames :
            /\ left[f] = "acked" => frames[f] = "acked"
            /\ left[f] = "ready" => frames[f] \in {"ready", "unacked"} /\ ~(ours /\ f = handling)
            /\ left[f] = "dead" => f = handling \/ frames[f] = "dead"
    BY ReturnedLeft
<1> HIDE DEF left
<1>5. LoopsTyped' /\ OnlyWhenRunning' /\ FramesEarned'
    BY <1>1, <1>2, <1>3, <1>4, ProcessGone
<1>6. DeadAreCounted'
  <2>1. CASE handling = NoFrame
    <3>1. DeadFrames' \subseteq DeadFrames
        BY <1>1, <1>4, <2>1, LoopsAssumption DEF DeadFrames
    <3>2. IsFiniteSet(DeadFrames') /\ Cardinality(DeadFrames') <= Cardinality(DeadFrames)
        BY <3>1, LoopCounts, FS_Subset
    <3> QED BY <1>2, <3>2, LoopCounts, FS_CardinalityType DEF LoopsIInv, DeadAreCounted
  <2>2. CASE handling # NoFrame
    <3>1. PICK f \in Frames : f = handling
        BY <2>2 DEF LoopsIInv, LoopsTyped
    <3>2. DeadFrames' \subseteq DeadFrames \cup {f}
        BY <1>1, <1>4, <3>1 DEF DeadFrames
    <3> QED BY <1>2, <3>2, OneMoreDead, LoopCounts DEF LoopsIInv, DeadAreCounted
  <2> QED BY <2>1, <2>2
<1> QED BY <1>5, <1>6 DEF LoopsIInv

LEMMA LoopsStart ==
    ASSUME LoopsInit PROVE LoopsIInv
<1>1. DeadFrames = {} /\ Cardinality({}) = 0 /\ Came = 0
    BY FS_EmptySet DEF LoopsInit, DeadFrames, Came, Restarts, LoopEvents
<1>2. LoopsTyped /\ OnlyWhenRunning
  <2>1. ASSUME NEW s \in Timed PROVE due[s] = 0 /\ emitting[s] = 0 /\ ticks[s] = 0
      BY DEF LoopsInit
  <2>2. OnlyWhenRunning
      BY <2>1 DEF LoopsInit, OnlyWhenRunning
  <2>3. due \in [Timed -> Nat] /\ emitting \in [Timed -> Nat] /\ ticks \in [Timed -> 0 .. MaxTicks]
      BY LoopsAssumption DEF LoopsInit
  <2> QED BY <2>2, <2>3 DEF LoopsInit, LoopsTyped, BootStates
<1>3. FramesEarned
  <2>1. \A f \in Frames : handled[f] = 0 /\ Pending(f) = 1 /\ frames[f] = "ready"
      BY DEF LoopsInit, Pending
  <2> QED BY <1>1, <2>1 DEF LoopsInit, FramesEarned, InHands
<1>4. DeadAreCounted
    BY <1>1 DEF LoopsInit, DeadAreCounted, LoopEvents
<1> QED BY <1>2, <1>3, <1>4 DEF LoopsIInv

LEMMA LoopsStep ==
    ASSUME LoopsIInv, [LoopsNext]_loopVars PROVE LoopsIInv'
<1>1. CASE UNCHANGED loopVars
  <2>1. FramesEarned' /\ DeadAreCounted'
      BY <1>1, FramesKept DEF loopVars
  <2> QED BY <1>1, <2>1 DEF loopVars, frameVars, LoopsIInv, LoopsTyped, OnlyWhenRunning
<1>2. CASE LoopsNext
    BY <1>2, BootGoesOn, BootIsOver, TicksGoOn, FrameArrives, FrameIsTaken, FrameIsDone,
       FrameIsDoneLate, ConnectionIsBack, ALoopEnds, ProcessEnds, ProcessStops DEF LoopsNext
<1> QED BY <1>1, <1>2

THEOREM LoopsInductive == LoopsSpec => []LoopsIInv
<1> QED BY LoopsStart, LoopsStep, PTL DEF LoopsSpec

\* Boot steps, loops, ticks and frames keep their types, and what a process has going
\* ends with it (engine.py).
THEOREM LoopsAreTyped == LoopsSpec => []LoopsTypeOK
<1>1. LoopsIInv => LoopsTypeOK
  <2> SUFFICES ASSUME LoopsIInv PROVE LoopsTypeOK
      OBVIOUS
  <2>1. boot \in {"down", "running"} \cup {BootSteps[i] : i \in DOMAIN BootSteps}
      BY DEF LoopsIInv, LoopsTyped, BootStates, BootSteps
  <2>2. due \in [Timed -> 0 .. MaxTicks] /\ emitting \in [Timed -> 0 .. MaxTicks]
    <3>1. \A s \in Timed : due[s] \in 0 .. MaxTicks /\ emitting[s] \in 0 .. MaxTicks
        BY LoopsAssumption DEF LoopsIInv, LoopsTyped, OnlyWhenRunning
    <3> QED BY <3>1 DEF LoopsIInv, LoopsTyped
  <2> QED BY <2>1, <2>2 DEF LoopsIInv, LoopsTyped, OnlyWhenRunning, LoopsTypeOK
<1> QED BY <1>1, LoopsInductive, PTL

\* Whatever loop fails, whenever the connection drops under a node and whenever the process
\* stops or dies: a frame is acked only when its node returned, goes to the node again only
\* for a death, a failed loop or a lost connection, and is dead-lettered only when it was
\* refused (engine.py, rabbitmq.py).
THEOREM FramesStayAccounted == LoopsSpec => []FramesAreAccounted
<1>1. LoopsIInv => FramesAreAccounted
  <2> SUFFICES ASSUME LoopsIInv PROVE FramesAreAccounted
      OBVIOUS
  <2>1. Came <= Restarts
      BY LoopCounts DEF Came
  <2>2. ASSUME NEW f \in Frames
        PROVE  handled[f] <= 1 + troubles["crash"] + troubles["fatal"] + troubles["loss"]
      BY <2>1, FrameCounts, LoopCounts DEF Restarts
  <2> QED BY <2>2 DEF LoopsIInv, FramesEarned, DeadAreCounted, DeadFrames, FramesAreAccounted
<1> QED BY <1>1, LoopsInductive, PTL

--------------------------------------------------------------------------------
(* The dead letters of a requeue.                                             *)

Request == [pc : Steps, letter : Letters \cup {NoLetter}, left : 0 .. MaxBatch,
            clear : BOOLEAN, tag : BOOLEAN, audit : Nat, outcome : Outcomes]

Entry == [letter : Letters, status : Outcomes \cup {"cleared", "already_succeeded"}]

LettersTyped ==
    /\ dead \subseteq Letters /\ unacked \subseteq Letters /\ dead \cap unacked = {}
    /\ copies \in [Letters -> Nat]
    /\ rows \in [Letters -> {"none", "open", "succeeded"}]
    /\ audits \in Seq(Entry)
    /\ admin \in [Requests -> Request]
    /\ logged \subseteq Letters
    /\ happened \in [Events -> Nat]

\* A request that has a letter in hand, has an audit open, has yet to publish; that will
\* close its audit over a copy; from which another copy may come, because it may publish
\* its letter or put it back into the queue.
InHand == {"open", "clear", "delete", "route", "publish", "close", "settle"}
Owes(request) == request.pc \in {"clear", "delete", "route", "publish"}
Audited(request) == Owes(request) \/ request.pc = "close"
Unpublished(request) == request.pc = "open" \/ Owes(request)
Pays(request) == request.pc = "close" /\ request.outcome = "requeued"
MayPublish(request) ==
    \/ Unpublished(request)
    \/ request.pc \in {"close", "settle"} /\ request.tag /\ request.outcome = "publish_failed"

\* A valid tag is of a letter the channel has; an open audit is about the letter in hand;
\* what a request has to settle it has seen.
InOrder(q) ==
    /\ admin[q].tag => admin[q].pc \in InHand /\ Letter(q) \in unacked
    /\ admin[q].pc \in InHand \cup {"wipe", "log"} => Letter(q) \in Letters
    /\ Unpublished(admin[q]) => admin[q].outcome = "publish_failed"
    /\ admin[q].pc \in {"close", "settle"} =>
        /\ admin[q].outcome = "requeued" => copies[Letter(q)] > 0
        /\ admin[q].outcome = "zombie_acked" => rows[Letter(q)] = "succeeded"
    /\ Audited(admin[q]) =>
        admin[q].audit \in DOMAIN audits /\ audits[admin[q].audit].letter = Letter(q)

\* Two requests hold neither the same letter nor the same audit.
Apart(p, q) ==
    /\ admin[p].tag /\ admin[q].tag => Letter(p) # Letter(q)
    /\ Audited(admin[p]) /\ Audited(admin[q]) => admin[p].audit # admin[q].audit

HandsOff ==
    /\ \A q \in Requests : InOrder(q)
    /\ \A p, q \in Requests : p # q => Apart(p, q)

\* The audits of a letter no copy is still owed to, and those there is a copy for.
Done(l) == {i \in AuditsOf(l) : \A q \in Requests : Owes(admin[q]) => admin[q].audit # i}
Paid(l) == {i \in AuditsOf(l) :
                \/ audits[i].status = "requeued"
                \/ \E q \in Requests : Pays(admin[q]) /\ admin[q].audit = i}

CopiesAudited ==
    \A l \in Letters :
        /\ copies[l] <= Cardinality(Done(l))
        /\ Cardinality(Paid(l)) <= copies[l]
        /\ l \in logged => AuditsOf(l) # {}

\* Copies that are there or may come, one more than the faults.
Chances(l) == {q \in Requests : Letter(q) = l /\ MayPublish(admin[q])}
Waiting(l) == IF l \in dead THEN 1 ELSE 0

CopiesBounded ==
    \A l \in Letters :
        copies[l] + Cardinality(Chances(l)) + Waiting(l) <= 1 + happened["fault"] + happened["drop"]

LettersIInv ==
    LettersTyped /\ HandsOff /\ NoLetterVanishes /\ CopiesAudited /\ CopiesBounded

\* What Then makes of a request, and of no other.
LEMMA ThenEffect ==
    ASSUME admin \in [Requests -> Request], NEW q \in Requests, NEW new, Then(q, new)
    PROVE  /\ \A p \in Requests \ {q} : admin'[p] = admin[p]
           /\ DOMAIN admin' = Requests
           /\ admin' = [p \in Requests |-> admin'[p]]
           /\ admin'[q] = [f \in {"pc", "letter", "left", "clear", "tag", "audit", "outcome"} |->
                               IF f \in DOMAIN new THEN new[f] ELSE admin[q][f]]
           /\ admin'[q] \in Request => admin' \in [Requests -> Request]
<1>1. DOMAIN admin[q] = {"pc", "letter", "left", "clear", "tag", "audit", "outcome"}
    BY DEF Request
<1>2. (\A p \in Requests \ {q} : admin'[p] = admin[p]) /\ DOMAIN admin' = Requests
      /\ admin' = [p \in Requests |-> admin'[p]]
    BY DEF Then
<1>3. ASSUME admin'[q] \in Request PROVE admin' \in [Requests -> Request]
  <2>1. \A p \in Requests : admin'[p] \in Request
      BY <1>2, <1>3
  <2> QED BY <1>2, <2>1
<1> QED BY <1>1, <1>2, <1>3 DEF Then

LEMMA HappensEffect ==
    ASSUME happened \in [Events -> Nat], NEW e \in Events, Happens(e)
    PROVE  /\ happened' \in [Events -> Nat]
           /\ happened'[e] = happened[e] + 1
           /\ \A o \in Events \ {e} : happened'[o] = happened[o]
BY DEF Happens

LEMMA NoRequestIsOne ==
    NoRequest \in Request
BY DeadLettersAssumption DEF NoRequest, Request, Steps, Outcomes

\* The counts are numbers.
LEMMA LetterCounts ==
    ASSUME LettersTyped, NEW l \in Letters
    PROVE  /\ copies[l] \in Nat /\ Waiting(l) \in {0, 1}
           /\ happened["fault"] \in Nat /\ happened["drop"] \in Nat
           /\ IsFiniteSet(AuditsOf(l)) /\ Cardinality(AuditsOf(l)) \in Nat
           /\ IsFiniteSet(Done(l)) /\ Cardinality(Done(l)) \in Nat
           /\ IsFiniteSet(Paid(l)) /\ Cardinality(Paid(l)) \in Nat
           /\ IsFiniteSet(Chances(l)) /\ Cardinality(Chances(l)) \in Nat
<1>1. Len(audits) \in Nat /\ DOMAIN audits = 1 .. Len(audits)
    BY DEF LettersTyped
<1>2. IsFiniteSet(DOMAIN audits)
    BY <1>1, FS_Interval
<1>3. /\ AuditsOf(l) \in SUBSET DOMAIN audits /\ Done(l) \in SUBSET DOMAIN audits
      /\ Paid(l) \in SUBSET DOMAIN audits /\ Chances(l) \in SUBSET Requests
    BY DEF AuditsOf, Done, Paid, Chances
<1>4. /\ copies[l] \in Nat /\ happened["fault"] \in Nat /\ happened["drop"] \in Nat
      /\ Waiting(l) \in {0, 1}
    BY DEF LettersTyped, Events, Waiting
<1> QED BY <1>2, <1>3, <1>4, DeadLettersAssumption, FS_Subset, FS_CardinalityType

\* They are after a step, too.
LEMMA LetterCountsAfter ==
    ASSUME LettersTyped', NEW l \in Letters
    PROVE  /\ copies'[l] \in Nat /\ Waiting(l)' \in {0, 1}
           /\ happened'["fault"] \in Nat /\ happened'["drop"] \in Nat
           /\ IsFiniteSet(Done(l)') /\ Cardinality(Done(l)') \in Nat
           /\ IsFiniteSet(Paid(l)') /\ Cardinality(Paid(l)') \in Nat
           /\ IsFiniteSet(Chances(l)') /\ Cardinality(Chances(l)') \in Nat
<1>1. Len(audits') \in Nat /\ DOMAIN audits' = 1 .. Len(audits')
    BY DEF LettersTyped
<1>2. IsFiniteSet(DOMAIN audits')
    BY <1>1, FS_Interval
<1>3. /\ Done(l)' \in SUBSET DOMAIN audits' /\ Paid(l)' \in SUBSET DOMAIN audits'
      /\ Chances(l)' \in SUBSET Requests
    BY DEF AuditsOf, Done, Paid, Chances
<1>4. /\ copies'[l] \in Nat /\ happened'["fault"] \in Nat /\ happened'["drop"] \in Nat
      /\ Waiting(l)' \in {0, 1}
    BY DEF LettersTyped, Events, Waiting
<1> QED BY <1>2, <1>3, <1>4, DeadLettersAssumption, FS_Subset, FS_CardinalityType

\* A step of one request that takes no letter and no audit out of another's hands.
LEMMA HandsKept ==
    ASSUME LettersIInv, NEW q \in Requests, \A p \in Requests \ {q} : admin'[p] = admin[p],
           \A l \in Letters : /\ copies'[l] \in Nat /\ copies'[l] >= copies[l]
                              /\ rows[l] = "succeeded" => rows'[l] = "succeeded",
           \A i \in DOMAIN audits : i \in DOMAIN audits' /\ audits'[i].letter = audits[i].letter,
           \A l \in unacked \ unacked' : admin[q].tag /\ l = Letter(q),
           InOrder(q)',
           admin'[q].tag => \/ admin[q].tag /\ admin'[q].letter = admin[q].letter
                            \/ admin'[q].letter \notin unacked,
           Audited(admin[q])' => \/ Audited(admin[q]) /\ admin'[q].audit = admin[q].audit
                                 \/ admin'[q].audit \notin DOMAIN audits
    PROVE  HandsOff'
<1>1. ASSUME NEW p \in Requests, p # q PROVE InOrder(p)' /\ Apart(p, q)' /\ Apart(q, p)'
  <2>1. admin'[p] = admin[p] /\ InOrder(p) /\ Apart(p, q)
      BY <1>1 DEF LettersIInv, HandsOff
  <2>2. Letter(p)' = Letter(p)
      BY <2>1 DEF Letter
  <2>3. admin[p].tag => Letter(p) \in unacked'
      BY <2>1 DEF InOrder, Apart
  <2>4. admin[p].pc \in {"close", "settle"} =>
            /\ admin[p].outcome = "requeued" => copies'[Letter(p)] > 0
            /\ admin[p].outcome = "zombie_acked" => rows'[Letter(p)] = "succeeded"
    <3>1. SUFFICES ASSUME admin[p].pc \in {"close", "settle"}
                   PROVE  /\ admin[p].outcome = "requeued" => copies'[Letter(p)] > 0
                          /\ admin[p].outcome = "zombie_acked" => rows'[Letter(p)] = "succeeded"
        OBVIOUS
    <3>2. Letter(p) \in Letters
        BY <2>1, <3>1 DEF InOrder, InHand
    <3>3. copies[Letter(p)] \in Nat
        BY <3>2 DEF LettersIInv, LettersTyped
    <3> QED BY <2>1, <3>1, <3>2, <3>3 DEF InOrder
  <2>5. Audited(admin[p]) => /\ admin[p].audit \in DOMAIN audits'
                             /\ audits'[admin[p].audit].letter = Letter(p)
      BY <2>1 DEF InOrder
  <2>6. InOrder(p)'
      BY <2>1, <2>2, <2>3, <2>4, <2>5 DEF InOrder, Audited, Unpublished, Owes
  <2>7. Audited(admin[p])' <=> Audited(admin[p])
      BY <2>1 DEF Audited, Owes
  <2>8. admin'[p].tag /\ admin'[q].tag => admin'[p].letter # admin'[q].letter
    <3>1. admin[p].tag => admin[p].letter \in unacked
        BY <2>1 DEF InOrder, Letter
    <3>2. admin[p].tag /\ admin[q].tag => admin[p].letter # admin[q].letter
        BY <2>1 DEF Apart, Letter
    <3>3. SUFFICES ASSUME admin'[p].tag, admin'[q].tag
                   PROVE  admin'[p].letter # admin'[q].letter
        OBVIOUS
    <3>4. admin[p].tag /\ admin'[p].letter = admin[p].letter
        BY <2>1, <3>3
    <3>5. CASE admin[q].tag /\ admin'[q].letter = admin[q].letter
        BY <3>2, <3>4, <3>5
    <3>6. CASE admin'[q].letter \notin unacked
        BY <3>1, <3>4, <3>6
    <3>7. \/ admin[q].tag /\ admin'[q].letter = admin[q].letter
          \/ admin'[q].letter \notin unacked
        BY <3>3
    <3> QED BY <3>5, <3>6, <3>7
  <2>9. Audited(admin[p])' /\ Audited(admin[q])' => admin'[p].audit # admin'[q].audit
      BY <2>1, <2>7 DEF Apart, InOrder
  <2> QED BY <2>6, <2>8, <2>9 DEF Apart, Letter
<1>2. ASSUME NEW p \in Requests \ {q}, NEW o \in Requests \ {q}, p # o PROVE Apart(p, o)'
  <2>1. admin'[p] = admin[p] /\ admin'[o] = admin[o] /\ Apart(p, o)
      BY <1>2 DEF LettersIInv, HandsOff
  <2> QED BY <2>1 DEF Apart, Letter, Audited, Owes
<1>3. \A p, o \in Requests : p # o => Apart(p, o)'
    BY <1>1, <1>2
<1> QED BY <1>1, <1>3 DEF HandsOff

\* A step of one request that leaves the copies as they are, and their audits.
LEMMA AuditsKept ==
    ASSUME LettersIInv, LettersTyped', NEW q \in Requests,
           \A p \in Requests \ {q} : admin'[p] = admin[p], copies' = copies,
           \A i \in DOMAIN audits :
               /\ i \in DOMAIN audits' /\ audits'[i].letter = audits[i].letter
               /\ audits'[i].status = "requeued" =>
                      \/ audits[i].status = "requeued"
                      \/ Pays(admin[q]) /\ admin[q].audit = i,
           \A i \in DOMAIN audits' \ DOMAIN audits : audits'[i].status # "requeued",
           Owes(admin[q])' => \/ Owes(admin[q]) /\ admin'[q].audit = admin[q].audit
                              \/ admin'[q].audit \notin DOMAIN audits,
           Pays(admin[q])' => Pays(admin[q]) /\ admin'[q].audit = admin[q].audit,
           \A l \in logged' : l \in logged \/ AuditsOf(l) # {}
    PROVE  CopiesAudited'
<1> SUFFICES ASSUME NEW l \in Letters
             PROVE  /\ copies'[l] <= Cardinality(Done(l)')
                    /\ Cardinality(Paid(l)') <= copies'[l]
                    /\ l \in logged' => AuditsOf(l)' # {}
    BY DEF CopiesAudited
<1>1. \A p \in Requests \ {q} : /\ Owes(admin[p])' <=> Owes(admin[p])
                                /\ Pays(admin[p])' <=> Pays(admin[p])
    BY DEF Owes, Pays
<1>2. AuditsOf(l) \subseteq AuditsOf(l)'
    BY DEF AuditsOf
<1>3. Done(l) \subseteq Done(l)'
  <2> SUFFICES ASSUME NEW i \in Done(l), NEW p \in Requests, Owes(admin[p])'
               PROVE  admin'[p].audit # i
      BY <1>2 DEF Done
  <2>1. i \in DOMAIN audits /\ (Owes(admin[p]) => admin[p].audit # i)
      BY DEF Done, AuditsOf
  <2> QED BY <1>1, <2>1
<1>4. Paid(l)' \subseteq Paid(l)
  <2> SUFFICES ASSUME NEW i \in Paid(l)' PROVE i \in Paid(l)
      OBVIOUS
  <2>1. i \in DOMAIN audits' /\ audits'[i].letter = l
      BY DEF Paid, AuditsOf
  <2>2. CASE audits'[i].status = "requeued"
    <3>1. i \in DOMAIN audits /\ audits[i].letter = l
        BY <2>1, <2>2
    <3> QED BY <2>2, <3>1 DEF Paid, AuditsOf
  <2>3. CASE \E p \in Requests : Pays(admin[p])' /\ admin'[p].audit = i
    <3>1. PICK p \in Requests : Pays(admin[p])' /\ admin'[p].audit = i
        BY <2>3
    <3>2. Pays(admin[p]) /\ admin[p].audit = i
        BY <1>1, <3>1
    <3>3. i \in DOMAIN audits
        BY <3>2 DEF LettersIInv, HandsOff, InOrder, Audited, Pays
    <3> QED BY <2>1, <3>2, <3>3 DEF Paid, AuditsOf
  <2> QED BY <2>2, <2>3 DEF Paid
<1>5. LettersTyped /\ copies[l] <= Cardinality(Done(l)) /\ Cardinality(Paid(l)) <= copies[l]
      /\ (l \in logged => AuditsOf(l) # {})
    BY DEF LettersIInv, CopiesAudited
<1>6. IsFiniteSet(Done(l)') /\ Cardinality(Done(l)') \in Nat /\ Cardinality(Paid(l)') \in Nat
    BY LetterCountsAfter
<1>7. copies[l] \in Nat /\ IsFiniteSet(Paid(l)) /\ Cardinality(Done(l)) \in Nat
      /\ Cardinality(Paid(l)) \in Nat
    BY <1>5, LetterCounts
<1>8. Cardinality(Done(l)) <= Cardinality(Done(l)') /\ Cardinality(Paid(l)') <= Cardinality(Paid(l))
    BY <1>3, <1>4, <1>6, <1>7, FS_Subset
<1> QED BY <1>2, <1>5, <1>6, <1>7, <1>8

\* A step of one request from which no further copy can come.
LEMMA ChancesKept ==
    ASSUME LettersIInv, LettersTyped', NEW q \in Requests,
           \A p \in Requests \ {q} : admin'[p] = admin[p],
           copies' = copies, dead' \subseteq dead,
           happened'["fault"] >= happened["fault"], happened'["drop"] >= happened["drop"],
           MayPublish(admin[q])' => MayPublish(admin[q]) /\ admin'[q].letter = admin[q].letter
    PROVE  CopiesBounded'
<1> SUFFICES ASSUME NEW l \in Letters
             PROVE  copies'[l] + Cardinality(Chances(l)') + Waiting(l)'
                        <= 1 + happened'["fault"] + happened'["drop"]
    BY DEF CopiesBounded
<1>1. \A p \in Requests \ {q} : MayPublish(admin[p])' <=> MayPublish(admin[p])
    BY DEF MayPublish, Unpublished, Owes
<1>2. Chances(l)' \subseteq Chances(l)
    BY <1>1 DEF Chances, Letter
<1>3. LettersTyped
    BY DEF LettersIInv
<1>4. /\ copies[l] \in Nat /\ IsFiniteSet(Chances(l)) /\ Cardinality(Chances(l)) \in Nat
      /\ happened["fault"] \in Nat /\ happened["drop"] \in Nat /\ Waiting(l) \in {0, 1}
    BY <1>3, LetterCounts
<1>5. Cardinality(Chances(l)') \in Nat /\ happened'["fault"] \in Nat /\ happened'["drop"] \in Nat
      /\ Waiting(l)' \in {0, 1}
    BY LetterCountsAfter
<1>6. Cardinality(Chances(l)') <= Cardinality(Chances(l))
    BY <1>2, <1>4, FS_Subset
<1>7. Waiting(l)' <= Waiting(l)
    BY DEF Waiting
<1>8. copies[l] + Cardinality(Chances(l)) + Waiting(l) <= 1 + happened["fault"] + happened["drop"]
    BY DEF LettersIInv, CopiesBounded
<1> QED BY <1>4, <1>5, <1>6, <1>7, <1>8

\* A request that goes on, or ends, without touching letters, rows or audits.
LEMMA RequestMoves ==
    ASSUME LettersIInv, NEW q \in Requests, NEW next \in Request,
           admin' = [admin EXCEPT ![q] = next],
           UNCHANGED <<dead, unacked, copies, rows, audits, logged>>,
           happened' \in [Events -> Nat],
           happened'["fault"] >= happened["fault"], happened'["drop"] >= happened["drop"],
           next.tag => admin[q].tag /\ next.letter = Letter(q) /\ next.pc \in InHand,
           next.pc \in InHand \cup {"wipe", "log"} => next.letter \in Letters,
           Unpublished(next) => next.outcome = "publish_failed",
           next.pc \in {"close", "settle"} =>
               /\ next.outcome # "requeued"
               /\ next.outcome = "zombie_acked" => rows[next.letter] = "succeeded",
           Audited(next) => /\ Audited(admin[q]) /\ next.audit = admin[q].audit
                            /\ next.letter = Letter(q),
           Owes(next) => Owes(admin[q]),
           MayPublish(next) => MayPublish(admin[q]) /\ next.letter = Letter(q)
    PROVE  LettersIInv'
<1>1. (\A p \in Requests \ {q} : admin'[p] = admin[p]) /\ admin'[q] = next
      /\ admin' \in [Requests -> Request]
    BY DEF LettersIInv, LettersTyped
<1>2. LettersTyped'
    BY <1>1 DEF LettersIInv, LettersTyped
<1>3. InOrder(q)'
  <2>1. Letter(q)' = next.letter /\ InOrder(q)
      BY <1>1 DEF Letter, LettersIInv, HandsOff
  <2>2. next.tag => next.letter \in unacked'
      BY <2>1 DEF InOrder
  <2>3. Audited(next) => next.audit \in DOMAIN audits' /\ audits'[next.audit].letter = next.letter
      BY <2>1 DEF InOrder
  <2>4. /\ Audited(admin[q])' <=> Audited(next)
        /\ Unpublished(admin[q])' <=> Unpublished(next)
      BY <1>1 DEF Audited, Unpublished, Owes
  <2> QED BY <1>1, <2>1, <2>2, <2>3, <2>4 DEF InOrder
<1>4. \A l \in Letters : copies[l] \in Nat
    BY DEF LettersIInv, LettersTyped
<1>5. HandsOff'
  <2>1. Audited(admin[q])' => Audited(admin[q]) /\ admin'[q].audit = admin[q].audit
      BY <1>1 DEF Audited, Owes
  <2> QED BY <1>1, <1>3, <1>4, <2>1, HandsKept DEF Letter
<1>6. NoLetterVanishes'
    BY DEF LettersIInv, NoLetterVanishes
<1>7. CopiesAudited'
  <2>1. Owes(admin[q])' => Owes(admin[q]) /\ admin'[q].audit = admin[q].audit
      BY <1>1 DEF Owes, Audited
  <2>2. ~Pays(admin[q])'
      BY <1>1 DEF Pays
  <2>3. \A l \in logged : l \in Letters
      BY DEF LettersIInv, LettersTyped
  <2> QED BY <1>1, <1>2, <2>1, <2>2, AuditsKept
<1>8. CopiesBounded'
  <2>1. MayPublish(admin[q])' => MayPublish(admin[q]) /\ admin'[q].letter = admin[q].letter
      BY <1>1 DEF MayPublish, Unpublished, Owes, Letter
  <2> QED BY <1>1, <1>2, <2>1, ChancesKept
<1> QED BY <1>2, <1>5, <1>6, <1>7, <1>8 DEF LettersIInv

\* What Raise leaves.
LEMMA RaiseEffect ==
    ASSUME admin \in [Requests -> Request], NEW q \in Requests, Then(q, NoRequest)
    PROVE  admin' = [admin EXCEPT ![q] = NoRequest]
<1>1. admin'[q] = NoRequest
    BY ThenEffect DEF NoRequest
<1> QED BY <1>1, ThenEffect

\* What is left of a request that raised: nothing.
LEMMA RequestEnds ==
    ASSUME LettersIInv, NEW q \in Requests, Then(q, NoRequest),
           UNCHANGED <<dead, unacked, copies, rows, audits, logged>>,
           happened' \in [Events -> Nat],
           happened'["fault"] >= happened["fault"], happened'["drop"] >= happened["drop"]
    PROVE  LettersIInv'
<1>1. admin' = [admin EXCEPT ![q] = NoRequest] /\ NoRequest \in Request
    BY RaiseEffect, NoRequestIsOne DEF LettersIInv, LettersTyped
<1>2. NoRequest.pc = "idle" /\ ~NoRequest.tag
    BY DEF NoRequest
<1> HIDE DEF NoRequest
<1>3. ~Owes(NoRequest) /\ ~Audited(NoRequest) /\ ~Unpublished(NoRequest) /\ ~MayPublish(NoRequest)
      /\ NoRequest.pc \notin InHand \cup {"wipe", "log"}
    BY <1>2 DEF Owes, Audited, Unpublished, MayPublish, InHand
<1> QED BY <1>1, <1>2, <1>3, RequestMoves

--------------------------------------------------------------------------------
\* A request begins.
LEMMA RequestBegins ==
    ASSUME LettersIInv, NEW q \in Requests, RequeueLetters(q) \/ ClearIdempotent(q)
    PROVE  LettersIInv'
<1>1. /\ admin[q].pc = "idle" /\ UNCHANGED <<dead, unacked, copies, rows, audits, logged>>
      /\ Happens("request") /\ admin \in [Requests -> Request] /\ admin[q] \in Request
    BY DEF RequeueLetters, ClearIdempotent, On, LettersIInv, LettersTyped
<1>2. /\ happened' \in [Events -> Nat] /\ happened["fault"] \in Nat /\ happened["drop"] \in Nat
      /\ happened'["fault"] = happened["fault"] /\ happened'["drop"] = happened["drop"]
    BY <1>1, HappensEffect DEF Events, LettersIInv, LettersTyped
<1>3. ~admin[q].tag
    BY <1>1 DEF LettersIInv, HandsOff, InOrder, InHand
<1>4. /\ admin' = [admin EXCEPT ![q] = admin'[q]] /\ admin'[q] \in Request
      /\ admin'[q].pc \in {"get", "wipe"} /\ admin'[q].tag = admin[q].tag
      /\ admin'[q].pc = "wipe" => admin'[q].letter \in Letters
  <2>1. CASE RequeueLetters(q)
    <3>1. PICK limit \in 1 .. MaxBatch, clear \in BOOLEAN :
              Then(q, [pc |-> "get", left |-> limit, clear |-> clear])
        BY <2>1 DEF RequeueLetters
    <3>2. /\ \A p \in Requests \ {q} : admin'[p] = admin[p]
          /\ admin' = [p \in Requests |-> admin'[p]]
          /\ admin'[q] = [f \in {"pc", "letter", "left", "clear", "tag", "audit", "outcome"} |->
                IF f \in {"pc", "left", "clear"}
                THEN [pc |-> "get", left |-> limit, clear |-> clear][f] ELSE admin[q][f]]
        BY <1>1, <3>1, ThenEffect
    <3> QED BY <1>1, <3>2, DeadLettersAssumption DEF Request, Steps
  <2>2. CASE ClearIdempotent(q)
    <3>1. PICK l \in Letters : Then(q, [pc |-> "wipe", letter |-> l])
        BY <2>2 DEF ClearIdempotent
    <3>2. /\ \A p \in Requests \ {q} : admin'[p] = admin[p]
          /\ admin' = [p \in Requests |-> admin'[p]]
          /\ admin'[q] = [f \in {"pc", "letter", "left", "clear", "tag", "audit", "outcome"} |->
                IF f \in {"pc", "letter"}
                THEN [pc |-> "wipe", letter |-> l][f] ELSE admin[q][f]]
        BY <1>1, <3>1, ThenEffect
    <3> QED BY <1>1, <3>2 DEF Request, Steps
  <2> QED BY <2>1, <2>2
<1>5. PICK next \in Request : next = admin'[q]
    BY <1>4
<1>6. ~Owes(next) /\ ~Audited(next) /\ ~Unpublished(next) /\ ~MayPublish(next)
      /\ next.pc \notin InHand
    BY <1>4, <1>5 DEF Owes, Audited, Unpublished, MayPublish, InHand
<1>7. admin' = [admin EXCEPT ![q] = next] /\ ~next.tag /\ next.pc \in {"get", "wipe"}
      /\ (next.pc = "wipe" => next.letter \in Letters)
    BY <1>3, <1>4, <1>5
<1>8. /\ next.pc \in InHand \cup {"wipe", "log"} => next.letter \in Letters
      /\ next.pc \notin {"close", "settle"}
    BY <1>6, <1>7
<1>9. happened'["fault"] >= happened["fault"] /\ happened'["drop"] >= happened["drop"]
    BY <1>2
<1> QED BY <1>1, <1>2, <1>6, <1>7, <1>8, <1>9, RequestMoves

\* One that has asked for a letter and gets none, that clears or routes, that raises.
LEMMA RequestGoesOn ==
    ASSUME LettersIInv, NEW q \in Requests, Clear(q) \/ Route(q) PROVE LettersIInv'
<1>1. /\ UNCHANGED <<dead, unacked, copies, rows, audits, logged, happened>>
      /\ admin \in [Requests -> Request] /\ admin[q] \in Request /\ InOrder(q)
    BY DEF Clear, Route, LettersIInv, LettersTyped, HandsOff
<1>2. /\ happened' \in [Events -> Nat]
      /\ happened'["fault"] >= happened["fault"] /\ happened'["drop"] >= happened["drop"]
    BY <1>1 DEF LettersIInv, LettersTyped, Events
<1>3. CASE Then(q, NoRequest)
    BY <1>1, <1>2, <1>3, RequestEnds
<1>4. CASE ~Then(q, NoRequest)
  <2>1. PICK pc \in {"close", "delete", "publish"}, outcome \in {"publish_failed", "zombie_acked"} :
          /\ Owes(admin[q])
          /\ admin' = [admin EXCEPT ![q] = [admin[q] EXCEPT !.pc = pc, !.outcome = outcome]]
          /\ pc # "close" => outcome = "publish_failed"
          /\ outcome = "zombie_acked" => rows[Letter(q)] = "succeeded"
    <3>1. admin[q].pc \in {"clear", "route"} /\ Owes(admin[q]) /\ admin[q].outcome = "publish_failed"
        BY <1>1 DEF Clear, Route, On, Owes, InOrder, Unpublished
    <3>2. CASE Then(q, [pc |-> "close", outcome |-> "zombie_acked"]) /\ rows[Letter(q)] = "succeeded"
      <4>1. /\ \A p \in Requests \ {q} : admin'[p] = admin[p]
            /\ admin' = [p \in Requests |-> admin'[p]]
            /\ admin'[q] = [f \in {"pc", "letter", "left", "clear", "tag", "audit", "outcome"} |->
                  IF f \in {"pc", "outcome"}
                  THEN [pc |-> "close", outcome |-> "zombie_acked"][f] ELSE admin[q][f]]
          BY <1>1, <3>2, ThenEffect
      <4>2. admin'[q] = [admin[q] EXCEPT !.pc = "close", !.outcome = "zombie_acked"]
          BY <1>1, <4>1 DEF Request
      <4> QED BY <1>1, <3>1, <3>2, <4>1, <4>2
    <3>3. ASSUME NEW pc \in {"close", "delete", "publish"}, Then(q, [pc |-> pc])
          PROVE  admin' = [admin EXCEPT ![q] =
                             [admin[q] EXCEPT !.pc = pc, !.outcome = "publish_failed"]]
      <4>1. /\ \A p \in Requests \ {q} : admin'[p] = admin[p]
            /\ admin' = [p \in Requests |-> admin'[p]]
            /\ admin'[q] = [f \in {"pc", "letter", "left", "clear", "tag", "audit", "outcome"} |->
                  IF f \in {"pc"} THEN [pc |-> pc][f] ELSE admin[q][f]]
          BY <1>1, <3>3, ThenEffect
      <4>2. admin'[q] = [admin[q] EXCEPT !.pc = pc, !.outcome = "publish_failed"]
          BY <1>1, <3>1, <4>1, ZenonT(40) DEF Request
      <4>3. PICK next : next = [admin[q] EXCEPT !.pc = pc, !.outcome = "publish_failed"]
          OBVIOUS
      <4>4. admin' = [admin EXCEPT ![q] = next]
          BY <1>1, <4>1, <4>2, <4>3
      <4> QED BY <4>3, <4>4
    <3>4. \/ Then(q, [pc |-> "close", outcome |-> "zombie_acked"]) /\ rows[Letter(q)] = "succeeded"
          \/ \E pc \in {"close", "delete", "publish"} : Then(q, [pc |-> pc])
        BY <1>4 DEF Clear, Route, Raise
    <3> QED BY <3>1, <3>2, <3>3, <3>4
  <2>2. PICK next \in Request : next = [admin[q] EXCEPT !.pc = pc, !.outcome = outcome]
      BY <1>1 DEF Request, Steps, Outcomes
  <2>3. next.pc = pc /\ next.outcome = outcome /\ next.letter = Letter(q) /\ next.tag = admin[q].tag
        /\ next.audit = admin[q].audit /\ admin' = [admin EXCEPT ![q] = next]
      BY <1>1, <2>1, <2>2 DEF Request, Letter
  <2>4. Letter(q) \in Letters
      BY <1>1, <2>1 DEF InOrder, InHand, Owes
  <2>5. next.pc \in InHand /\ Owes(admin[q]) /\ Audited(admin[q]) /\ MayPublish(admin[q])
      BY <2>1, <2>3 DEF InHand, Audited, MayPublish, Unpublished
  <2>6. Unpublished(next) => next.outcome = "publish_failed"
      BY <2>1, <2>3 DEF Unpublished, Owes
  <2>7. next.outcome # "requeued" /\ (next.outcome = "zombie_acked" => rows[next.letter] = "succeeded")
      BY <2>1, <2>3
  <2>8. next.tag => admin[q].tag /\ next.letter = Letter(q) /\ next.pc \in InHand
      BY <2>3, <2>5
  <2> QED BY <1>1, <1>2, <2>3, <2>4, <2>5, <2>6, <2>7, <2>8, RequestMoves
<1> QED BY <1>3, <1>4

\* One chance more, or one less.
LEMMA ChancesChange ==
    ASSUME LettersTyped, NEW l \in Letters, NEW q \in Requests
    PROVE  /\ Chances(l)' \subseteq Chances(l) \cup {q}
                  => Cardinality(Chances(l)') <= Cardinality(Chances(l)) + 1
           /\ q \in Chances(l) /\ Chances(l)' \subseteq Chances(l) \ {q}
                  => Cardinality(Chances(l)') <= Cardinality(Chances(l)) - 1
<1>1. IsFiniteSet(Chances(l)) /\ Cardinality(Chances(l)) \in Nat
    BY LetterCounts
<1>2. Chances(l)' \subseteq Chances(l) \cup {q}
          => Cardinality(Chances(l)') <= Cardinality(Chances(l)) + 1
    BY <1>1, OneMore
<1>3. /\ IsFiniteSet(Chances(l) \ {q})
      /\ q \in Chances(l) => Cardinality(Chances(l) \ {q}) = Cardinality(Chances(l)) - 1
    BY <1>1, FS_RemoveElement
<1>4. ASSUME q \in Chances(l), Chances(l)' \subseteq Chances(l) \ {q}
      PROVE  Cardinality(Chances(l)') <= Cardinality(Chances(l)) - 1
  <2>1. Cardinality(Chances(l)') <= Cardinality(Chances(l) \ {q})
      BY <1>3, <1>4, FS_Subset
  <2> QED BY <1>3, <1>4, <2>1
<1> QED BY <1>2, <1>4

LEMMA LetterIsTaken ==
    ASSUME LettersIInv, NEW q \in Requests, Get(q) PROVE LettersIInv'
<1>1. /\ admin[q].pc = "get" /\ UNCHANGED <<copies, rows, audits, logged, happened>>
      /\ admin \in [Requests -> Request] /\ admin[q] \in Request
      /\ happened["fault"] \in Nat /\ happened["drop"] \in Nat
    BY DEF Get, On, LettersIInv, LettersTyped, Events
<1>2. CASE Then(q, NoRequest) /\ UNCHANGED <<dead, unacked>>
  <2>1. happened' \in [Events -> Nat]
      BY <1>1 DEF LettersIInv, LettersTyped
  <2>2. happened'["fault"] >= happened["fault"] /\ happened'["drop"] >= happened["drop"]
      BY <1>1
  <2> QED BY <1>1, <1>2, <2>1, <2>2, RequestEnds
<1>3. CASE ~(Then(q, NoRequest) /\ UNCHANGED <<dead, unacked>>)
  <2>1. PICK l \in dead :
          /\ admin[q].left # 0
          /\ dead' = dead \ {l} /\ unacked' = unacked \cup {l}
          /\ Then(q, [letter |-> l, left |-> admin[q].left - 1, tag |-> TRUE,
                      outcome |-> "publish_failed",
                      pc |-> IF Body[l] = "unreadable" THEN "settle" ELSE "open"])
      BY <1>3 DEF Get
  <2>2. PICK pc \in {"open", "settle"} : pc = IF Body[l] = "unreadable" THEN "settle" ELSE "open"
      OBVIOUS
  <2> DEFINE new == [letter |-> l, left |-> admin[q].left - 1, tag |-> TRUE,
                     outcome |-> "publish_failed", pc |-> pc]
  <2>3. /\ \A p \in Requests \ {q} : admin'[p] = admin[p]
        /\ admin' = [p \in Requests |-> admin'[p]]
        /\ admin'[q] = [f \in {"pc", "letter", "left", "clear", "tag", "audit", "outcome"} |->
              IF f \in {"letter", "left", "tag", "outcome", "pc"} THEN new[f] ELSE admin[q][f]]
      BY <1>1, <2>1, <2>2, ThenEffect
  <2>4. l \in Letters /\ l \notin unacked
      BY DEF LettersIInv, LettersTyped
  <2>5. admin[q].left - 1 \in 0 .. MaxBatch
      BY <1>1, <2>1, DeadLettersAssumption DEF Request
  <2>6. /\ admin'[q] \in Request /\ admin'[q].tag /\ admin'[q].letter = l
        /\ admin'[q].outcome = "publish_failed" /\ admin'[q].pc = pc
      BY <1>1, <2>3, <2>4, <2>5 DEF Request, Steps, Outcomes
  <2>7. LettersTyped'
    <3>1. admin' \in [Requests -> Request]
        BY <1>1, <2>1, <2>6, ThenEffect
    <3> QED BY <1>1, <2>1, <2>4, <3>1 DEF LettersIInv, LettersTyped
  <2>8. InOrder(q)'
      BY <2>1, <2>4, <2>6 DEF InOrder, Letter, InHand, Audited, Owes
  <2>9. \A m \in Letters : copies[m] \in Nat
      BY DEF LettersIInv, LettersTyped
  <2>10. ~Audited(admin[q])' /\ ~Owes(admin[q])' /\ ~Pays(admin[q])'
      BY <2>6 DEF Audited, Owes, Pays
  <2>11. HandsOff'
    <3>1. unacked \ unacked' = {}
        BY <2>1
    <3> QED BY <1>1, <2>3, <2>4, <2>6, <2>8, <2>9, <2>10, <3>1, HandsKept
  <2>12. NoLetterVanishes'
      BY <1>1, <2>1 DEF LettersIInv, NoLetterVanishes
  <2>13. CopiesAudited'
      BY <1>1, <2>3, <2>7, <2>10, AuditsKept
  <2>14. CopiesBounded'
    <3> SUFFICES ASSUME NEW m \in Letters
                 PROVE  copies'[m] + Cardinality(Chances(m)') + Waiting(m)'
                            <= 1 + happened'["fault"] + happened'["drop"]
        BY DEF CopiesBounded
    <3>1. /\ copies[m] \in Nat /\ Cardinality(Chances(m)) \in Nat /\ IsFiniteSet(Chances(m))
          /\ Waiting(m) \in {0, 1} /\ Cardinality(Chances(m)') \in Nat
          /\ copies[m] + Cardinality(Chances(m)) + Waiting(m)
                 <= 1 + happened["fault"] + happened["drop"]
        BY <2>7, LetterCounts, LetterCountsAfter DEF LettersIInv, CopiesBounded
    <3>2. \A p \in Requests \ {q} : p \in Chances(m)' <=> p \in Chances(m)
        BY <2>3 DEF Chances, Letter, MayPublish, Unpublished, Owes
    <3>3. CASE m = l
      <4>1. Chances(m)' \subseteq Chances(m) \cup {q}
          BY <3>2 DEF Chances
      <4>2. Cardinality(Chances(m)') <= Cardinality(Chances(m)) + 1
          BY <4>1, ChancesChange DEF LettersIInv
      <4>3. Waiting(m) = 1 /\ Waiting(m)' = 0
          BY <2>1, <3>3 DEF Waiting
      <4> QED BY <1>1, <3>1, <4>2, <4>3
    <3>4. CASE m # l
      <4>1. q \notin Chances(m)'
          BY <2>6, <3>4 DEF Chances, Letter
      <4>2. Chances(m)' \subseteq Chances(m)
          BY <3>2, <4>1 DEF Chances
      <4>3. Cardinality(Chances(m)') <= Cardinality(Chances(m))
          BY <3>1, <4>2, FS_Subset
      <4>4. Waiting(m) = Waiting(m)'
          BY <2>1, <3>4 DEF Waiting
      <4> QED BY <1>1, <3>1, <4>3, <4>4
    <3> QED BY <3>3, <3>4
  <2> QED BY <2>7, <2>11, <2>12, <2>13, <2>14 DEF LettersIInv
<1> QED BY <1>2, <1>3

\* Another entry in the audit leaves the others as they are.
LEMMA AuditEffect ==
    ASSUME LettersTyped, NEW l \in Letters, NEW status, Audit(l, status),
           status \in {"cleared", "already_succeeded"}
    PROVE  /\ audits' \in Seq(Entry) /\ Len(audits') = Len(audits) + 1
           /\ Len(audits') \in DOMAIN audits' \ DOMAIN audits
           /\ audits'[Len(audits')] = [letter |-> l, status |-> status]
           /\ \A i \in DOMAIN audits : i \in DOMAIN audits' /\ audits'[i] = audits[i]
           /\ \A i \in DOMAIN audits' \ DOMAIN audits : audits'[i].status # "requeued"
<1> DEFINE entry == [letter |-> l, status |-> status]
<1>1. audits \in Seq(Entry) /\ entry \in Entry /\ entry.status # "requeued"
    BY DEF LettersTyped, Entry
<1>2. audits' = Append(audits, entry)
    BY DEF Audit
<1> HIDE DEF entry
<1>3. /\ audits' \in Seq(Entry) /\ Len(audits) \in Nat /\ Len(audits') = Len(audits) + 1
      /\ DOMAIN audits = 1 .. Len(audits) /\ DOMAIN audits' = 1 .. Len(audits) + 1
      /\ audits'[Len(audits) + 1] = entry
      /\ \A i \in 1 .. Len(audits) : audits'[i] = audits[i]
    BY <1>1, <1>2
<1>4. Len(audits) + 1 \in DOMAIN audits' \ DOMAIN audits
      /\ \A i \in DOMAIN audits' \ DOMAIN audits : i = Len(audits) + 1
    BY <1>3
<1> QED BY <1>1, <1>3, <1>4 DEF entry

LEMMA AuditIsOpened ==
    ASSUME LettersIInv, NEW q \in Requests, OpenAudit(q) PROVE LettersIInv'
<1>1. /\ admin[q].pc = "open" /\ UNCHANGED <<dead, unacked, copies, rows, logged, happened>>
      /\ admin \in [Requests -> Request] /\ admin[q] \in Request
      /\ happened["fault"] \in Nat /\ happened["drop"] \in Nat /\ InOrder(q)
    BY DEF OpenAudit, On, LettersIInv, LettersTyped, Events, HandsOff
<1>2. Letter(q) \in Letters /\ admin[q].outcome = "publish_failed" /\ LettersTyped
    BY <1>1 DEF InOrder, InHand, Unpublished, LettersIInv
<1>3. Audit(Letter(q), "cleared")
    BY DEF OpenAudit
<1>4. /\ audits' \in Seq(Entry) /\ Len(audits') \in DOMAIN audits' \ DOMAIN audits
      /\ audits'[Len(audits')] = [letter |-> Letter(q), status |-> "cleared"]
      /\ \A i \in DOMAIN audits : i \in DOMAIN audits' /\ audits'[i] = audits[i]
      /\ \A i \in DOMAIN audits' \ DOMAIN audits : audits'[i].status # "requeued"
    BY <1>2, <1>3, AuditEffect
<1>5. PICK n \in Nat, pc \in {"clear", "route"} :
          /\ n = Len(audits') /\ pc = IF admin[q].clear THEN "clear" ELSE "route"
    BY <1>4
<1>6. Then(q, [audit |-> n, pc |-> pc])
    BY <1>5 DEF OpenAudit
<1>7. /\ \A p \in Requests \ {q} : admin'[p] = admin[p]
      /\ admin' = [p \in Requests |-> admin'[p]]
      /\ admin'[q] = [f \in {"pc", "letter", "left", "clear", "tag", "audit", "outcome"} |->
            IF f \in {"audit", "pc"} THEN [audit |-> n, pc |-> pc][f] ELSE admin[q][f]]
    BY <1>1, <1>6, ThenEffect
<1>8. /\ admin'[q] \in Request /\ admin'[q].pc = pc /\ admin'[q].audit = n
      /\ admin'[q].letter = admin[q].letter /\ admin'[q].tag = admin[q].tag
      /\ admin'[q].outcome = "publish_failed"
    BY <1>1, <1>2, <1>7 DEF Request, Steps
<1>9. LettersTyped'
  <2>1. admin' \in [Requests -> Request]
      BY <1>1, <1>6, <1>8, ThenEffect
  <2> QED BY <1>1, <1>2, <1>4, <2>1 DEF LettersTyped
<1>10. InOrder(q)'
  <2>1. n \in DOMAIN audits' /\ audits'[n].letter = Letter(q)
      BY <1>4, <1>5
  <2>2. admin[q].tag => Letter(q) \in unacked
      BY <1>1 DEF InOrder
  <2> QED BY <1>1, <1>2, <1>8, <2>1, <2>2 DEF InOrder, Letter, InHand
<1>11. \A m \in Letters : copies[m] \in Nat
    BY <1>2 DEF LettersTyped
<1>12. HandsOff'
    BY <1>1, <1>4, <1>5, <1>7, <1>8, <1>10, <1>11, HandsKept
<1>13. NoLetterVanishes'
    BY <1>1 DEF LettersIInv, NoLetterVanishes
<1>14. CopiesAudited'
  <2>1. ~Pays(admin[q])' /\ admin'[q].audit \notin DOMAIN audits
      BY <1>4, <1>5, <1>8 DEF Pays
  <2> QED BY <1>1, <1>4, <1>7, <1>9, <2>1, AuditsKept
<1>15. CopiesBounded'
  <2>1. MayPublish(admin[q])
      BY <1>1 DEF MayPublish, Unpublished
  <2>2. happened'["fault"] >= happened["fault"] /\ happened'["drop"] >= happened["drop"]
      BY <1>1
  <2> QED BY <1>1, <1>7, <1>8, <1>9, <2>1, <2>2, ChancesKept
<1> QED BY <1>9, <1>12, <1>13, <1>14, <1>15 DEF LettersIInv

\* A step of one request that has the letter and the audit it had, and makes no copy.
LEMMA RequestStays ==
    ASSUME LettersIInv, LettersTyped', NEW q \in Requests, InOrder(q)',
           \A p \in Requests \ {q} : admin'[p] = admin[p],
           UNCHANGED <<dead, unacked, copies, happened>>,
           \A l \in Letters : rows[l] = "succeeded" => rows'[l] = "succeeded",
           \A i \in DOMAIN audits :
               /\ i \in DOMAIN audits' /\ audits'[i].letter = audits[i].letter
               /\ audits'[i].status = "requeued" =>
                      \/ audits[i].status = "requeued"
                      \/ Pays(admin[q]) /\ admin[q].audit = i,
           \A i \in DOMAIN audits' \ DOMAIN audits : audits'[i].status # "requeued",
           \A l \in logged' : l \in logged \/ AuditsOf(l) # {},
           admin'[q].tag => admin[q].tag /\ admin'[q].letter = admin[q].letter,
           Audited(admin[q])' => Audited(admin[q]) /\ admin'[q].audit = admin[q].audit,
           Owes(admin[q])' => Owes(admin[q]), Pays(admin[q])' => Pays(admin[q]),
           MayPublish(admin[q])' => MayPublish(admin[q]) /\ admin'[q].letter = admin[q].letter
    PROVE  LettersIInv'
<1>1. \A l \in Letters : copies[l] \in Nat
    BY DEF LettersIInv, LettersTyped
<1>2. happened["fault"] \in Nat /\ happened["drop"] \in Nat
    BY DEF LettersIInv, LettersTyped, Events
<1>3. HandsOff'
    BY <1>1, HandsKept
<1>4. NoLetterVanishes'
    BY DEF LettersIInv, NoLetterVanishes
<1>5. CopiesAudited'
  <2>1. /\ Owes(admin[q])' => Owes(admin[q]) /\ admin'[q].audit = admin[q].audit
        /\ Pays(admin[q])' => Pays(admin[q]) /\ admin'[q].audit = admin[q].audit
      BY DEF Audited, Pays
  <2> QED BY <2>1, AuditsKept
<1>6. CopiesBounded'
    BY <1>2, ChancesKept
<1> QED BY <1>3, <1>4, <1>5, <1>6 DEF LettersIInv

LEMMA RowIsDeleted ==
    ASSUME LettersIInv, NEW q \in Requests, Delete(q) PROVE LettersIInv'
<1>1. /\ admin[q].pc = "delete" /\ UNCHANGED <<dead, unacked, copies, audits, happened>>
      /\ admin \in [Requests -> Request] /\ admin[q] \in Request /\ InOrder(q) /\ LettersTyped
      /\ Then(q, [pc |-> "route"])
    BY DEF Delete, On, LettersIInv, LettersTyped, HandsOff
<1>2. /\ Letter(q) \in Letters /\ admin[q].outcome = "publish_failed"
      /\ admin[q].audit \in DOMAIN audits /\ audits[admin[q].audit].letter = Letter(q)
    BY <1>1 DEF InOrder, InHand, Unpublished, Audited, Owes
<1>3. /\ \A p \in Requests \ {q} : admin'[p] = admin[p]
      /\ admin'[q] = [f \in {"pc", "letter", "left", "clear", "tag", "audit", "outcome"} |->
            IF f \in {"pc"} THEN [pc |-> "route"][f] ELSE admin[q][f]]
    BY <1>1, ThenEffect
<1>4. /\ admin'[q] \in Request /\ admin'[q].pc = "route" /\ admin'[q].audit = admin[q].audit
      /\ admin'[q].letter = admin[q].letter /\ admin'[q].tag = admin[q].tag
      /\ admin'[q].outcome = "publish_failed"
    BY <1>1, <1>2, <1>3 DEF Request, Steps
<1>5. /\ rows' \in [Letters -> {"none", "open", "succeeded"}] /\ logged' \subseteq Letters
      /\ \A l \in Letters : rows[l] = "succeeded" => rows'[l] = "succeeded"
      /\ \A l \in logged' : l \in logged \/ l = Letter(q)
  <2>1. CASE rows[Letter(q)] = "open"
      BY <1>1, <1>2, <2>1 DEF Delete, LettersTyped
  <2>2. CASE rows[Letter(q)] # "open"
      BY <1>1, <1>2, <2>2 DEF Delete, LettersTyped
  <2> QED BY <2>1, <2>2
<1>6. AuditsOf(Letter(q)) # {}
    BY <1>2 DEF AuditsOf
<1>7. LettersTyped'
  <2>1. admin' \in [Requests -> Request]
      BY <1>1, <1>4, ThenEffect
  <2> QED BY <1>1, <1>5, <2>1 DEF LettersTyped
<1>8. InOrder(q)'
  <2>1. admin[q].tag => Letter(q) \in unacked
      BY <1>1 DEF InOrder
  <2> QED BY <1>1, <1>2, <1>4, <2>1 DEF InOrder, Letter, InHand
<1>9. Audited(admin[q]) /\ Owes(admin[q]) /\ MayPublish(admin[q]) /\ ~Pays(admin[q])'
    BY <1>1, <1>4 DEF Audited, Owes, MayPublish, Unpublished, Pays
<1>10. \A i \in DOMAIN audits : audits'[i] = audits[i]
    BY <1>1
<1> QED BY <1>1, <1>3, <1>4, <1>5, <1>6, <1>7, <1>8, <1>9, <1>10, RequestStays

LEMMA AuditIsClosed ==
    ASSUME LettersIInv, NEW q \in Requests, CloseAudit(q) PROVE LettersIInv'
<1>1. /\ admin[q].pc = "close" /\ UNCHANGED <<dead, unacked, copies, rows, logged, happened>>
      /\ admin \in [Requests -> Request] /\ admin[q] \in Request /\ InOrder(q) /\ LettersTyped
      /\ audits' = [audits EXCEPT ![admin[q].audit].status = admin[q].outcome]
      /\ Then(q, [pc |-> "settle"])
    BY DEF CloseAudit, On, LettersIInv, LettersTyped, HandsOff
<1>2. PICK n \in DOMAIN audits : n = admin[q].audit /\ audits[n].letter = Letter(q)
    BY <1>1 DEF InOrder, Audited
<1>3. Letter(q) \in Letters
    BY <1>1 DEF InOrder, InHand
<1>4. /\ \A p \in Requests \ {q} : admin'[p] = admin[p]
      /\ admin'[q] = [f \in {"pc", "letter", "left", "clear", "tag", "audit", "outcome"} |->
            IF f \in {"pc"} THEN [pc |-> "settle"][f] ELSE admin[q][f]]
    BY <1>1, ThenEffect
<1>5. /\ admin'[q] \in Request /\ admin'[q].pc = "settle" /\ admin'[q].audit = admin[q].audit
      /\ admin'[q].letter = admin[q].letter /\ admin'[q].tag = admin[q].tag
      /\ admin'[q].outcome = admin[q].outcome
    BY <1>1, <1>4 DEF Request, Steps
<1>6. /\ audits \in Seq(Entry) /\ audits[n] \in Entry /\ admin[q].outcome \in Outcomes
    BY <1>1, <1>2 DEF LettersTyped, Request
<1>7. /\ DOMAIN audits' = DOMAIN audits
      /\ \A i \in DOMAIN audits \ {n} : audits'[i] = audits[i]
      /\ audits'[n] = [letter |-> audits[n].letter, status |-> admin[q].outcome]
      /\ audits' \in Seq(Entry)
  <2>1. [audits[n] EXCEPT !.status = admin[q].outcome]
            = [letter |-> audits[n].letter, status |-> admin[q].outcome]
      BY <1>6 DEF Entry
  <2>2. [letter |-> audits[n].letter, status |-> admin[q].outcome] \in Entry
      BY <1>6 DEF Entry
  <2>3. audits' = [audits EXCEPT ![n] = [letter |-> audits[n].letter, status |-> admin[q].outcome]]
      BY <1>1, <1>2, <2>1
  <2> QED BY <1>6, <2>2, <2>3
<1>8. LettersTyped'
  <2>1. admin' \in [Requests -> Request]
      BY <1>1, <1>5, ThenEffect
  <2> QED BY <1>1, <1>7, <2>1 DEF LettersTyped
<1>9. InOrder(q)'
  <2>1. /\ admin[q].tag => Letter(q) \in unacked
        /\ admin[q].outcome = "requeued" => copies[Letter(q)] > 0
        /\ admin[q].outcome = "zombie_acked" => rows[Letter(q)] = "succeeded"
      BY <1>1 DEF InOrder
  <2>2. ~Audited(admin[q])' /\ ~Unpublished(admin[q])'
      BY <1>5 DEF Audited, Unpublished, Owes
  <2> QED BY <1>1, <1>3, <1>5, <2>1, <2>2 DEF InOrder, Letter, InHand
<1>10. \A i \in DOMAIN audits :
           /\ i \in DOMAIN audits' /\ audits'[i].letter = audits[i].letter
           /\ audits'[i].status = "requeued" =>
                 \/ audits[i].status = "requeued"
                 \/ Pays(admin[q]) /\ admin[q].audit = i
    BY <1>1, <1>2, <1>7 DEF Pays
<1>11. /\ ~Audited(admin[q])' /\ ~Owes(admin[q])' /\ ~Pays(admin[q])'
       /\ MayPublish(admin[q])' => MayPublish(admin[q])
    BY <1>1, <1>5 DEF Audited, Owes, MayPublish, Unpublished, Pays
<1> QED BY <1>1, <1>4, <1>5, <1>7, <1>8, <1>9, <1>10, <1>11, RequestStays

LEMMA RowsAreWiped ==
    ASSUME LettersIInv, NEW q \in Requests, WipeOne(q) \/ WipeTrace(q) PROVE LettersIInv'
<1>1. /\ admin[q].pc = "wipe" /\ UNCHANGED <<dead, unacked, copies, audits, logged, happened>>
      /\ admin \in [Requests -> Request] /\ admin[q] \in Request /\ InOrder(q) /\ LettersTyped
    BY DEF WipeOne, WipeTrace, On, LettersIInv, LettersTyped, HandsOff
<1>2. Letter(q) \in Letters /\ ~admin[q].tag
    BY <1>1 DEF InOrder, InHand
<1>3. PICK clear \in BOOLEAN : Then(q, [pc |-> "log", clear |-> clear])
    BY DEF WipeOne, WipeTrace
<1>4. /\ \A p \in Requests \ {q} : admin'[p] = admin[p]
      /\ admin'[q] = [f \in {"pc", "letter", "left", "clear", "tag", "audit", "outcome"} |->
            IF f \in {"pc", "clear"} THEN [pc |-> "log", clear |-> clear][f] ELSE admin[q][f]]
    BY <1>1, <1>3, ThenEffect
<1>5. /\ admin'[q] \in Request /\ admin'[q].pc = "log"
      /\ admin'[q].letter = admin[q].letter /\ ~admin'[q].tag
    BY <1>1, <1>2, <1>4 DEF Request, Steps
<1>6. /\ rows' \in [Letters -> {"none", "open", "succeeded"}]
      /\ \A l \in Letters : rows[l] = "succeeded" => rows'[l] = "succeeded"
  <2>1. CASE WipeOne(q)
      BY <1>1, <1>2, <2>1 DEF WipeOne, LettersTyped
  <2>2. CASE WipeTrace(q)
      BY <1>1, <2>2 DEF WipeTrace, LettersTyped
  <2> QED BY <2>1, <2>2
<1>7. LettersTyped'
  <2>1. admin' \in [Requests -> Request]
      BY <1>1, <1>3, <1>5, ThenEffect
  <2> QED BY <1>1, <1>6, <2>1 DEF LettersTyped
<1>8. ~Audited(admin[q])' /\ ~Owes(admin[q])' /\ ~Pays(admin[q])' /\ ~MayPublish(admin[q])'
      /\ ~Unpublished(admin[q])'
    BY <1>5 DEF Audited, Owes, MayPublish, Unpublished, Pays
<1>9. InOrder(q)'
    BY <1>2, <1>5, <1>8 DEF InOrder, Letter
<1>10. \A i \in DOMAIN audits : audits'[i] = audits[i]
    BY <1>1
<1> QED BY <1>1, <1>4, <1>5, <1>6, <1>7, <1>8, <1>9, <1>10, RequestStays

LEMMA WipeIsLogged ==
    ASSUME LettersIInv, NEW q \in Requests, LogWipe(q) PROVE LettersIInv'
<1>1. /\ admin[q].pc = "log" /\ UNCHANGED <<dead, unacked, copies, rows, logged, happened>>
      /\ admin \in [Requests -> Request] /\ InOrder(q) /\ LettersTyped /\ Then(q, NoRequest)
    BY DEF LogWipe, On, LettersIInv, LettersTyped, HandsOff
<1>2. Letter(q) \in Letters
    BY <1>1 DEF InOrder, InHand
<1>3. PICK status \in {"cleared", "already_succeeded"} : Audit(Letter(q), status)
    BY DEF LogWipe
<1>4. /\ audits' \in Seq(Entry)
      /\ \A i \in DOMAIN audits : i \in DOMAIN audits' /\ audits'[i] = audits[i]
      /\ \A i \in DOMAIN audits' \ DOMAIN audits : audits'[i].status # "requeued"
    BY <1>1, <1>2, <1>3, AuditEffect
<1>5. admin' = [admin EXCEPT ![q] = NoRequest]
    BY <1>1, RaiseEffect
<1>6. /\ \A p \in Requests \ {q} : admin'[p] = admin[p]
      /\ admin'[q] = NoRequest /\ admin' \in [Requests -> Request]
    BY <1>1, <1>5, NoRequestIsOne
<1>7. LettersTyped'
    BY <1>1, <1>4, <1>6 DEF LettersTyped
<1>8. admin'[q].pc = "idle" /\ ~admin'[q].tag
    BY <1>6 DEF NoRequest
<1>9. ~Audited(admin[q])' /\ ~Owes(admin[q])' /\ ~Pays(admin[q])' /\ ~MayPublish(admin[q])'
      /\ ~Unpublished(admin[q])'
    BY <1>8 DEF Audited, Owes, MayPublish, Unpublished, Pays
<1>10. InOrder(q)'
    BY <1>8, <1>9 DEF InOrder, InHand
<1> QED BY <1>1, <1>4, <1>6, <1>7, <1>8, <1>9, <1>10, RequestStays

LEMMA CopyIsMade ==
    ASSUME LettersIInv, NEW q \in Requests, PublishAgain(q) PROVE LettersIInv'
<1>1. /\ admin[q].pc = "publish" /\ UNCHANGED <<dead, unacked, rows, audits, logged>>
      /\ admin \in [Requests -> Request] /\ admin[q] \in Request /\ InOrder(q) /\ LettersTyped
      /\ happened["fault"] \in Nat /\ happened["drop"] \in Nat
    BY DEF PublishAgain, On, LettersIInv, LettersTyped, HandsOff, Events
<1>2. PICK x \in Letters, a \in DOMAIN audits :
          x = Letter(q) /\ a = admin[q].audit /\ audits[a].letter = x
    BY <1>1 DEF InOrder, InHand, Audited, Owes
<1>3. /\ admin[q].outcome = "publish_failed" /\ Owes(admin[q]) /\ Audited(admin[q])
      /\ MayPublish(admin[q]) /\ \A l \in Letters : copies[l] \in Nat
    BY <1>1 DEF InOrder, Unpublished, MayPublish, Owes, Audited, LettersTyped
<1>4. PICK taken \in {0, 1}, fault \in {0, 1}, outcome \in {"requeued", "publish_failed"} :
          /\ copies' = [copies EXCEPT ![x] = @ + taken]
          /\ happened' \in [Events -> Nat] /\ happened'["drop"] = happened["drop"]
          /\ happened'["fault"] = happened["fault"] + fault
          /\ outcome = "requeued" => taken = 1
          /\ outcome = "publish_failed" => fault = 1
          /\ \A p \in Requests \ {q} : admin'[p] = admin[p]
          /\ admin' \in [Requests -> Request]
          /\ admin'[q].pc = "close" /\ admin'[q].outcome = outcome
          /\ admin'[q].audit = a /\ admin'[q].letter = x /\ admin'[q].tag = admin[q].tag
  <2>1. CASE /\ copies' = [copies EXCEPT ![Letter(q)] = @ + 1]
             /\ Then(q, [pc |-> "close", outcome |-> "requeued"]) /\ UNCHANGED happened
    <3>1. /\ \A p \in Requests \ {q} : admin'[p] = admin[p]
          /\ admin'[q] = [f \in {"pc", "letter", "left", "clear", "tag", "audit", "outcome"} |->
                IF f \in {"pc", "outcome"}
                THEN [pc |-> "close", outcome |-> "requeued"][f] ELSE admin[q][f]]
        BY <1>1, <2>1, ThenEffect
    <3>2. /\ admin'[q] \in Request /\ admin'[q].pc = "close" /\ admin'[q].outcome = "requeued"
          /\ admin'[q].audit = a /\ admin'[q].letter = x /\ admin'[q].tag = admin[q].tag
        BY <1>1, <1>2, <3>1 DEF Request, Steps, Outcomes, Letter
    <3>3. admin' \in [Requests -> Request]
        BY <1>1, <2>1, <3>2, ThenEffect
    <3>4. happened' \in [Events -> Nat] /\ happened'["drop"] = happened["drop"]
          /\ happened'["fault"] = happened["fault"] + 0
        BY <1>1, <2>1 DEF LettersTyped
    <3> QED BY <1>2, <2>1, <3>1, <3>2, <3>3, <3>4
  <2>2. CASE /\ Happens("fault") /\ Then(q, [pc |-> "close"])
             /\ \E taken \in {0, 1} : copies' = [copies EXCEPT ![Letter(q)] = @ + taken]
    <3>1. /\ \A p \in Requests \ {q} : admin'[p] = admin[p]
          /\ admin'[q] = [f \in {"pc", "letter", "left", "clear", "tag", "audit", "outcome"} |->
                IF f \in {"pc"} THEN [pc |-> "close"][f] ELSE admin[q][f]]
        BY <1>1, <2>2, ThenEffect
    <3>2. /\ admin'[q] \in Request /\ admin'[q].pc = "close" /\ admin'[q].outcome = "publish_failed"
          /\ admin'[q].audit = a /\ admin'[q].letter = x /\ admin'[q].tag = admin[q].tag
        BY <1>1, <1>2, <1>3, <3>1 DEF Request, Steps, Letter
    <3>3. admin' \in [Requests -> Request]
        BY <1>1, <2>2, <3>2, ThenEffect
    <3>4. happened' \in [Events -> Nat] /\ happened'["drop"] = happened["drop"]
          /\ happened'["fault"] = happened["fault"] + 1
        BY <1>1, <2>2, HappensEffect DEF LettersTyped, Events
    <3> QED BY <1>2, <2>2, <3>1, <3>2, <3>3, <3>4
  <2> QED BY <2>1, <2>2 DEF PublishAgain
<1>5. /\ copies' \in [Letters -> Nat] /\ copies'[x] = copies[x] + taken
      /\ \A l \in Letters \ {x} : copies'[l] = copies[l]
    BY <1>1, <1>2, <1>4 DEF LettersTyped
<1>6. LettersTyped'
    BY <1>1, <1>4, <1>5 DEF LettersTyped
<1>7. InOrder(q)'
  <2>1. admin[q].tag => x \in unacked
      BY <1>1, <1>2 DEF InOrder
  <2>2. outcome = "requeued" => copies'[x] > 0
      BY <1>2, <1>3, <1>4, <1>5
  <2>3. ~Unpublished(admin[q])' /\ outcome # "zombie_acked"
      BY <1>4 DEF Unpublished, Owes
  <2> QED BY <1>1, <1>2, <1>4, <2>1, <2>2, <2>3 DEF InOrder, Letter, InHand
<1>8. HandsOff'
  <2>1. \A l \in Letters : copies'[l] \in Nat /\ copies'[l] >= copies[l]
      BY <1>3, <1>4, <1>5
  <2>2. admin'[q].tag => admin[q].tag /\ admin'[q].letter = admin[q].letter
      BY <1>2, <1>4 DEF Letter
  <2> QED BY <1>1, <1>2, <1>3, <1>4, <1>7, <2>1, <2>2, HandsKept
<1>9. NoLetterVanishes'
    BY <1>1, <1>3, <1>4, <1>5 DEF LettersIInv, NoLetterVanishes
<1>10. CopiesAudited'
  <2> SUFFICES ASSUME NEW l \in Letters
               PROVE  /\ copies'[l] <= Cardinality(Done(l)')
                      /\ Cardinality(Paid(l)') <= copies'[l]
                      /\ l \in logged' => AuditsOf(l)' # {}
      BY DEF CopiesAudited
  <2>1. \A p \in Requests \ {q} : /\ Owes(admin[p])' <=> Owes(admin[p])
                                  /\ Pays(admin[p])' <=> Pays(admin[p])
      BY <1>4 DEF Owes, Pays
  <2>2. ~Owes(admin[q])' /\ (Pays(admin[q])' <=> outcome = "requeued") /\ ~Pays(admin[q])
      BY <1>1, <1>4 DEF Owes, Pays
  <2>3. AuditsOf(l)' = AuditsOf(l)
      BY <1>1 DEF AuditsOf
  <2>4. a \in AuditsOf(l) <=> l = x
      BY <1>2 DEF AuditsOf
  <2>5. \A p \in Requests \ {q} : Owes(admin[p]) => admin[p].audit # a
      BY <1>2, <1>3 DEF LettersIInv, HandsOff, Apart, Audited
  <2>6. Done(l) \subseteq Done(l)' /\ (l = x => a \in Done(l)') /\ a \notin Done(l)
      BY <1>2, <1>3, <1>4, <2>1, <2>2, <2>3, <2>4, <2>5 DEF Done
  <2>7. Paid(l)' \subseteq Paid(l) \cup {a}
      BY <1>1, <1>4, <2>1, <2>2, <2>3 DEF Paid
  <2>8. l # x \/ outcome = "publish_failed" => Paid(l)' \subseteq Paid(l)
    <3>1. CASE l # x
      <4>1. a \notin Paid(l)'
          BY <2>3, <2>4, <3>1 DEF Paid
      <4> QED BY <2>7, <4>1
    <3>2. CASE outcome = "publish_failed"
        BY <1>1, <1>4, <2>1, <2>2, <2>3, <3>2 DEF Paid
    <3> QED BY <3>1, <3>2
  <2>9. /\ IsFiniteSet(Done(l)) /\ Cardinality(Done(l)) \in Nat /\ copies[l] \in Nat
        /\ IsFiniteSet(Done(l)') /\ Cardinality(Done(l)') \in Nat
        /\ IsFiniteSet(Paid(l)) /\ Cardinality(Paid(l)) \in Nat /\ Cardinality(Paid(l)') \in Nat
        /\ copies[l] <= Cardinality(Done(l)) /\ Cardinality(Paid(l)) <= copies[l]
        /\ l \in logged => AuditsOf(l) # {}
      BY <1>6, LetterCounts, LetterCountsAfter DEF LettersIInv, CopiesAudited
  <2>10. Cardinality(Done(l)) <= Cardinality(Done(l)')
         /\ (l = x => Cardinality(Done(l)) + 1 <= Cardinality(Done(l)'))
    <3>1. Cardinality(Done(l)) <= Cardinality(Done(l)')
        BY <2>6, <2>9, FS_Subset
    <3>2. CASE l = x
      <4>1. Done(l) \in SUBSET Done(l)' /\ Done(l) # Done(l)'
          BY <2>6, <3>2
      <4>2. Cardinality(Done(l)) # Cardinality(Done(l)')
          BY <2>9, <4>1, FS_Subset
      <4> QED BY <2>9, <3>1, <4>2
    <3> QED BY <3>1, <3>2
  <2>11. Cardinality(Paid(l)') <= Cardinality(Paid(l)) + 1
      BY <2>7, <2>9, OneMore
  <2>12. l # x \/ outcome = "publish_failed" => Cardinality(Paid(l)') <= Cardinality(Paid(l))
      BY <2>8, <2>9, FS_Subset
  <2>13. l \in logged' => AuditsOf(l)' # {}
      BY <1>1, <2>3, <2>9
  <2>14. CASE l = x
    <3>1. copies'[l] = copies[l] + taken
        BY <1>5, <2>14
    <3>2. CASE outcome = "requeued"
        BY <1>4, <2>9, <2>10, <2>11, <2>13, <2>14, <3>1, <3>2
    <3>3. CASE outcome = "publish_failed"
        BY <1>4, <2>9, <2>10, <2>12, <2>13, <2>14, <3>1, <3>3
    <3> QED BY <3>2, <3>3
  <2>15. CASE l # x
    <3>1. copies'[l] = copies[l]
        BY <1>5, <2>15
    <3> QED BY <2>9, <2>10, <2>12, <2>13, <2>15, <3>1
  <2> QED BY <2>14, <2>15
<1>11. CopiesBounded'
  <2> SUFFICES ASSUME NEW l \in Letters
               PROVE  copies'[l] + Cardinality(Chances(l)') + Waiting(l)'
                          <= 1 + happened'["fault"] + happened'["drop"]
      BY DEF CopiesBounded
  <2>1. /\ copies[l] \in Nat /\ Cardinality(Chances(l)) \in Nat /\ IsFiniteSet(Chances(l))
        /\ Waiting(l) \in {0, 1} /\ Cardinality(Chances(l)') \in Nat
        /\ copies[l] + Cardinality(Chances(l)) + Waiting(l)
               <= 1 + happened["fault"] + happened["drop"]
      BY <1>6, LetterCounts, LetterCountsAfter DEF LettersIInv, CopiesBounded
  <2>2. Waiting(l)' = Waiting(l)
      BY <1>1 DEF Waiting
  <2>3. \A p \in Requests \ {q} : p \in Chances(l)' <=> p \in Chances(l)
      BY <1>4 DEF Chances, Letter, MayPublish, Unpublished, Owes
  <2>4. q \in Chances(l) <=> l = x
      BY <1>2, <1>3 DEF Chances
  <2>5. q \in Chances(l)' => l = x /\ outcome = "publish_failed"
      BY <1>4 DEF Chances, Letter, MayPublish, Unpublished, Owes
  <2>6. Chances(l)' \subseteq Chances(l)
      BY <2>3, <2>4, <2>5 DEF Chances
  <2>7. Cardinality(Chances(l)') <= Cardinality(Chances(l))
      BY <2>1, <2>6, FS_Subset
  <2>8. CASE l = x /\ outcome = "requeued"
    <3>1. Chances(l)' \subseteq Chances(l) \ {q} /\ q \in Chances(l)
        BY <2>4, <2>5, <2>6, <2>8
    <3>2. Cardinality(Chances(l)') <= Cardinality(Chances(l)) - 1
        BY <1>1, <3>1, ChancesChange
    <3>3. copies'[l] = copies[l] + 1
        BY <1>4, <1>5, <2>8
    <3> QED BY <1>1, <1>4, <2>1, <2>2, <3>2, <3>3
  <2>9. CASE l = x /\ outcome = "publish_failed"
    <3>1. copies'[l] = copies[l] + taken /\ fault = 1
        BY <1>4, <1>5, <2>9
    <3> QED BY <1>1, <1>4, <2>1, <2>2, <2>7, <3>1
  <2>10. CASE l # x
    <3>1. copies'[l] = copies[l]
        BY <1>5, <2>10
    <3> QED BY <1>1, <1>4, <2>1, <2>2, <2>7, <3>1
  <2> QED BY <2>8, <2>9, <2>10
<1> QED BY <1>6, <1>8, <1>9, <1>10, <1>11 DEF LettersIInv

LEMMA LetterIsSettled ==
    ASSUME LettersIInv, NEW q \in Requests, Settle(q) PROVE LettersIInv'
<1>1. /\ admin[q].pc = "settle" /\ UNCHANGED <<copies, rows, audits, logged, happened>>
      /\ admin \in [Requests -> Request] /\ admin[q] \in Request /\ InOrder(q) /\ LettersTyped
      /\ happened["fault"] \in Nat /\ happened["drop"] \in Nat
      /\ happened'["fault"] >= happened["fault"] /\ happened'["drop"] >= happened["drop"]
    BY DEF Settle, On, LettersIInv, LettersTyped, HandsOff, Events
<1>2. CASE ~admin[q].tag
  <2>1. Then(q, NoRequest) /\ UNCHANGED <<dead, unacked>> /\ happened' \in [Events -> Nat]
      BY <1>1, <1>2 DEF Settle, Raise, LettersTyped
  <2> QED BY <1>1, <2>1, RequestEnds
<1>3. CASE admin[q].tag
  <2>1. PICK x \in Letters : x = Letter(q) /\ x \in unacked /\ x \notin dead
      BY <1>1, <1>3 DEF InOrder, InHand, LettersTyped
  <2>2. /\ unacked' = unacked \ {x}
        /\ dead' = IF admin[q].outcome = "publish_failed" THEN dead \cup {x} ELSE dead
        /\ Then(q, [pc |-> "get", tag |-> FALSE])
      BY <1>3, <2>1 DEF Settle
  <2>3. /\ \A p \in Requests \ {q} : admin'[p] = admin[p]
        /\ admin'[q] = [f \in {"pc", "letter", "left", "clear", "tag", "audit", "outcome"} |->
              IF f \in {"pc", "tag"} THEN [pc |-> "get", tag |-> FALSE][f] ELSE admin[q][f]]
      BY <1>1, <2>2, ThenEffect
  <2>4. admin'[q] \in Request /\ admin'[q].pc = "get" /\ ~admin'[q].tag
      BY <1>1, <2>3 DEF Request, Steps
  <2>5. LettersTyped'
    <3>1. admin' \in [Requests -> Request]
        BY <1>1, <2>2, <2>4, ThenEffect
    <3>2. dead' \subseteq Letters /\ unacked' \subseteq Letters /\ dead' \cap unacked' = {}
        BY <1>1, <2>1, <2>2 DEF LettersTyped
    <3> QED BY <1>1, <3>1, <3>2 DEF LettersTyped
  <2>6. ~Audited(admin[q])' /\ ~Owes(admin[q])' /\ ~Pays(admin[q])' /\ ~MayPublish(admin[q])'
        /\ ~Unpublished(admin[q])'
      BY <2>4 DEF Audited, Owes, MayPublish, Unpublished, Pays
  <2>7. InOrder(q)'
      BY <2>4, <2>6 DEF InOrder, InHand
  <2>8. \A l \in Letters : copies[l] \in Nat
      BY <1>1 DEF LettersTyped
  <2>9. HandsOff'
    <3>1. \A l \in unacked \ unacked' : admin[q].tag /\ l = Letter(q)
        BY <1>3, <2>1, <2>2
    <3> QED BY <1>1, <2>3, <2>4, <2>6, <2>7, <2>8, <3>1, HandsKept
  <2>10. NoLetterVanishes'
    <3> SUFFICES ASSUME NEW l \in Letters
                 PROVE  l \in dead' \cup unacked' \/ copies'[l] > 0 \/ rows'[l] = "succeeded"
        BY DEF NoLetterVanishes
    <3>1. l \in dead \cup unacked \/ copies[l] > 0 \/ rows[l] = "succeeded"
        BY DEF LettersIInv, NoLetterVanishes
    <3>2. CASE l = x
      <4>1. /\ admin[q].outcome = "requeued" => copies[x] > 0
            /\ admin[q].outcome = "zombie_acked" => rows[x] = "succeeded"
          BY <1>1, <2>1 DEF InOrder
      <4>2. admin[q].outcome \in Outcomes
          BY <1>1 DEF Request
      <4> QED BY <1>1, <2>2, <3>2, <4>1, <4>2 DEF Outcomes
    <3>3. CASE l # x
        BY <1>1, <2>2, <3>1, <3>3
    <3> QED BY <3>2, <3>3
  <2>11. CopiesAudited'
      BY <1>1, <2>3, <2>5, <2>6, AuditsKept
  <2>12. CopiesBounded'
    <3>1. CASE admin[q].outcome # "publish_failed"
      <4>1. dead' \subseteq dead
          BY <2>2, <3>1
      <4> QED BY <1>1, <2>3, <2>5, <2>6, <4>1, ChancesKept
    <3>2. CASE admin[q].outcome = "publish_failed"
      <4> SUFFICES ASSUME NEW l \in Letters
                   PROVE  copies'[l] + Cardinality(Chances(l)') + Waiting(l)'
                              <= 1 + happened'["fault"] + happened'["drop"]
          BY DEF CopiesBounded
      <4>1. /\ copies[l] \in Nat /\ Cardinality(Chances(l)) \in Nat /\ IsFiniteSet(Chances(l))
            /\ Waiting(l) \in {0, 1} /\ Cardinality(Chances(l)') \in Nat /\ Waiting(l)' \in {0, 1}
            /\ copies[l] + Cardinality(Chances(l)) + Waiting(l)
                   <= 1 + happened["fault"] + happened["drop"]
          BY <2>5, LetterCounts, LetterCountsAfter DEF LettersIInv, CopiesBounded
      <4>2. \A p \in Requests \ {q} : p \in Chances(l)' <=> p \in Chances(l)
          BY <2>3 DEF Chances, Letter, MayPublish, Unpublished, Owes
      <4>3. Chances(l)' \subseteq Chances(l) \ {q}
          BY <2>6, <4>2 DEF Chances
      <4>4. CASE l = x
        <5>1. MayPublish(admin[q])
            BY <1>1, <1>3, <3>2 DEF MayPublish
        <5>2. q \in Chances(l)
            BY <2>1, <4>4, <5>1 DEF Chances
        <5>3. Cardinality(Chances(l)') <= Cardinality(Chances(l)) - 1
            BY <1>1, <4>3, <5>2, ChancesChange
        <5> QED BY <1>1, <4>1, <5>3
      <4>5. CASE l # x
        <5>1. Cardinality(Chances(l)') <= Cardinality(Chances(l))
            BY <4>1, <4>3, FS_Subset
        <5>2. Waiting(l)' = Waiting(l)
            BY <2>2, <4>5 DEF Waiting
        <5> QED BY <1>1, <4>1, <5>1, <5>2
      <4> QED BY <4>4, <4>5
    <3> QED BY <3>1, <3>2
  <2> QED BY <2>5, <2>9, <2>10, <2>11, <2>12 DEF LettersIInv
<1> QED BY <1>2, <1>3

LEMMA RequestFails ==
    ASSUME LettersIInv, NEW q \in Requests, Fails(q) PROVE LettersIInv'
<1>1. /\ Then(q, NoRequest) /\ UNCHANGED <<dead, unacked, copies, rows, audits, logged>>
      /\ Happens("fault")
    BY DEF Fails, Raise
<1>2. /\ happened' \in [Events -> Nat]
      /\ happened["fault"] \in Nat /\ happened'["fault"] = happened["fault"] + 1
      /\ happened["drop"] \in Nat /\ happened'["drop"] = happened["drop"]
    BY <1>1, HappensEffect DEF LettersIInv, LettersTyped, Events
<1>3. happened'["fault"] >= happened["fault"] /\ happened'["drop"] >= happened["drop"]
    BY <1>2
<1> QED BY <1>1, <1>2, <1>3, RequestEnds

\* The connection drops: every letter the channel had is back in the queue, once more than
\* before, and no tag is valid.
LEMMA ConnectionDrops ==
    ASSUME LettersIInv, Drop PROVE LettersIInv'
<1>1. /\ dead' = dead \cup unacked /\ unacked' = {}
      /\ UNCHANGED <<copies, rows, audits, logged>> /\ LettersTyped
      /\ admin \in [Requests -> Request]
    BY DEF Drop, LettersIInv, LettersTyped
<1>2. /\ happened' \in [Events -> Nat]
      /\ happened["fault"] \in Nat /\ happened'["fault"] = happened["fault"]
      /\ happened["drop"] \in Nat /\ happened'["drop"] = happened["drop"] + 1
    BY <1>1, HappensEffect DEF Drop, LettersTyped, Events
<1>3. PICK dies \in BOOLEAN : admin' = [q \in Requests |->
           IF dies THEN NoRequest ELSE [admin[q] EXCEPT !.tag = FALSE]]
    BY DEF Drop
<1>4. ASSUME NEW q \in Requests
      PROVE  /\ admin'[q] \in Request /\ ~admin'[q].tag
             /\ \/ admin'[q].pc = "idle"
                \/ /\ admin'[q].pc = admin[q].pc /\ admin'[q].outcome = admin[q].outcome
                   /\ admin'[q].audit = admin[q].audit /\ admin'[q].letter = admin[q].letter
  <2>1. admin[q] \in Request
      BY <1>1
  <2>2. CASE dies
    <3>1. admin'[q] = NoRequest
        BY <1>3, <2>2
    <3> QED BY <3>1, NoRequestIsOne DEF NoRequest
  <2>3. CASE ~dies
    <3>1. admin'[q] = [admin[q] EXCEPT !.tag = FALSE]
        BY <1>3, <2>3
    <3> QED BY <2>1, <3>1 DEF Request
  <2> QED BY <2>2, <2>3
<1>5. LettersTyped'
  <2>1. admin' \in [Requests -> Request]
      BY <1>3, <1>4
  <2> QED BY <1>1, <1>2, <2>1 DEF LettersTyped
<1>6. ASSUME NEW q \in Requests
      PROVE  /\ Owes(admin[q])' => Owes(admin[q]) /\ admin'[q].audit = admin[q].audit
             /\ Pays(admin[q])' => Pays(admin[q]) /\ admin'[q].audit = admin[q].audit
             /\ Audited(admin[q])' => Audited(admin[q]) /\ admin'[q].audit = admin[q].audit
             /\ MayPublish(admin[q])' => MayPublish(admin[q]) /\ admin'[q].letter = admin[q].letter
             /\ Unpublished(admin[q])' => Unpublished(admin[q]) /\ admin'[q].outcome = admin[q].outcome
  <2>1. CASE admin'[q].pc = "idle"
      BY <2>1 DEF Owes, Pays, Audited, MayPublish, Unpublished
  <2>2. CASE /\ admin'[q].pc = admin[q].pc /\ admin'[q].outcome = admin[q].outcome
             /\ admin'[q].audit = admin[q].audit /\ admin'[q].letter = admin[q].letter
      BY <1>4, <2>2 DEF Owes, Pays, Audited, MayPublish, Unpublished
  <2> QED BY <1>4, <2>1, <2>2
<1>7. ASSUME NEW q \in Requests PROVE InOrder(q)'
  <2>1. InOrder(q)
      BY DEF LettersIInv, HandsOff
  <2>2. CASE admin'[q].pc = "idle"
      BY <1>4, <2>2 DEF InOrder, InHand, Unpublished, Audited, Owes
  <2>3. CASE /\ admin'[q].pc = admin[q].pc /\ admin'[q].outcome = admin[q].outcome
             /\ admin'[q].audit = admin[q].audit /\ admin'[q].letter = admin[q].letter
      BY <1>1, <1>4, <2>1, <2>3 DEF InOrder, Letter, Unpublished, Audited, Owes
  <2> QED BY <1>4, <2>2, <2>3
<1>8. ASSUME NEW p \in Requests, NEW q \in Requests, p # q PROVE Apart(p, q)'
  <2>1. Apart(p, q)
      BY <1>8 DEF LettersIInv, HandsOff
  <2> QED BY <1>4, <1>6, <2>1 DEF Apart
<1>9. HandsOff'
    BY <1>7, <1>8 DEF HandsOff
<1>10. NoLetterVanishes'
    BY <1>1 DEF LettersIInv, NoLetterVanishes
<1>11. CopiesAudited'
  <2> SUFFICES ASSUME NEW l \in Letters
               PROVE  /\ copies'[l] <= Cardinality(Done(l)')
                      /\ Cardinality(Paid(l)') <= copies'[l]
                      /\ l \in logged' => AuditsOf(l)' # {}
      BY DEF CopiesAudited
  <2>1. AuditsOf(l)' = AuditsOf(l)
      BY <1>1 DEF AuditsOf
  <2>2. Done(l) \subseteq Done(l)' /\ Paid(l)' \subseteq Paid(l)
      BY <1>1, <1>6, <2>1 DEF Done, Paid
  <2>3. /\ Cardinality(Done(l)) \in Nat /\ copies[l] \in Nat
        /\ IsFiniteSet(Done(l)') /\ Cardinality(Done(l)') \in Nat
        /\ IsFiniteSet(Paid(l)) /\ Cardinality(Paid(l)) \in Nat /\ Cardinality(Paid(l)') \in Nat
        /\ copies[l] <= Cardinality(Done(l)) /\ Cardinality(Paid(l)) <= copies[l]
        /\ l \in logged => AuditsOf(l) # {}
      BY <1>5, LetterCounts, LetterCountsAfter DEF LettersIInv, CopiesAudited
  <2>4. /\ Cardinality(Done(l)) <= Cardinality(Done(l)')
        /\ Cardinality(Paid(l)') <= Cardinality(Paid(l))
      BY <2>2, <2>3, FS_Subset
  <2> QED BY <1>1, <2>1, <2>3, <2>4
<1>12. CopiesBounded'
  <2> SUFFICES ASSUME NEW l \in Letters
               PROVE  copies'[l] + Cardinality(Chances(l)') + Waiting(l)'
                          <= 1 + happened'["fault"] + happened'["drop"]
      BY DEF CopiesBounded
  <2>1. /\ copies[l] \in Nat /\ Cardinality(Chances(l)) \in Nat /\ IsFiniteSet(Chances(l))
        /\ Waiting(l) \in {0, 1} /\ Cardinality(Chances(l)') \in Nat /\ Waiting(l)' \in {0, 1}
        /\ copies[l] + Cardinality(Chances(l)) + Waiting(l)
               <= 1 + happened["fault"] + happened["drop"]
      BY <1>5, LetterCounts, LetterCountsAfter DEF LettersIInv, CopiesBounded
  <2>2. Chances(l)' \subseteq Chances(l)
      BY <1>6 DEF Chances, Letter
  <2>3. Cardinality(Chances(l)') <= Cardinality(Chances(l))
      BY <2>1, <2>2, FS_Subset
  <2> QED BY <1>1, <1>2, <2>1, <2>3
<1> QED BY <1>5, <1>9, <1>10, <1>11, <1>12 DEF LettersIInv

\* Another delivery succeeds, or nothing happens.
LEMMA LetterSucceeds ==
    ASSUME LettersIInv, UNCHANGED <<dead, unacked, copies, audits, admin, logged, happened>>,
           rows' \in [Letters -> {"none", "open", "succeeded"}],
           \A l \in Letters : rows[l] = "succeeded" => rows'[l] = "succeeded"
    PROVE  LettersIInv'
<1>1. LettersTyped'
    BY DEF LettersIInv, LettersTyped
<1>2. ASSUME NEW q \in Requests PROVE InOrder(q)'
  <2>1. InOrder(q)
      BY DEF LettersIInv, HandsOff
  <2>2. admin[q].pc \in {"close", "settle"} => Letter(q) \in Letters
      BY <2>1 DEF InOrder, InHand
  <2> QED BY <2>1, <2>2 DEF InOrder, Letter, Unpublished, Audited, Owes
<1>3. HandsOff'
    BY <1>2 DEF LettersIInv, HandsOff, Apart, Letter, Audited, Owes
<1>4. NoLetterVanishes'
    BY DEF LettersIInv, NoLetterVanishes
<1>5. ASSUME NEW l \in Letters
      PROVE  /\ AuditsOf(l)' = AuditsOf(l) /\ Done(l)' = Done(l) /\ Paid(l)' = Paid(l)
             /\ Chances(l)' = Chances(l) /\ Waiting(l)' = Waiting(l)
    BY DEF AuditsOf, Done, Paid, Chances, Waiting, Letter, Owes, Pays, MayPublish, Unpublished
<1>6. CopiesAudited' /\ CopiesBounded'
    BY <1>5 DEF LettersIInv, CopiesAudited, CopiesBounded
<1> QED BY <1>1, <1>3, <1>4, <1>6 DEF LettersIInv

LEMMA LettersStart ==
    ASSUME DeadLettersInit PROVE LettersIInv
<1>1. LettersTyped
  <2>1. admin \in [Requests -> Request] /\ audits \in Seq(Entry)
      BY NoRequestIsOne DEF DeadLettersInit
  <2> QED BY <2>1 DEF DeadLettersInit, LettersTyped
<1>2. ASSUME NEW q \in Requests
      PROVE  /\ admin[q].pc = "idle" /\ ~admin[q].tag /\ ~Audited(admin[q])
             /\ ~Unpublished(admin[q]) /\ ~MayPublish(admin[q]) /\ ~Pays(admin[q])
    BY DEF DeadLettersInit, NoRequest, Audited, Unpublished, MayPublish, Owes, Pays
<1>3. HandsOff
    BY <1>2 DEF HandsOff, InOrder, InHand, Apart
<1>4. NoLetterVanishes
    BY DEF DeadLettersInit, NoLetterVanishes
<1>5. ASSUME NEW l \in Letters
      PROVE  /\ Done(l) = {} /\ Paid(l) = {} /\ Chances(l) = {} /\ copies[l] = 0
             /\ l \notin logged /\ Waiting(l) = 1
  <2>1. audits = <<>> /\ AuditsOf(l) = {}
      BY DEF DeadLettersInit, AuditsOf
  <2> QED BY <1>2, <2>1 DEF DeadLettersInit, Done, Paid, Chances, Waiting
<1>6. Cardinality({}) = 0 /\ happened["fault"] = 0 /\ happened["drop"] = 0
    BY FS_EmptySet DEF DeadLettersInit, Events
<1>7. ASSUME NEW l \in Letters
      PROVE  /\ copies[l] <= Cardinality(Done(l)) /\ Cardinality(Paid(l)) <= copies[l]
             /\ copies[l] + Cardinality(Chances(l)) + Waiting(l)
                    <= 1 + happened["fault"] + happened["drop"]
  <2>1. /\ copies[l] = 0 /\ Cardinality(Done(l)) = 0 /\ Cardinality(Paid(l)) = 0
        /\ Cardinality(Chances(l)) = 0 /\ Waiting(l) = 1
      BY <1>5, <1>6
  <2> QED BY <1>6, <2>1
<1>8. CopiesAudited /\ CopiesBounded
    BY <1>5, <1>7 DEF CopiesAudited, CopiesBounded
<1> QED BY <1>1, <1>3, <1>4, <1>8 DEF LettersIInv

LEMMA LettersStep ==
    ASSUME LettersIInv, [DeadLettersNext]_deadVars PROVE LettersIInv'
<1>1. CASE UNCHANGED deadVars
  <2>1. rows' \in [Letters -> {"none", "open", "succeeded"}] /\ rows' = rows
      BY <1>1 DEF deadVars, LettersIInv, LettersTyped
  <2> QED BY <1>1, <2>1, LetterSucceeds DEF deadVars
<1>2. ASSUME NEW l \in Letters, Succeeds(l) PROVE LettersIInv'
  <2>1. /\ rows' \in [Letters -> {"none", "open", "succeeded"}]
        /\ \A m \in Letters : rows[m] = "succeeded" => rows'[m] = "succeeded"
      BY <1>2 DEF Succeeds, LettersIInv, LettersTyped
  <2> QED BY <1>2, <2>1, LetterSucceeds DEF Succeeds
<1>3. ASSUME NEW q \in Requests,
             RequeueLetters(q) \/ ClearIdempotent(q) \/ RequestStep(q) \/ Fails(q)
      PROVE  LettersIInv'
    BY <1>3, RequestBegins, RequestGoesOn, LetterIsTaken, AuditIsOpened, RowIsDeleted,
       CopyIsMade, AuditIsClosed, LetterIsSettled, RowsAreWiped, WipeIsLogged, RequestFails
       DEF RequestStep
<1> QED BY <1>1, <1>2, <1>3, ConnectionDrops DEF DeadLettersNext

THEOREM LettersInductive == DeadLettersSpec => []LettersIInv
<1> QED BY LettersStart, LettersStep, PTL DEF DeadLettersSpec

\* A requeue's steps, letters and tags keep their types, and a letter is in one place at a
\* time (nodes/dlq_admin.py).
THEOREM LettersAreTyped == DeadLettersSpec => []DeadLettersTypeOK
<1>1. LettersIInv => DeadLettersTypeOK
  <2> SUFFICES ASSUME LettersIInv PROVE DeadLettersTypeOK
      OBVIOUS
  <2>1. ASSUME NEW i \in DOMAIN audits
        PROVE  audits[i].status \in Outcomes \cup {"cleared", "already_succeeded"}
    <3>1. audits \in Seq(Entry) /\ audits[i] \in Entry
        BY DEF LettersIInv, LettersTyped
    <3> QED BY <3>1 DEF Entry
  <2>2. ASSUME NEW q \in Requests
        PROVE  /\ admin[q].pc \in Steps /\ admin[q].left \in 0 .. MaxBatch
               /\ admin[q].tag => admin[q].letter \in unacked
    <3>1. admin[q] \in Request /\ InOrder(q)
        BY DEF LettersIInv, LettersTyped, HandsOff
    <3> QED BY <3>1 DEF Request, InOrder, Letter
  <2> QED BY <2>1, <2>2 DEF LettersIInv, LettersTyped, DeadLettersTypeOK
<1> QED BY <1>1, LettersInductive, PTL

\* However many requeues run over one channel and wherever each of them ends: no dead letter
\* vanishes, no replay is without its audit, and no letter goes back a second time without a
\* failed call or a dropped connection (nodes/dlq_admin.py).
THEOREM LettersAreKept ==
    DeadLettersSpec => [](NoLetterVanishes /\ EveryReplayIsAudited /\ ReplaysNeedFaults)
<1>1. LettersIInv => NoLetterVanishes /\ EveryReplayIsAudited /\ ReplaysNeedFaults
  <2> SUFFICES ASSUME LettersIInv
               PROVE  NoLetterVanishes /\ EveryReplayIsAudited /\ ReplaysNeedFaults
      OBVIOUS
  <2>1. ASSUME NEW l \in Letters
        PROVE  /\ copies[l] <= Cardinality(AuditsOf(l))
               /\ l \in logged => AuditsOf(l) # {}
               /\ Cardinality({i \in AuditsOf(l) : audits[i].status = "requeued"}) <= copies[l]
               /\ copies[l] <= 1 + happened["fault"] + happened["drop"]
    <3> DEFINE replayed == {i \in AuditsOf(l) : audits[i].status = "requeued"}
    <3>1. /\ copies[l] <= Cardinality(Done(l)) /\ Cardinality(Paid(l)) <= copies[l]
          /\ l \in logged => AuditsOf(l) # {}
          /\ copies[l] + Cardinality(Chances(l)) + Waiting(l)
                 <= 1 + happened["fault"] + happened["drop"]
        BY DEF LettersIInv, CopiesAudited, CopiesBounded
    <3>2. /\ copies[l] \in Nat /\ Waiting(l) \in {0, 1} /\ Cardinality(Chances(l)) \in Nat
          /\ happened["fault"] \in Nat /\ happened["drop"] \in Nat
          /\ IsFiniteSet(AuditsOf(l)) /\ Cardinality(AuditsOf(l)) \in Nat
          /\ IsFiniteSet(Paid(l)) /\ Cardinality(Paid(l)) \in Nat /\ Cardinality(Done(l)) \in Nat
        BY LetterCounts DEF LettersIInv
    <3>3. Done(l) \in SUBSET AuditsOf(l) /\ replayed \in SUBSET Paid(l)
        BY DEF Done, Paid
    <3>4. Cardinality(Done(l)) <= Cardinality(AuditsOf(l))
        BY <3>2, <3>3, FS_Subset
    <3>5. Cardinality(replayed) <= Cardinality(Paid(l)) /\ Cardinality(replayed) \in Nat
      <4> HIDE DEF replayed
      <4> QED BY <3>2, <3>3, FS_Subset, FS_CardinalityType
    <3> HIDE DEF replayed
    <3>6. copies[l] <= Cardinality(AuditsOf(l)) /\ Cardinality(replayed) <= copies[l]
        BY <3>1, <3>2, <3>4, <3>5
    <3>7. copies[l] <= 1 + happened["fault"] + happened["drop"]
        BY <3>1, <3>2
    <3> QED BY <3>1, <3>6, <3>7 DEF replayed
  <2> QED BY <2>1 DEF LettersIInv, EveryReplayIsAudited, ReplaysNeedFaults
<1> QED BY <1>1, LettersInductive, PTL

--------------------------------------------------------------------------------
(* The rows of the outbox.                                                    *)

Outgoing == [state : RowStates, due : BOOLEAN, attempts : 0 .. MaxAttempts]
Noted == [row : Rows, dispatched : BOOLEAN]
Pass == [pc : {"idle", "row", "over", "ended"}, batch : Seq(Rows), updates : SUBSET Noted]

OutboxTyped ==
    /\ outbox \in [Rows -> Outgoing]
    /\ locked \in [Rows -> Dispatchers \cup {"none"}]
    /\ drain \in [Dispatchers -> Pass]
    /\ emits \in [Rows -> Nat] /\ whole \subseteq Rows
    /\ mishaps \in [OutboxFaults -> Nat]

NotedRows(d) == {u.row : u \in drain[d].updates}

\* A pass has its rows locked, each to be emitted or noted, once.
SoundPass(d) ==
    /\ drain[d].pc = "row" <=> drain[d].batch # <<>>
    /\ drain[d].pc \in {"idle", "ended"} => drain[d].updates = {}
    /\ \A r \in Rest(drain[d].batch) \cup NotedRows(d) : locked[r] = d
    /\ Rest(drain[d].batch) \cap NotedRows(d) = {}
    /\ \A i, j \in DOMAIN drain[d].batch : i # j => drain[d].batch[i] # drain[d].batch[j]
    /\ \A u \in drain[d].updates :
        /\ u.dispatched => u.row \in whole
        /\ ~u.dispatched => outbox[u.row].attempts < MaxAttempts

LockedArePending == \A r \in Rows : locked[r] # "none" => outbox[r].state = "pending"

Blamed == mishaps["emit"] + mishaps["db"] + mishaps["crash"]
Closing(r) == \E d \in Dispatchers : [row |-> r, dispatched |-> TRUE] \in drain[d].updates

\* A row that may be emitted again was emitted at most once for each mishap; the pass
\* that has noted it as dispatched would have to fail first.
RowsEarned ==
    \A r \in Rows :
        /\ emits[r] <= 1 + Blamed
        /\ outbox[r].state # "dispatched" /\ ~Closing(r) => emits[r] <= Blamed

OutboxIInv ==
    /\ OutboxTyped /\ (\A d \in Dispatchers : SoundPass(d)) /\ LockedArePending
    /\ RowsEarned /\ EmitsAreCommitted

\* A batch is of the rows it was taken from, each once.
LEMMA BatchIsOfItsRows ==
    ASSUME NEW R \in SUBSET Rows
    PROVE  /\ Batch(R) \in Seq(Rows) /\ Rest(Batch(R)) \subseteq R
           /\ \A i, j \in DOMAIN Batch(R) : i # j => Batch(R)[i] # Batch(R)[j]
<1> DEFINE Before(r) == {q \in R : q < r}
           n == Cardinality(R)
           size == IF n < BatchSize THEN n ELSE BatchSize
           rank == [r \in R |-> Cardinality(Before(r))]
<1>1. IsFiniteSet(R) /\ n \in Nat /\ R \subseteq Nat
    BY OutboxAssumption, FS_Subset, FS_CardinalityType
<1>2. ASSUME NEW r \in R
      PROVE  IsFiniteSet(Before(r)) /\ Cardinality(Before(r)) \in 0 .. n - 1
  <2>1. Before(r) \in SUBSET (R \ {r})
      BY <1>1
  <2>2. IsFiniteSet(R \ {r}) /\ Cardinality(R \ {r}) = n - 1
      BY <1>1, FS_RemoveElement
  <2> HIDE DEF Before, n
  <2>3. IsFiniteSet(Before(r)) /\ Cardinality(Before(r)) <= n - 1
      BY <2>1, <2>2, FS_Subset
  <2> QED BY <1>1, <2>3, FS_CardinalityType
<1>3. ASSUME NEW a \in R, NEW b \in R, a < b
      PROVE  Cardinality(Before(a)) # Cardinality(Before(b))
  <2>1. Before(a) \in SUBSET Before(b) /\ a \in Before(b) /\ a \notin Before(a)
    <3>1. a \in Nat /\ b \in Nat /\ \A q \in R : q \in Nat
        BY <1>1
    <3>2. \A q \in R : q < a => q < b
        BY <1>3, <3>1
    <3>3. ~(a < a)
        BY <3>1
    <3> QED BY <1>3, <3>2, <3>3
  <2>2. IsFiniteSet(Before(b))
      BY <1>2
  <2> HIDE DEF Before
  <2> QED BY <2>1, <2>2, FS_Subset
<1>4. \A a, b \in R : a # b => rank[a] # rank[b]
  <2> SUFFICES ASSUME NEW a \in R, NEW b \in R, a # b PROVE rank[a] # rank[b]
      OBVIOUS
  <2>1. a < b \/ b < a
      BY <1>1
  <2>2. rank[a] = Cardinality(Before(a)) /\ rank[b] = Cardinality(Before(b))
      OBVIOUS
  <2> HIDE DEF Before, rank
  <2> QED BY <1>3, <2>1, <2>2
<1>5. ASSUME NEW k \in 0 .. n - 1 PROVE \E r \in R : Cardinality(Before(r)) = k
  <2> SUFFICES ASSUME \A r \in R : Cardinality(Before(r)) # k PROVE FALSE
      OBVIOUS
  <2> DEFINE T == (0 .. n - 1) \ {k}
  <2>1. IsFiniteSet(0 .. n - 1) /\ Cardinality(0 .. n - 1) = n
    <3> HIDE DEF n
    <3>1. 0 \in Int /\ n - 1 \in Int /\ (0 > n - 1 <=> n = 0)
        BY <1>1
    <3> QED BY <1>1, <3>1, FS_Interval
  <2>2. IsFiniteSet(T) /\ Cardinality(T) = n - 1
    <3> HIDE DEF n
    <3> QED BY <2>1, FS_RemoveElement
  <2>3. rank \in [R -> T]
    <3> HIDE DEF n, Before
    <3> QED BY <1>2
  <2> HIDE DEF rank, T
  <2>4. Cardinality(T) < Cardinality(R)
      BY <1>1, <2>2
  <2> HIDE DEF n
  <2>5. \E a, b \in R : a # b /\ rank[a] = rank[b]
      BY <1>1, <2>2, <2>3, <2>4, FS_PigeonHole
  <2> QED BY <1>4, <2>5
<1>6. size \in Nat /\ size <= n
    BY <1>1, OutboxAssumption
<1> DEFINE choice(i) == CHOOSE r \in R : Cardinality(Before(r)) = i - 1
<1>7. ASSUME NEW i \in 1 .. size
      PROVE  choice(i) \in R /\ Cardinality(Before(choice(i))) = i - 1
  <2>1. i - 1 \in 0 .. n - 1
    <3> HIDE DEF n, size
    <3> QED BY <1>1, <1>6
  <2> HIDE DEF Before, n, size
  <2> QED BY <1>5, <2>1
<1>8. Batch(R) = [i \in 1 .. size |-> choice(i)]
    BY DEF Batch
<1> HIDE DEF choice, size, Before, n
<1>9. Batch(R) \in Seq(Rows)
  <2>1. \A i \in 1 .. size : choice(i) \in Rows
      BY <1>7
  <2> QED BY <1>6, <1>8, <2>1
<1>10. DOMAIN Batch(R) = 1 .. size /\ \A i \in 1 .. size : Batch(R)[i] = choice(i)
    BY <1>8
<1>11. Rest(Batch(R)) \subseteq R
    BY <1>7, <1>10 DEF Rest
<1>12. \A i, j \in DOMAIN Batch(R) : i # j => Batch(R)[i] # Batch(R)[j]
  <2> SUFFICES ASSUME NEW i \in 1 .. size, NEW j \in 1 .. size, choice(i) = choice(j)
               PROVE  i = j
      BY <1>10
  <2> QED BY <1>6, <1>7
<1> QED BY <1>9, <1>11, <1>12

\* A mishap is counted and nothing else.
LEMMA MishapEffect ==
    ASSUME OutboxTyped, NEW f \in OutboxFaults, Mishap(f)
    PROVE  mishaps' \in [OutboxFaults -> Nat] /\ Blamed \in Nat /\ Blamed' = Blamed + 1
<1>1. /\ mishaps \in [OutboxFaults -> Nat] /\ mishaps' = [mishaps EXCEPT ![f] = @ + 1]
      /\ {"emit", "db", "crash"} = OutboxFaults
    BY DEF OutboxTyped, Mishap, OutboxFaults
<1>2. mishaps["emit"] \in Nat /\ mishaps["db"] \in Nat /\ mishaps["crash"] \in Nat
    BY <1>1
<1>3. CASE f = "emit"
    BY <1>1, <1>2, <1>3 DEF Blamed
<1>4. CASE f = "db"
    BY <1>1, <1>2, <1>4 DEF Blamed
<1>5. CASE f = "crash"
    BY <1>1, <1>2, <1>5 DEF Blamed
<1> QED BY <1>1, <1>3, <1>4, <1>5

\* A pass is undisturbed by what keeps its rows, their attempts and their locks.
LEMMA PassKept ==
    ASSUME OutboxTyped, NEW d \in Dispatchers, SoundPass(d), drain'[d] = drain[d],
           \A r \in Rows : locked[r] = d => locked'[r] = d /\ outbox'[r].attempts = outbox[r].attempts,
           whole \subseteq whole'
    PROVE  SoundPass(d)'
<1>1. NotedRows(d)' = NotedRows(d)
    BY DEF NotedRows
<1>2. drain[d].updates \subseteq Noted /\ drain[d].batch \in Seq(Rows)
    BY DEF OutboxTyped, Pass
<1>3. ASSUME NEW u \in drain[d].updates
      PROVE  u.row \in Rows /\ locked[u.row] = d /\ u.row \in NotedRows(d)
    BY <1>2 DEF SoundPass, NotedRows, Noted
<1>4. Rest(drain[d].batch) \cup NotedRows(d) \subseteq Rows
    BY <1>2, <1>3 DEF Rest, NotedRows
<1> QED BY <1>1, <1>3, <1>4 DEF SoundPass, Rest

\* Appending a row, the end of its transaction and its moment concern no pass.
LEMMA RowChanges ==
    ASSUME OutboxIInv, outbox' \in [Rows -> Outgoing],
           \A r \in Rows : /\ outbox'[r].attempts = outbox[r].attempts
                           /\ \/ outbox'[r].state = outbox[r].state
                              \/ /\ outbox[r].state \in {"none", "open"}
                                 /\ outbox'[r].state # "dispatched",
           UNCHANGED <<locked, drain, emits, whole, mishaps>>
    PROVE  OutboxIInv'
<1>1. OutboxTyped'
    BY DEF OutboxIInv, OutboxTyped
<1>2. ASSUME NEW d \in Dispatchers PROVE SoundPass(d)'
    BY PassKept DEF OutboxIInv
<1>3. LockedArePending'
    BY DEF OutboxIInv, LockedArePending
<1>4. Blamed' = Blamed /\ \A r \in Rows : Closing(r)' <=> Closing(r)
    BY DEF Blamed, Closing
<1>5. RowsEarned'
    BY <1>4 DEF OutboxIInv, RowsEarned
<1>6. EmitsAreCommitted'
    BY DEF OutboxIInv, EmitsAreCommitted, OutboxTyped
<1> QED BY <1>1, <1>2, <1>3, <1>5, <1>6 DEF OutboxIInv

LEMMA RowsCome ==
    ASSUME OutboxIInv, NEW r \in Rows, AppendRow(r) \/ EndTransaction(r) \/ ComesDue(r)
    PROVE  OutboxIInv'
<1>1. UNCHANGED <<locked, drain, emits, whole, mishaps>>
    BY DEF AppendRow, EndTransaction, ComesDue
<1>2. outbox \in [Rows -> Outgoing] /\ outbox[r] \in Outgoing
    BY DEF OutboxIInv, OutboxTyped
<1>3. /\ \A q \in Rows \ {r} : outbox'[q] = outbox[q]
      /\ DOMAIN outbox' = Rows /\ outbox' = [q \in Rows |-> outbox'[q]]
      /\ outbox'[r] \in Outgoing /\ outbox'[r].attempts = outbox[r].attempts
      /\ \/ outbox'[r].state = outbox[r].state
         \/ outbox[r].state \in {"none", "open"} /\ outbox'[r].state # "dispatched"
  <2>1. CASE AppendRow(r)
      BY <1>2, <2>1 DEF AppendRow, Outgoing, RowStates
  <2>2. CASE EndTransaction(r)
    <3>1. PICK state \in {"pending", "rolledback"} : outbox' = [outbox EXCEPT ![r].state = state]
        BY <2>2 DEF EndTransaction
    <3> QED BY <1>2, <2>2, <3>1 DEF EndTransaction, Outgoing, RowStates
  <2>3. CASE ComesDue(r)
      BY <1>2, <2>3 DEF ComesDue, Outgoing, RowStates
  <2> QED BY <2>1, <2>2, <2>3
<1>4. outbox' \in [Rows -> Outgoing]
    BY <1>2, <1>3
<1> QED BY <1>1, <1>3, <1>4, RowChanges

LEMMA BatchIsTaken ==
    ASSUME OutboxIInv, NEW d \in Dispatchers, Select(d) PROVE OutboxIInv'
<1> DEFINE batch == Batch({r \in Rows : Dispatchable(r)})
<1>1. /\ drain[d].pc = "idle" /\ batch # <<>>
      /\ drain' = [drain EXCEPT ![d] = [pc |-> "row", batch |-> batch, updates |-> {}]]
      /\ locked' = [r \in Rows |-> IF r \in Rest(batch) THEN d ELSE locked[r]]
      /\ UNCHANGED <<outbox, emits, whole, mishaps>>
    BY DEF Select
<1>2. /\ batch \in Seq(Rows) /\ \A r \in Rest(batch) : r \in Rows /\ Dispatchable(r)
      /\ \A i, j \in DOMAIN batch : i # j => batch[i] # batch[j]
    BY BatchIsOfItsRows
<1> HIDE DEF batch
<1>3. /\ \A o \in Dispatchers \ {d} : drain'[o] = drain[o]
      /\ drain'[d] = [pc |-> "row", batch |-> batch, updates |-> {}]
      /\ drain' \in [Dispatchers -> Pass] /\ drain[d].updates = {}
  <2>1. drain \in [Dispatchers -> Pass] /\ drain[d].updates = {}
      BY <1>1 DEF OutboxIInv, OutboxTyped, SoundPass
  <2>2. [pc |-> "row", batch |-> batch, updates |-> {}] \in Pass
      BY <1>2 DEF Pass
  <2> QED BY <1>1, <2>1, <2>2
<1>4. OutboxTyped'
    BY <1>1, <1>3 DEF OutboxIInv, OutboxTyped
<1>5. ASSUME NEW o \in Dispatchers PROVE SoundPass(o)'
  <2>1. CASE o = d
    <3>1. NotedRows(d)' = {} /\ Rest(drain'[d].batch) = Rest(batch)
        BY <1>3 DEF NotedRows
    <3> QED BY <1>1, <1>2, <1>3, <2>1, <3>1 DEF SoundPass
  <2>2. CASE o # d
    <3>1. \A r \in Rows : locked[r] = o => locked'[r] = o
        BY <1>1, <1>2, OutboxAssumption DEF Dispatchable, Unlocked
    <3> QED BY <1>1, <1>3, <2>2, <3>1, PassKept DEF OutboxIInv
  <2> QED BY <2>1, <2>2
<1>6. LockedArePending'
    BY <1>1, <1>2 DEF OutboxIInv, LockedArePending, Dispatchable
<1>7. Blamed' = Blamed
    BY <1>1 DEF Blamed
<1>8. ASSUME NEW r \in Rows PROVE Closing(r)' <=> Closing(r)
  <2>1. drain'[d].updates = drain[d].updates
      BY <1>3
  <2>2. \A o \in Dispatchers : drain'[o].updates = drain[o].updates
      BY <1>3, <2>1
  <2> QED BY <2>2 DEF Closing
<1>9. RowsEarned' /\ EmitsAreCommitted'
    BY <1>1, <1>7, <1>8 DEF OutboxIInv, RowsEarned, EmitsAreCommitted
<1> QED BY <1>4, <1>5, <1>6, <1>9 DEF OutboxIInv

LEMMA RowIsEmitted ==
    ASSUME OutboxIInv, NEW d \in Dispatchers, EmitRow(d) PROVE OutboxIInv'
<1>1. drain[d].pc = "row" /\ UNCHANGED <<outbox, locked>>
    BY DEF EmitRow
<1>2. /\ drain[d] \in Pass /\ drain \in [Dispatchers -> Pass]
      /\ drain[d].batch \in Seq(Rows) /\ drain[d].batch # <<>> /\ SoundPass(d)
    BY <1>1 DEF OutboxIInv, OutboxTyped, Pass, SoundPass
<1>3. PICK r \in Rows : r = Head(drain[d].batch)
    BY <1>2
<1>4. PICK fails \in BOOLEAN :
        /\ IF fails THEN Mishap("emit") /\ outbox[r].attempts < MaxAttempts ELSE UNCHANGED mishaps
        /\ emits' = [emits EXCEPT ![r] = @ + 1]
        /\ whole' = IF fails THEN whole ELSE whole \cup {r}
        /\ drain' = [drain EXCEPT
               ![d].pc = IF Len(drain[d].batch) = 1 THEN "over" ELSE "row",
               ![d].batch = Tail(@),
               ![d].updates = @ \cup {[row |-> r, dispatched |-> ~fails]}]
    BY <1>3 DEF EmitRow
<1> DEFINE rest == Tail(drain[d].batch)
           update == [row |-> r, dispatched |-> ~fails]
<1>5. /\ r \in Rows /\ rest \in Seq(Rows) /\ r \in Rest(drain[d].batch)
      /\ \A q \in Rest(rest) : q # r /\ q \in Rest(drain[d].batch)
      /\ \A i, j \in DOMAIN rest : i # j => rest[i] # rest[j]
      /\ Len(drain[d].batch) = 1 <=> rest = <<>>
  <2> DEFINE b == drain[d].batch
  <2>1. /\ b \in Seq(Rows) /\ b # <<>> /\ Len(b) \in Nat /\ Len(b) > 0 /\ DOMAIN b = 1 .. Len(b)
        /\ \A i, j \in DOMAIN b : i # j => b[i] # b[j]
      BY <1>2 DEF SoundPass
  <2> HIDE DEF b
  <2>2. /\ Head(b) = b[1] /\ b[1] \in Rows /\ Tail(b) \in Seq(Rows)
        /\ Len(Tail(b)) = Len(b) - 1 /\ DOMAIN Tail(b) = 1 .. Len(b) - 1
        /\ \A i \in 1 .. Len(b) - 1 : Tail(b)[i] = b[i + 1]
      BY <2>1
  <2>3. b[1] \in Rest(b) /\ \A i, j \in DOMAIN Tail(b) : i # j => Tail(b)[i] # Tail(b)[j]
      BY <2>1, <2>2 DEF Rest
  <2>4. \A q \in Rest(Tail(b)) : q # b[1] /\ q \in Rest(b)
      BY <2>1, <2>2 DEF Rest
  <2>5. Len(b) = 1 <=> Tail(b) = <<>>
      BY <2>1, <2>2
  <2> QED BY <1>3, <2>2, <2>3, <2>4, <2>5 DEF b
<1> HIDE DEF rest
<1>6. locked[r] = d /\ outbox[r].state = "pending" /\ r \notin NotedRows(d)
  <2>1. locked[r] = d /\ r \notin NotedRows(d)
      BY <1>2, <1>5 DEF SoundPass
  <2> QED BY <1>5, <2>1, OutboxAssumption DEF OutboxIInv, LockedArePending
<1>7. update \in Noted
    BY <1>5 DEF Noted
<1>8. /\ \A o \in Dispatchers \ {d} : drain'[o] = drain[o]
      /\ drain'[d].pc = (IF rest = <<>> THEN "over" ELSE "row")
      /\ drain'[d].batch = rest /\ drain'[d].updates = drain[d].updates \cup {update}
      /\ drain' \in [Dispatchers -> Pass]
  <2>1. drain[d].updates \in SUBSET Noted
      BY <1>2 DEF Pass
  <2> DEFINE new == [pc |-> IF rest = <<>> THEN "over" ELSE "row", batch |-> rest,
                     updates |-> drain[d].updates \cup {update}]
  <2>2. new \in Pass
      BY <1>5, <1>7, <2>1 DEF Pass
  <2>3. drain' = [drain EXCEPT ![d] = new]
      BY <1>4, <1>2, <1>5, SMTT(20) DEF rest, Pass
  <2> HIDE DEF update
  <2> QED BY <1>2, <2>2, <2>3
<1> HIDE DEF update
<1>9. update.row = r /\ update.dispatched = ~fails
    BY DEF update
<1>10. /\ mishaps' \in [OutboxFaults -> Nat] /\ Blamed \in Nat
      /\ Blamed' = (IF fails THEN Blamed + 1 ELSE Blamed)
  <2>1. CASE fails
      BY <1>4, <2>1, MishapEffect DEF OutboxIInv, OutboxFaults
  <2>2. CASE ~fails
      BY <1>4, <2>2 DEF OutboxIInv, OutboxTyped, OutboxFaults, Blamed
  <2> QED BY <2>1, <2>2
<1>11. OutboxTyped'
    BY <1>4, <1>1, <1>5, <1>8, <1>10 DEF OutboxIInv, OutboxTyped
<1>12. NotedRows(d)' = NotedRows(d) \cup {r}
    BY <1>8, <1>9 DEF NotedRows
<1>13. ASSUME NEW o \in Dispatchers PROVE SoundPass(o)'
  <2>1. CASE o = d
    <3>1. drain'[d].pc = "row" <=> drain'[d].batch # <<>>
        BY <1>8
    <3>2. drain'[d].pc \notin {"idle", "ended"}
        BY <1>8
    <3>3. \A q \in Rest(drain'[d].batch) \cup NotedRows(d)' : locked'[q] = d
        BY <1>1, <1>2, <1>5, <1>6, <1>8, <1>12 DEF SoundPass
    <3>4. Rest(drain'[d].batch) \cap NotedRows(d)' = {}
        BY <1>2, <1>5, <1>8, <1>12 DEF SoundPass
    <3>5. \A i, j \in DOMAIN drain'[d].batch : i # j => drain'[d].batch[i] # drain'[d].batch[j]
        BY <1>5, <1>8
    <3>6. ASSUME NEW u \in drain'[d].updates
          PROVE  /\ u.dispatched => u.row \in whole'
                 /\ ~u.dispatched => outbox'[u.row].attempts < MaxAttempts
      <4>1. CASE u = update
          BY <1>4, <1>1, <1>9, <4>1
      <4>2. CASE u \in drain[d].updates
          BY <1>4, <1>1, <1>2, <4>2 DEF SoundPass
      <4> QED BY <1>8, <4>1, <4>2
    <3> QED BY <2>1, <3>1, <3>2, <3>3, <3>4, <3>5, <3>6 DEF SoundPass
  <2>2. CASE o # d
      BY <1>4, <1>1, <1>8, <2>2, PassKept DEF OutboxIInv
  <2> QED BY <2>1, <2>2
<1>14. LockedArePending'
    BY <1>1 DEF OutboxIInv, LockedArePending
<1>15. ~Closing(r)
  <2> SUFFICES ASSUME NEW o \in Dispatchers,
                      [row |-> r, dispatched |-> TRUE] \in drain[o].updates
               PROVE  FALSE
      BY DEF Closing
  <2>1. r \in NotedRows(o)
      BY DEF NotedRows
  <2>2. locked[r] = o
      BY <2>1 DEF OutboxIInv, SoundPass
  <2> QED BY <1>6, <2>1, <2>2
<1>16. Closing(r)' <=> ~fails
  <2>1. [row |-> r, dispatched |-> TRUE] = update <=> ~fails
      BY DEF update
  <2>2. CASE fails
    <3>1. ASSUME NEW o \in Dispatchers
          PROVE  [row |-> r, dispatched |-> TRUE] \notin drain'[o].updates
      <4>1. [row |-> r, dispatched |-> TRUE] \notin drain[o].updates
          BY <1>15 DEF Closing
      <4> QED BY <1>8, <2>1, <2>2, <4>1
    <3> QED BY <2>2, <3>1 DEF Closing
  <2>3. CASE ~fails
    <3>1. [row |-> r, dispatched |-> TRUE] \in drain'[d].updates
        BY <1>8, <2>1, <2>3
    <3> QED BY <2>3, <3>1 DEF Closing
  <2> QED BY <2>2, <2>3
<1>17. ASSUME NEW q \in Rows, q # r PROVE Closing(q)' <=> Closing(q)
  <2>1. [row |-> q, dispatched |-> TRUE] # update
      BY <1>9, <1>17
  <2>2. \A o \in Dispatchers : [row |-> q, dispatched |-> TRUE] \in drain'[o].updates
                               <=> [row |-> q, dispatched |-> TRUE] \in drain[o].updates
      BY <1>8, <2>1
  <2> QED BY <2>2 DEF Closing
<1>18. ASSUME NEW q \in Rows
       PROVE  /\ emits'[q] <= 1 + Blamed'
              /\ outbox'[q].state # "dispatched" /\ ~Closing(q)' => emits'[q] <= Blamed'
  <2>1. /\ emits[q] \in Nat /\ emits[q] <= 1 + Blamed
        /\ outbox[q].state # "dispatched" /\ ~Closing(q) => emits[q] <= Blamed
      BY DEF OutboxIInv, OutboxTyped, RowsEarned
  <2>2. CASE q = r
    <3>1. emits'[q] = emits[q] + 1
        BY <1>4, <2>2 DEF OutboxIInv, OutboxTyped
    <3>2. emits[q] <= Blamed
        BY <1>6, <1>15, <2>1, <2>2
    <3>3. emits'[q] <= 1 + Blamed /\ (fails => Blamed' = Blamed + 1) /\ (~fails => Blamed' = Blamed)
        BY <1>10, <2>1, <3>1, <3>2
    <3>4. Closing(q)' <=> ~fails
        BY <1>16, <2>2
    <3> QED BY <1>10, <2>1, <3>1, <3>3, <3>4
  <2>3. CASE q # r
    <3>1. emits'[q] = emits[q] /\ outbox'[q] = outbox[q]
        BY <1>4, <1>1, <2>3 DEF OutboxIInv, OutboxTyped
    <3> QED BY <1>10, <1>17, <2>1, <2>3, <3>1
  <2> QED BY <2>2, <2>3
<1>19. EmitsAreCommitted'
  <2> SUFFICES ASSUME NEW q \in Rows
               PROVE  /\ emits'[q] > 0 => outbox'[q].state \in {"pending", "dispatched"}
                      /\ outbox'[q].state = "dispatched" => q \in whole'
      BY DEF EmitsAreCommitted
  <2>1. q # r => emits'[q] = emits[q]
      BY <1>4 DEF OutboxIInv, OutboxTyped
  <2> QED BY <1>4, <1>1, <1>6, <2>1 DEF OutboxIInv, EmitsAreCommitted
<1> QED BY <1>11, <1>13, <1>14, <1>18, <1>19 DEF OutboxIInv, RowsEarned

LEMMA PassCommits ==
    ASSUME OutboxIInv, NEW d \in Dispatchers, CommitBatch(d) PROVE OutboxIInv'
<1>1. /\ drain[d].pc = "over" /\ outbox' = [r \in Rows |-> Updated(r, drain[d].updates)]
      /\ locked' = [r \in Rows |-> IF locked[r] = d THEN "none" ELSE locked[r]]
      /\ drain' = [drain EXCEPT ![d] = NoDrain]
      /\ UNCHANGED <<emits, whole, mishaps>>
    BY DEF CommitBatch, UnlockBatch
<1>2. /\ SoundPass(d) /\ drain[d].batch = <<>> /\ drain[d].updates \subseteq Noted
    BY <1>1 DEF OutboxIInv, OutboxTyped, SoundPass, Pass
<1>3. ASSUME NEW u \in drain[d].updates
      PROVE  /\ u \in Noted /\ u.row \in Rows /\ locked[u.row] = d
             /\ outbox[u.row].state = "pending"
             /\ u.dispatched => u.row \in whole
             /\ ~u.dispatched => outbox[u.row].attempts < MaxAttempts
  <2>1. u.row \in NotedRows(d) /\ u.row \in Rows
      BY <1>2 DEF NotedRows, Noted
  <2>2. locked[u.row] = d
      BY <1>2, <2>1 DEF SoundPass
  <2> QED BY <1>2, <2>1, <2>2, OutboxAssumption DEF OutboxIInv, SoundPass, LockedArePending
<1>4. ASSUME NEW r \in Rows
      PROVE  /\ outbox'[r] \in Outgoing
             /\ outbox'[r].state # outbox[r].state =>
                 /\ [row |-> r, dispatched |-> TRUE] \in drain[d].updates
                 /\ outbox[r].state = "pending" /\ outbox'[r].state = "dispatched" /\ r \in whole
             /\ [row |-> r, dispatched |-> TRUE] \in drain[d].updates
                    => outbox'[r].state = "dispatched"
             /\ locked[r] # d => outbox'[r] = outbox[r]
  <2>1. outbox'[r] = Updated(r, drain[d].updates) /\ outbox[r] \in Outgoing
      BY <1>1 DEF OutboxIInv, OutboxTyped
  <2>2. CASE [row |-> r, dispatched |-> TRUE] \in drain[d].updates
    <3>1. locked[r] = d /\ outbox[r].state = "pending" /\ r \in whole
        BY <1>3, <2>2
    <3>2. outbox'[r] = [outbox[r] EXCEPT !.state = "dispatched"]
        BY <2>1, <2>2 DEF Updated
    <3> QED BY <2>1, <2>2, <3>1, <3>2 DEF Outgoing, RowStates
  <2>3. CASE /\ [row |-> r, dispatched |-> TRUE] \notin drain[d].updates
             /\ [row |-> r, dispatched |-> FALSE] \in drain[d].updates
    <3>1. locked[r] = d /\ outbox[r].attempts < MaxAttempts
        BY <1>3, <2>3
    <3>2. outbox'[r] = [outbox[r] EXCEPT !.due = FALSE, !.attempts = @ + 1]
        BY <2>1, <2>3 DEF Updated
    <3>3. outbox[r].attempts + 1 \in 0 .. MaxAttempts
        BY <2>1, <3>1, OutboxAssumption DEF Outgoing
    <3> QED BY <2>1, <2>3, <3>1, <3>2, <3>3 DEF Outgoing
  <2>4. CASE /\ [row |-> r, dispatched |-> TRUE] \notin drain[d].updates
             /\ [row |-> r, dispatched |-> FALSE] \notin drain[d].updates
      BY <2>1, <2>4 DEF Updated
  <2> QED BY <2>2, <2>3, <2>4
<1>5. /\ \A o \in Dispatchers \ {d} : drain'[o] = drain[o]
      /\ drain'[d] = NoDrain /\ drain' \in [Dispatchers -> Pass]
  <2>1. NoDrain \in Pass
      BY DEF NoDrain, Pass
  <2> QED BY <1>1, <2>1 DEF OutboxIInv, OutboxTyped
<1>6. OutboxTyped'
  <2>1. outbox' \in [Rows -> Outgoing]
      BY <1>1, <1>4
  <2>2. locked' \in [Rows -> Dispatchers \cup {"none"}]
      BY <1>1 DEF OutboxIInv, OutboxTyped
  <2> QED BY <1>1, <1>5, <2>1, <2>2 DEF OutboxIInv, OutboxTyped
<1>7. ASSUME NEW o \in Dispatchers PROVE SoundPass(o)'
  <2>1. CASE o = d
      BY <1>5, <2>1 DEF SoundPass, NotedRows, NoDrain, Rest
  <2>2. CASE o # d
    <3>1. \A r \in Rows : locked[r] = o => locked'[r] = o /\ outbox'[r] = outbox[r]
        BY <1>1, <1>4, <2>2
    <3> QED BY <1>1, <1>5, <2>2, <3>1, PassKept DEF OutboxIInv
  <2> QED BY <2>1, <2>2
<1>8. LockedArePending'
    BY <1>1, <1>4 DEF OutboxIInv, LockedArePending
<1>9. Blamed' = Blamed
    BY <1>1 DEF Blamed
<1>10. ASSUME NEW r \in Rows, outbox'[r].state # "dispatched", ~Closing(r)'
       PROVE  outbox[r].state # "dispatched" /\ ~Closing(r)
    BY <1>4, <1>5, <1>10 DEF Closing
<1>11. RowsEarned'
    BY <1>1, <1>9, <1>10 DEF OutboxIInv, RowsEarned
<1>12. EmitsAreCommitted'
    BY <1>1, <1>4 DEF OutboxIInv, EmitsAreCommitted
<1> QED BY <1>6, <1>7, <1>8, <1>11, <1>12 DEF OutboxIInv

LEMMA PassIsLost ==
    ASSUME OutboxIInv, NEW d \in Dispatchers, DatabaseFails(d) \/ Restart(d) PROVE OutboxIInv'
<1>1. PICK pass \in {NoDrain, [NoDrain EXCEPT !.pc = "ended"]} :
          drain' = [drain EXCEPT ![d] = pass]
    BY DEF DatabaseFails, Restart
<1>2. /\ locked' = [r \in Rows |-> IF locked[r] = d THEN "none" ELSE locked[r]]
      /\ UNCHANGED <<outbox, emits, whole>>
    BY DEF DatabaseFails, Restart, UnlockBatch
<1>3. mishaps' \in [OutboxFaults -> Nat] /\ Blamed \in Nat /\ Blamed' = Blamed + 1
    BY MishapEffect DEF DatabaseFails, Restart, OutboxFaults, OutboxIInv
<1>4. pass \in Pass /\ pass.pc \in {"idle", "ended"} /\ pass.batch = <<>> /\ pass.updates = {}
  <2>1. pass \in {[pc |-> p, batch |-> <<>>, updates |-> {}] : p \in {"idle", "ended"}}
      BY DEF NoDrain
  <2>2. <<>> \in Seq(Rows) /\ {} \in SUBSET Noted
      OBVIOUS
  <2>3. PICK p \in {"idle", "ended"} : pass = [pc |-> p, batch |-> <<>>, updates |-> {}]
      BY <2>1
  <2> QED BY <2>2, <2>3 DEF Pass
<1>5. /\ \A o \in Dispatchers \ {d} : drain'[o] = drain[o]
      /\ drain'[d] = pass /\ drain' \in [Dispatchers -> Pass]
    BY <1>1, <1>4 DEF OutboxIInv, OutboxTyped
<1>6. OutboxTyped'
    BY <1>2, <1>3, <1>5 DEF OutboxIInv, OutboxTyped
<1>7. ASSUME NEW o \in Dispatchers PROVE SoundPass(o)'
  <2>1. CASE o = d
      BY <1>4, <1>5, <2>1 DEF SoundPass, NotedRows, Rest
  <2>2. CASE o # d
    <3>1. \A r \in Rows : locked[r] = o => locked'[r] = o
        BY <1>2, <2>2
    <3> QED BY <1>2, <1>5, <2>2, <3>1, PassKept DEF OutboxIInv
  <2> QED BY <2>1, <2>2
<1>8. LockedArePending' /\ EmitsAreCommitted'
    BY <1>2 DEF OutboxIInv, LockedArePending, EmitsAreCommitted
<1>9. ASSUME NEW r \in Rows PROVE emits'[r] <= Blamed' /\ emits'[r] <= 1 + Blamed'
    BY <1>2, <1>3 DEF OutboxIInv, OutboxTyped, RowsEarned
<1> QED BY <1>6, <1>7, <1>8, <1>9 DEF OutboxIInv, RowsEarned

LEMMA OutboxStarts ==
    ASSUME OutboxInit PROVE OutboxIInv
<1>1. OutboxTyped
    BY OutboxAssumption DEF OutboxInit, OutboxTyped, Outgoing, RowStates, Pass, NoDrain
<1>2. ASSUME NEW d \in Dispatchers PROVE SoundPass(d)
    BY DEF OutboxInit, SoundPass, NotedRows, NoDrain, Rest
<1>3. LockedArePending /\ EmitsAreCommitted
    BY DEF OutboxInit, LockedArePending, EmitsAreCommitted
<1>4. Blamed = 0
    BY DEF OutboxInit, Blamed, OutboxFaults
<1>5. RowsEarned
    BY <1>4 DEF OutboxInit, RowsEarned
<1> QED BY <1>1, <1>2, <1>3, <1>5 DEF OutboxIInv

LEMMA OutboxStep ==
    ASSUME OutboxIInv, [OutboxNext]_outboxVars PROVE OutboxIInv'
<1>1. CASE UNCHANGED outboxVars
  <2>1. outbox' \in [Rows -> Outgoing]
      BY <1>1 DEF outboxVars, OutboxIInv, OutboxTyped
  <2> QED BY <1>1, <2>1, RowChanges DEF outboxVars
<1>2. CASE OutboxNext
    BY <1>2, RowsCome, BatchIsTaken, RowIsEmitted, PassCommits, PassIsLost
       DEF OutboxNext, DispatcherStep
<1> QED BY <1>1, <1>2

THEOREM OutboxInductive == OutboxSpec => []OutboxIInv
<1> QED BY OutboxStarts, OutboxStep, PTL DEF OutboxSpec

\* Rows, locks and passes keep their types (runtime/outbox.py, outbox_dispatcher.py).
THEOREM OutboxIsTyped == OutboxSpec => []OutboxTypeOK
<1>1. OutboxIInv => OutboxTypeOK
    BY DEF OutboxIInv, OutboxTyped, OutboxTypeOK, Outgoing, Pass
<1> QED BY <1>1, OutboxInductive, PTL

\* However many dispatchers drain, in batches of whatever size: nothing uncommitted goes out,
\* nothing is closed that did not, and a row goes out again only once for each mishap
\* (runtime/outbox_dispatcher.py).
THEOREM RowsAreKept == OutboxSpec => [](EmitsAreCommitted /\ RepeatsAreEarned)
<1>1. OutboxIInv => EmitsAreCommitted /\ RepeatsAreEarned
  <2> SUFFICES ASSUME OutboxIInv PROVE EmitsAreCommitted /\ RepeatsAreEarned
      OBVIOUS
  <2>1. ASSUME NEW r \in Rows
        PROVE  emits[r] <= 1 + mishaps["emit"] + mishaps["db"] + mishaps["crash"]
    <3>1. mishaps["emit"] \in Nat /\ mishaps["db"] \in Nat /\ mishaps["crash"] \in Nat
        BY DEF OutboxIInv, OutboxTyped, OutboxFaults
    <3>2. emits[r] \in Nat /\ emits[r] <= 1 + Blamed
        BY DEF OutboxIInv, OutboxTyped, RowsEarned
    <3> QED BY <3>1, <3>2 DEF Blamed
  <2> QED BY <2>1 DEF OutboxIInv, RepeatsAreEarned
<1> QED BY <1>1, OutboxInductive, PTL

--------------------------------------------------------------------------------
\* What the runtime has promised it keeps, wherever a process dies between two of the
\* systems it works with.
THEOREM PromisesStayKept == PromisesSpec => []PromisesAreKept
<1>1. NoLetterVanishes /\ EveryReplayIsAudited /\ ReplaysNeedFaults
      /\ EmitsAreCommitted /\ RepeatsAreEarned => PromisesAreKept
    BY DEF PromisesAreKept
<1> QED BY <1>1, LettersAreKept, RowsAreKept, PTL DEF PromisesSpec

--------------------------------------------------------------------------------
(***************************************************************************)
(* The tagger's tasks                                                       *)
(***************************************************************************)

Results == {Nothing} \cup {Payload(Submitted[t].paths, replies) : t \in Tasks, replies \in BOOLEAN}

Row == [status : Unfinished \cup {"none", "completed", "failed"}, result : Results, attempts : Nat]

WorkerSteps == {"waits", "infers", "runs", "posts", "taken", "refused", "ended"}

TaggerTyped ==
    /\ process \in [exits : BOOLEAN, at : Lifespan]
    /\ batches \in [Tasks -> Row]
    /\ older \subseteq Tasks \X Tasks
    /\ waiting \in Seq(Tasks) /\ claimed \subseteq Tasks /\ delayed \subseteq Tasks
    /\ worker \in [at : WorkerSteps, task : Tasks \cup {Nothing}]
    /\ model \in [timer : BOOLEAN, threads : SUBSET (Tasks \cup {Nothing})]
    /\ received \in [Tasks -> Nat] /\ overtakes \in [Tasks -> [Tasks -> Nat]]
    /\ taggings \in [TaggerFaults -> Nat]

\* What the worker is at fits the row of its task; what is claimed is unfinished, what is
\* delayed has its result.
RowsAgree ==
    /\ worker.at \in {"waits", "ended"} <=> worker.task = Nothing
    /\ worker.at \in {"infers", "runs"} => batches[worker.task].status = "running"
    /\ worker.at \in {"posts", "taken", "refused"} =>
          batches[worker.task].status = "pending_callback"
    /\ \A t \in delayed : batches[t].status = "pending_callback"
    /\ \A t \in claimed : batches[t].status \in Unfinished
    /\ \A t \in Tasks : batches[t].status = "pending_callback" => batches[t].result # Nothing

\* In the queue u comes before t.
AheadOf(u, t) == \A j \in DOMAIN waiting : waiting[j] = t => \E i \in 1 .. j - 1 : waiting[i] = u

\* Whoever was overtaken and still waits is older than who overtook it, and first in the queue.
InTurn ==
    /\ \A u, t \in Tasks : ~(<<u, t>> \in older /\ <<t, u>> \in older)
    /\ \A u, t \in Tasks :
        /\ overtakes[u][t] <= 1
        /\ batches[u].status = "none" \/ (worker.at \in {"infers", "runs"} /\ worker.task = u) =>
              overtakes[u][t] = 0
        /\ WaitsForRun(u) /\ overtakes[u][t] > 0 =>
              /\ u # t /\ <<u, t>> \in older
              /\ worker.at # "ended" /\ WaitsForRun(t) => AheadOf(u, t)

\* Once for its answer, and once more for each answer lost, each death and each stop.
Allowed == taggings["lost"] + taggings["crash"] + taggings["stop"]

Due(t) ==
    IF worker.at = "ended" \/ (worker.at = "taken" /\ worker.task = t)
       \/ batches[t].status \in {"completed", "failed"} THEN 1 ELSE 0

Earned ==
    \A t \in Tasks :
        /\ received[t] <= Allowed + Due(t)
        /\ batches[t].status = "completed" \/ (worker.at = "taken" /\ worker.task = t) =>
              received[t] > 0
        /\ batches[t].status = "failed" =>
              batches[t].attempts > Retries
              \/ taggings["stage"] + taggings["timeout"] + taggings["store"] > 0

\* Before a boot and after a stop nothing is in hand.  Where a late run takes the process
\* with it, only the worker's thread is on the stages, and after a stop the thread it left
\* behind beside the one that unloads.
Alone ==
    /\ process.at # "up" => worker = Idle /\ waiting = <<>> /\ claimed = {}
    /\ process.exits =>
        /\ worker.at = "runs" => model.threads \subseteq {worker.task}
        /\ process.at = "up" /\ worker.at # "runs" => model.threads \subseteq {Nothing}
        /\ \E t \in Tasks \cup {Nothing} : model.threads \subseteq {t, Nothing}

TagsIInv == TaggerTyped /\ OnceInHand /\ RowsAgree /\ InTurn /\ Earned /\ Alone

\* The worker has t, and w is still in the queue.
Taken(t, w) ==
    /\ IsInjective(w) /\ ToSet(w) \cup delayed \cup {t} = claimed
    /\ ToSet(w) \cap delayed = {} /\ t \notin ToSet(w) \cup delayed

LEMMA TailOfInjective ==
    ASSUME NEW S, NEW w \in Seq(S), w # <<>>, IsInjective(w)
    PROVE  /\ Tail(w) \in Seq(S) /\ IsInjective(Tail(w)) /\ Head(w) \in S
           /\ Head(w) \notin ToSet(Tail(w)) /\ ToSet(w) = ToSet(Tail(w)) \cup {Head(w)}
           /\ DOMAIN w = 1 .. Len(w) /\ Len(w) \in Nat
           /\ DOMAIN Tail(w) = 1 .. Len(w) - 1 /\ Head(w) = w[1]
           /\ \A i \in 1 .. Len(w) - 1 : Tail(w)[i] = w[i + 1]
<1>1. /\ Tail(w) \in Seq(S) /\ Head(w) \in S /\ Len(w) \in Nat /\ DOMAIN w = 1 .. Len(w)
      /\ DOMAIN Tail(w) = 1 .. Len(w) - 1 /\ Head(w) = w[1] /\ Len(w) > 0
      /\ \A i \in 1 .. Len(w) - 1 : Tail(w)[i] = w[i + 1]
    BY HeadTailProperties, LenProperties, EmptySeq
<1>2. IsInjective(Tail(w))
    BY <1>1 DEF IsInjective
<1>3. Head(w) \notin ToSet(Tail(w))
    BY <1>1 DEF IsInjective, ToSet
<1>4. ToSet(w) = ToSet(Tail(w)) \cup {Head(w)}
  <2>1. ASSUME NEW x \in ToSet(w) PROVE x \in ToSet(Tail(w)) \cup {Head(w)}
    <3>1. PICK i \in 1 .. Len(w) : x = w[i]
        BY <1>1, <2>1 DEF ToSet
    <3>2. CASE i = 1
        BY <1>1, <3>1, <3>2
    <3>3. CASE i # 1
      <4>1. i - 1 \in 1 .. Len(w) - 1 /\ Tail(w)[i - 1] = x
          BY <1>1, <3>1, <3>3
      <4> QED BY <1>1, <4>1 DEF ToSet
    <3> QED BY <3>2, <3>3
  <2>2. ASSUME NEW x \in ToSet(Tail(w)) \cup {Head(w)} PROVE x \in ToSet(w)
    <3>1. CASE x = Head(w)
        BY <1>1, <3>1 DEF ToSet
    <3>2. CASE x \in ToSet(Tail(w))
      <4>1. PICK i \in 1 .. Len(w) - 1 : x = w[i + 1]
          BY <1>1, <3>2 DEF ToSet
      <4>2. i + 1 \in 1 .. Len(w)
          BY <1>1, <4>1
      <4> QED BY <1>1, <4>1, <4>2 DEF ToSet
    <3> QED BY <2>2, <3>1, <3>2
  <2> QED BY <2>1, <2>2
<1> QED BY <1>1, <1>2, <1>3, <1>4

LEMMA UpdateEffect ==
    ASSUME TaggerTyped, NEW t \in Tasks, NEW row \in Row, Update(t, row)
    PROVE  /\ batches' \in [Tasks -> Row] /\ batches'[t] = row
           /\ \A u \in Tasks \ {t} : batches'[u] = batches[u]
           /\ older' \subseteq Tasks \X Tasks
           /\ \A u, v \in Tasks : <<u, v>> \in older' <=>
                 \/ u # t /\ v # t /\ <<u, v>> \in older
                 \/ v = t /\ u # t /\ batches[u].status # "none"
<1>1. /\ batches' = [batches EXCEPT ![t] = row] /\ batches \in [Tasks -> Row]
      /\ older \subseteq Tasks \X Tasks
    BY DEF Update, TaggerTyped
<1>2. /\ batches' \in [Tasks -> Row] /\ batches'[t] = row
      /\ \A u \in Tasks \ {t} : batches'[u] = batches[u]
    BY <1>1
<1>3. PICK others : /\ others = {u \in Tasks : u # t /\ batches[u].status # "none"}
                    /\ older' = {p \in older : t \notin {p[1], p[2]}} \cup others \X {t}
    BY DEF Update
<1>4. older' \subseteq Tasks \X Tasks
    BY <1>1, <1>3
<1>5. ASSUME NEW u \in Tasks, NEW v \in Tasks
      PROVE  <<u, v>> \in older' <=>
                 \/ u # t /\ v # t /\ <<u, v>> \in older
                 \/ v = t /\ u # t /\ batches[u].status # "none"
    BY <1>3
<1> QED BY <1>2, <1>4, <1>5

LEMMA ChargedEffect ==
    ASSUME TaggerTyped, NEW faults \in [TaggerFaults -> Nat], Charged(faults)
    PROVE  /\ taggings' \in [TaggerFaults -> Nat]
           /\ \A f \in TaggerFaults : taggings'[f] = taggings[f] + faults[f]
                                      /\ taggings'[f] >= taggings[f]
BY DEF Charged, TaggerTyped

LEMMA AllowedIsNat ==
    ASSUME taggings \in [TaggerFaults -> Nat] PROVE Allowed \in Nat
BY DEF Allowed, TaggerFaults

\* What was charged only grows.
LEMMA AllowedGrows ==
    ASSUME TaggerTyped, taggings' \in [TaggerFaults -> Nat],
           \A f \in TaggerFaults : taggings'[f] >= taggings[f]
    PROVE  Allowed \in Nat /\ Allowed' \in Nat /\ Allowed' >= Allowed
<1>1. {"lost", "crash", "stop"} \subseteq TaggerFaults
    BY DEF TaggerFaults
<1>2. taggings["lost"] \in Nat /\ taggings["crash"] \in Nat /\ taggings["stop"] \in Nat
    BY <1>1 DEF TaggerTyped
<1>3. /\ taggings'["lost"] \in Nat /\ taggings'["crash"] \in Nat /\ taggings'["stop"] \in Nat
      /\ taggings'["lost"] >= taggings["lost"] /\ taggings'["crash"] >= taggings["crash"]
      /\ taggings'["stop"] >= taggings["stop"]
    BY <1>1
<1> QED BY <1>2, <1>3 DEF Allowed

\* Whoever has something in hand is a process that is up.
LEMMA BusyIsUp ==
    ASSUME TagsIInv, worker.at # "waits" \/ waiting # <<>> \/ claimed # {}
    PROVE  /\ process.at = "up"
           /\ process.exits /\ worker.at # "runs" => model.threads \subseteq {Nothing}
<1>1. process.at = "up"
    BY DEF TagsIInv, Alone, Idle
<1> QED BY <1>1 DEF TagsIInv, Alone

LEMMA OnceIsOne ==
    ASSUME NEW fault \in TaggerFaults
    PROVE  /\ Once(fault) \in [TaggerFaults -> Nat] /\ Once(fault)[fault] = 1
           /\ [Once(fault) EXCEPT !["store"] = @ + 1] \in [TaggerFaults -> Nat]
           /\ [Once(fault) EXCEPT !["store"] = @ + 1][fault] >= 1
           /\ \A f \in TaggerFaults \ {fault} : Once(fault)[f] = 0
BY DEF Once, TaggerFaults

--------------------------------------------------------------------------------
\* A step of the worker about t: of its row, its place and itself.
WorkerMoves(t, row, d) ==
    /\ waiting' \in Seq(Tasks) /\ Taken(t, waiting')
    /\ \/ waiting' = waiting
       \/ waiting # <<>> /\ Head(waiting) = t /\ waiting' = Tail(waiting)
    /\ worker.at # "ended" /\ worker.task \in {t, Nothing}
    /\ Update(t, row) \/ (row = batches[t] /\ UNCHANGED <<batches, older>>)
    /\ worker' = d /\ d \in [at : WorkerSteps, task : {t, Nothing}]
    /\ \/ claimed' = claimed /\ delayed' = delayed /\ d.task = t
       \/ /\ claimed' = IF t \in delayed' THEN claimed ELSE claimed \ {t}
          /\ delayed' \in {delayed, delayed \cup {t}} /\ d.task = Nothing
    /\ d.at \in {"waits", "ended"} <=> d.task = Nothing

\* What it leaves is in order.
WorkerLeaves(t, row, d) ==
    /\ row.status # "none"
    /\ row.status = "pending_callback" => row.result # Nothing
    /\ d.at \in {"infers", "runs"} =>
          row.status = "running" /\ worker.at \in {"infers", "runs"} /\ worker.task = t
    /\ d.at \in {"posts", "taken", "refused"} \/ t \in delayed' => row.status = "pending_callback"
    /\ t \in claimed' => row.status \in Unfinished
    /\ row.status \in {"accepted", "running"} =>
          d.at \in {"ended", "infers", "runs"} /\ UNCHANGED <<batches, older>>

\* So are the stages and the histories.
WorkerEarns(t, row, d) ==
    /\ UNCHANGED <<process, overtakes>>
    /\ model' \in [timer : BOOLEAN, threads : SUBSET (Tasks \cup {Nothing})]
    /\ process.exits =>
          /\ d.at = "runs" => model'.threads \subseteq {t}
          /\ d.at # "runs" => model'.threads \subseteq {Nothing}
    /\ taggings' \in [TaggerFaults -> Nat] /\ \A f \in TaggerFaults : taggings'[f] >= taggings[f]
    /\ received' \in [Tasks -> Nat] /\ \A u \in Tasks \ {t} : received'[u] = received[u]
    /\ received'[t] <= Allowed'
                         + (IF d.at \in {"ended", "taken"} \/ row.status \in {"completed", "failed"}
                              THEN 1 ELSE 0)
    /\ row.status = "completed" \/ d.at = "taken" => received'[t] > 0
    /\ row.status = "failed" =>
          row.attempts > Retries
          \/ taggings'["stage"] + taggings'["timeout"] + taggings'["store"] > 0

LEMMA WorkerKeeps ==
    ASSUME TagsIInv, NEW t \in Tasks, NEW row \in Row, NEW d,
           WorkerMoves(t, row, d), WorkerLeaves(t, row, d), WorkerEarns(t, row, d)
    PROVE  TagsIInv'
<1>1. /\ TaggerTyped /\ RowsAgree /\ InTurn /\ Earned
      /\ Nothing \notin Tasks
    BY TaggerAssumption DEF TagsIInv
<1>2. /\ batches' \in [Tasks -> Row] /\ batches'[t] = row
      /\ \A u \in Tasks \ {t} : batches'[u] = batches[u]
      /\ older' \subseteq Tasks \X Tasks
      /\ \/ \A u, v \in Tasks : <<u, v>> \in older' <=>
               \/ u # t /\ v # t /\ <<u, v>> \in older
               \/ v = t /\ u # t /\ batches[u].status # "none"
         \/ older' = older
  <2>1. CASE Update(t, row)
      BY <1>1, <2>1, UpdateEffect
  <2>2. CASE row = batches[t] /\ UNCHANGED <<batches, older>>
      BY <1>1, <2>2 DEF TaggerTyped
  <2> QED BY <2>1, <2>2 DEF WorkerMoves
<1>3. /\ worker' = d /\ d \in [at : WorkerSteps, task : {t, Nothing}] /\ d.at \in WorkerSteps
      /\ d.task \in {t, Nothing}
    BY DEF WorkerMoves
<1>4. claimed \subseteq Tasks /\ delayed \subseteq Tasks /\ t \in claimed
    BY <1>1 DEF TaggerTyped, WorkerMoves, Taken
<1>5. claimed' \subseteq claimed /\ delayed' \subseteq delayed \cup {t}
    BY DEF WorkerMoves
<1>6. TaggerTyped'
  <2>1. claimed' \subseteq Tasks /\ delayed' \subseteq Tasks
      BY <1>4, <1>5
  <2>2. worker' \in [at : WorkerSteps, task : Tasks \cup {Nothing}]
      BY <1>3
  <2>3. waiting' \in Seq(Tasks)
      BY DEF WorkerMoves
  <2> QED BY <1>1, <1>2, <2>1, <2>2, <2>3 DEF TaggerTyped, WorkerEarns
<1>7. OnceInHand'
  <2>1. PICK w : w = waiting'
      OBVIOUS
  <2>2. /\ IsInjective(w) /\ ToSet(w) \cup delayed \cup {t} = claimed
        /\ ToSet(w) \cap delayed = {} /\ t \notin ToSet(w) \cup delayed
      BY <2>1 DEF WorkerMoves, Taken
  <2>3. CASE claimed' = claimed /\ delayed' = delayed /\ d.task = t
      BY <1>1, <1>3, <2>1, <2>2, <2>3 DEF OnceInHand
  <2>4. CASE /\ claimed' = (IF t \in delayed' THEN claimed ELSE claimed \ {t})
             /\ delayed' \in {delayed, delayed \cup {t}} /\ d.task = Nothing
    <3>1. CASE delayed' = delayed
        BY <1>1, <1>3, <2>1, <2>2, <2>4, <3>1 DEF OnceInHand
    <3>2. CASE delayed' = delayed \cup {t}
        BY <1>1, <1>3, <2>1, <2>2, <2>4, <3>2 DEF OnceInHand
    <3> QED BY <2>4, <3>1, <3>2
  <2> QED BY <2>3, <2>4 DEF WorkerMoves
<1>8. RowsAgree'
  <2>1. d.at \in {"waits", "ended"} <=> d.task = Nothing
      BY DEF WorkerMoves
  <2>2. /\ d.at \in {"infers", "runs"} => d.task = t /\ batches'[t].status = "running"
        /\ d.at \in {"posts", "taken", "refused"} =>
              d.task = t /\ batches'[t].status = "pending_callback"
      BY <1>2, <1>3, <2>1 DEF WorkerLeaves
  <2>3. ASSUME NEW u \in delayed' PROVE batches'[u].status = "pending_callback"
      BY <1>1, <1>2, <1>4, <1>5, <2>3 DEF RowsAgree, WorkerLeaves
  <2>4. ASSUME NEW u \in claimed' PROVE batches'[u].status \in Unfinished
      BY <1>1, <1>2, <1>4, <1>5, <2>4 DEF RowsAgree, WorkerLeaves
  <2>5. ASSUME NEW u \in Tasks, batches'[u].status = "pending_callback"
        PROVE  batches'[u].result # Nothing
      BY <1>1, <1>2, <2>5 DEF RowsAgree, WorkerLeaves
  <2> QED BY <1>3, <2>1, <2>2, <2>3, <2>4, <2>5 DEF RowsAgree, Unfinished
<1>9. InTurn'
  <2>1. ASSUME NEW u \in Tasks, NEW v \in Tasks, <<u, v>> \in older', <<v, u>> \in older'
        PROVE  FALSE
    <3>1. <<u, v>> \in older /\ <<v, u>> \in older
        BY <1>2, <2>1
    <3> QED BY <1>1, <3>1 DEF InTurn
  <2>2. overtakes' = overtakes
      BY DEF WorkerEarns
  <2>3. ASSUME NEW u \in Tasks, NEW v \in Tasks PROVE overtakes'[u][v] <= 1
      BY <1>1, <2>2 DEF InTurn
  <2>4. ASSUME NEW u \in Tasks, NEW v \in Tasks,
               batches'[u].status = "none" \/ (d.at \in {"infers", "runs"} /\ d.task = u)
        PROVE  overtakes'[u][v] = 0
    <3>1. batches[u].status = "none" \/ (worker.at \in {"infers", "runs"} /\ worker.task = u) =>
              overtakes[u][v] = 0
        BY <1>1 DEF InTurn
    <3>2. CASE batches'[u].status = "none"
      <4>1. u # t
          BY <1>2, <3>2 DEF WorkerLeaves
      <4>2. batches'[u] = batches[u]
          BY <1>2, <4>1
      <4>3. batches[u].status = "none"
          BY <3>2, <4>2
      <4> QED BY <2>2, <3>1, <4>3
    <3>3. CASE d.at \in {"infers", "runs"} /\ d.task = u
      <4>1. worker.at \in {"infers", "runs"} /\ worker.task = t
          BY <3>3 DEF WorkerLeaves
      <4>2. u = t
          BY <1>3, <3>3, TaggerAssumption
      <4>3. overtakes[u][v] = 0
          BY <3>1, <4>1, <4>2
      <4> QED BY <2>2, <4>3
    <3> QED BY <2>4, <3>2, <3>3
  <2>5. ASSUME NEW u \in Tasks, NEW v \in Tasks,
               batches'[u].status \in {"accepted", "running"}, overtakes'[u][v] > 0
        PROVE  /\ u # v /\ <<u, v>> \in older'
               /\ d.at # "ended" /\ batches'[v].status \in {"accepted", "running"} =>
                     AheadOf(u, v)'
    <3>1. CASE u = t
      <4>1. /\ d.at \in {"ended", "infers", "runs"} /\ batches' = batches /\ older' = older
          BY <1>2, <2>5, <3>1 DEF WorkerLeaves
      <4>2. d.at = "ended"
        <5>1. ASSUME d.at \in {"infers", "runs"} PROVE FALSE
          <6>1. worker.at \in {"infers", "runs"} /\ worker.task = u
              BY <3>1, <5>1 DEF WorkerLeaves
          <6>2. overtakes[u][v] = 0
              BY <1>1, <6>1 DEF InTurn
          <6> QED BY <2>2, <2>5, <6>2
        <5> QED BY <4>1, <5>1
      <4>3. u # v /\ <<u, v>> \in older
          BY <1>1, <2>2, <2>5, <4>1 DEF InTurn, WaitsForRun
      <4> QED BY <4>1, <4>2, <4>3
    <3>2. CASE u # t
      <4>1. /\ batches[u].status \in {"accepted", "running"} /\ overtakes[u][v] > 0
            /\ u # v /\ <<u, v>> \in older
          BY <1>1, <1>2, <2>2, <2>5, <3>2 DEF InTurn, WaitsForRun
      <4>2. <<u, v>> \in older'
          BY <1>2, <3>2, <4>1
      <4>3. ASSUME d.at # "ended", batches'[v].status \in {"accepted", "running"},
                   NEW j \in DOMAIN waiting', waiting'[j] = v
            PROVE  \E i \in 1 .. j - 1 : waiting'[i] = u
        <5>1. v # t
            BY <4>3 DEF WorkerMoves, Taken, ToSet
        <5>2. AheadOf(u, v)
            BY <1>1, <1>2, <4>1, <4>3, <5>1 DEF InTurn, WaitsForRun, WorkerMoves
        <5>3. CASE waiting' = waiting
            BY <4>3, <5>2, <5>3 DEF AheadOf
        <5>4. CASE waiting # <<>> /\ Head(waiting) = t /\ waiting' = Tail(waiting)
          <6>1. /\ DOMAIN waiting = 1 .. Len(waiting) /\ Len(waiting) \in Nat
                /\ DOMAIN waiting' = 1 .. Len(waiting) - 1 /\ waiting[1] = t
                /\ \A i \in 1 .. Len(waiting) - 1 : waiting'[i] = waiting[i + 1]
            <7>1. waiting \in Seq(Tasks) /\ IsInjective(waiting)
                BY DEF TagsIInv, TaggerTyped, OnceInHand
            <7> QED BY <5>4, <7>1, TailOfInjective
          <6>2. j + 1 \in DOMAIN waiting /\ waiting[j + 1] = v
              BY <4>3, <6>1
          <6>3. PICK i \in 1 .. j : waiting[i] = u
              BY <5>2, <6>1, <6>2 DEF AheadOf
          <6>4. i # 1
              BY <3>2, <6>1, <6>3
          <6>5. i - 1 \in 1 .. j - 1 /\ waiting'[i - 1] = u
              BY <4>3, <6>1, <6>3, <6>4
          <6> QED BY <6>5
        <5> QED BY <5>3, <5>4 DEF WorkerMoves
      <4> QED BY <4>1, <4>2, <4>3 DEF AheadOf
    <3> QED BY <3>1, <3>2
  <2> QED BY <1>3, <2>1, <2>3, <2>4, <2>5 DEF InTurn, WaitsForRun
<1>10. Earned'
  <2>1. ASSUME NEW u \in Tasks
        PROVE  /\ received'[u] <= Allowed' + Due(u)'
               /\ batches'[u].status = "completed" \/ (d.at = "taken" /\ d.task = u) =>
                    received'[u] > 0
               /\ batches'[u].status = "failed" =>
                    batches'[u].attempts > Retries
                    \/ taggings'["stage"] + taggings'["timeout"] + taggings'["store"] > 0
    <3>1. CASE u = t
      <4>1. d.at = "taken" => d.task = t
          BY <1>3 DEF WorkerMoves
      <4>2. Due(u)' = IF d.at \in {"ended", "taken"} \/ row.status \in {"completed", "failed"}
                        THEN 1 ELSE 0
          BY <1>2, <1>3, <3>1, <4>1 DEF Due
      <4> QED BY <1>2, <3>1, <4>2 DEF WorkerEarns
    <3>2. CASE u # t
      <4>1. /\ batches'[u] = batches[u] /\ received'[u] = received[u] /\ received[u] \in Nat
            /\ worker.task # u /\ worker.at # "ended" /\ d.task # u
          BY <1>1, <1>2, <1>3, <3>2, SMTT(20) DEF WorkerMoves, WorkerEarns, TaggerTyped
      <4>2. /\ Due(u) \in {0, 1} /\ Due(u)' \in {0, 1} /\ Due(u) <= Due(u)'
          BY <1>3, <4>1 DEF Due
      <4>3. \A f \in TaggerFaults : taggings[f] \in Nat /\ taggings'[f] \in Nat
                                    /\ taggings'[f] >= taggings[f]
          BY <1>1 DEF WorkerEarns, TaggerTyped
      <4>4. /\ received[u] <= Allowed + Due(u)
            /\ batches[u].status = "completed" => received[u] > 0
            /\ batches[u].status = "failed" =>
                    batches[u].attempts > Retries
                    \/ taggings["stage"] + taggings["timeout"] + taggings["store"] > 0
          BY <1>1 DEF Earned
      <4>5. Allowed \in Nat /\ Allowed' \in Nat /\ Allowed' >= Allowed
          BY <1>1, <4>3, AllowedGrows DEF WorkerEarns
      <4> QED BY <4>1, <4>2, <4>3, <4>4, <4>5 DEF TaggerFaults
    <3> QED BY <3>1, <3>2
  <2> QED BY <1>3, <2>1 DEF Earned
<1>11. Alone'
  <2>1. d.at = "runs" => d.task = t
      BY <1>3 DEF WorkerMoves
  <2>2. process' = process /\ process.at = "up"
      BY <1>4, BusyIsUp DEF WorkerEarns
  <2>3. process.exits =>
            /\ d.at = "runs" => model'.threads \subseteq {t}
            /\ d.at # "runs" => model'.threads \subseteq {Nothing}
      BY DEF WorkerEarns
  <2> QED BY <1>3, <2>1, <2>2, <2>3 DEF Alone
<1> QED BY <1>6, <1>7, <1>8, <1>9, <1>10, <1>11 DEF TagsIInv

--------------------------------------------------------------------------------
LEMMA WorkersTask ==
    ASSUME TagsIInv, worker.at \notin {"waits", "ended"}
    PROVE  /\ worker.task \in Tasks /\ Taken(worker.task, waiting) /\ waiting \in Seq(Tasks)
           /\ batches[worker.task] \in Row /\ batches[worker.task].status \in Unfinished
           /\ worker.task \in claimed /\ worker.task \notin delayed
<1>1. /\ worker.task \in Tasks /\ worker.task # Nothing
      /\ waiting \in Seq(Tasks) /\ batches \in [Tasks -> Row]
    BY DEF TagsIInv, TaggerTyped, RowsAgree
<1>2. /\ Taken(worker.task, waiting) /\ worker.task \in claimed /\ worker.task \notin delayed
    BY <1>1 DEF TagsIInv, OnceInHand, Taken
<1> QED BY <1>1, <1>2 DEF TagsIInv, RowsAgree

LEMMA HeadsTask ==
    ASSUME TagsIInv, worker.at = "waits", waiting # <<>>
    PROVE  /\ Head(waiting) \in Tasks /\ Taken(Head(waiting), Tail(waiting))
           /\ Tail(waiting) \in Seq(Tasks) /\ worker.task = Nothing
           /\ batches[Head(waiting)] \in Row /\ batches[Head(waiting)].status \in Unfinished
           /\ Head(waiting) \in claimed /\ Head(waiting) \notin delayed
<1>1. /\ waiting \in Seq(Tasks) /\ IsInjective(waiting) /\ worker.task = Nothing
      /\ ToSet(waiting) \cup delayed = claimed /\ ToSet(waiting) \cap delayed = {}
    BY DEF TagsIInv, TaggerTyped, OnceInHand, RowsAgree
<1>2. /\ Tail(waiting) \in Seq(Tasks) /\ IsInjective(Tail(waiting)) /\ Head(waiting) \in Tasks
      /\ Head(waiting) \notin ToSet(Tail(waiting))
      /\ ToSet(waiting) = ToSet(Tail(waiting)) \cup {Head(waiting)}
    BY <1>1, TailOfInjective
<1>3. Head(waiting) \in claimed /\ Head(waiting) \notin delayed
    BY <1>1, <1>2
<1>4. Taken(Head(waiting), Tail(waiting))
    BY <1>1, <1>2, <1>3 DEF Taken
<1> QED BY <1>1, <1>2, <1>3, <1>4 DEF TagsIInv, TaggerTyped, RowsAgree

LEMMA StatusIsARow ==
    ASSUME TaggerTyped, NEW t \in Tasks,
           NEW status \in Unfinished \cup {"none", "completed", "failed"}
    PROVE  /\ Status(t, status) \in Row /\ Status(t, status).status = status
           /\ Status(t, status).result = batches[t].result
           /\ Status(t, status).attempts = batches[t].attempts
<1>1. batches[t] \in Row
    BY DEF TaggerTyped
<1> QED BY <1>1 DEF Status, Row

LEMMA RowFailsKeeps ==
    ASSUME TagsIInv, NEW t \in Tasks, NEW fault \in {"stage", "timeout", "store"},
           RowFails(t, fault), waiting' \in Seq(Tasks), Taken(t, waiting'),
           waiting' = waiting \/ (waiting # <<>> /\ Head(waiting) = t /\ waiting' = Tail(waiting)),
           worker.at # "ended", worker.task \in {t, Nothing},
           UNCHANGED <<process, overtakes, received>>,
           model' \in [timer : BOOLEAN, threads : SUBSET (Tasks \cup {Nothing})],
           process.exits => model'.threads \subseteq {Nothing}
    PROVE  TagsIInv'
<1>1. /\ TaggerTyped /\ t \in claimed /\ t \notin delayed /\ batches[t] \in Row
      /\ batches[t].status \in Unfinished
      /\ batches[t].status = "pending_callback" => batches[t].result # Nothing
      /\ delayed' = delayed /\ LetsGo(t)
    BY DEF TagsIInv, TaggerTyped, RowsAgree, Taken, RowFails
<1>2. claimed' = claimed \ {t} /\ t \notin claimed' /\ t \notin delayed'
    BY <1>1 DEF LetsGo
<1>3. /\ fault \in TaggerFaults
      /\ received[t] <= Allowed + Due(t) /\ received[t] \in Nat
      /\ Due(t) \in {0, 1} /\ received \in [Tasks -> Nat] /\ taggings \in [TaggerFaults -> Nat]
      /\ Allowed \in Nat
    BY AllowedIsNat DEF TagsIInv, Earned, TaggerTyped, TaggerFaults, Due
<1>4. CASE Update(t, Status(t, "failed")) /\ worker' = Idle /\ Charged(Once(fault))
  <2>1. PICK row, d : row = Status(t, "failed") /\ d = [at |-> "waits", task |-> Nothing]
      OBVIOUS
  <2>2. row \in Row /\ row.status = "failed"
      BY <1>1, <2>1, StatusIsARow
  <2>3. /\ taggings' \in [TaggerFaults -> Nat]
        /\ \A f \in TaggerFaults : taggings'[f] >= taggings[f]
        /\ taggings'[fault] > 0
    <3>1. Once(fault) \in [TaggerFaults -> Nat] /\ Once(fault)[fault] = 1
        BY <1>3, OnceIsOne
    <3>2. PICK once \in [TaggerFaults -> Nat] : once[fault] = 1 /\ Charged(once)
        BY <1>4, <3>1
    <3>3. /\ taggings' \in [TaggerFaults -> Nat]
          /\ \A f \in TaggerFaults : taggings'[f] = taggings[f] + once[f]
                                     /\ taggings'[f] >= taggings[f]
        BY <1>1, <3>2, ChargedEffect
    <3>4. taggings[fault] \in Nat /\ taggings'[fault] = taggings[fault] + 1
        BY <1>3, <3>2, <3>3
    <3> QED BY <3>3, <3>4
  <2>4. WorkerMoves(t, row, d)
      BY <1>1, <1>2, <1>4, <2>1 DEF WorkerMoves, Idle, WorkerSteps
  <2>5. WorkerLeaves(t, row, d)
      BY <1>2, <2>1, <2>2 DEF WorkerLeaves
  <2>6. /\ received'[t] <= Allowed' + 1
        /\ taggings'["stage"] + taggings'["timeout"] + taggings'["store"] > 0
    <3>1. \A f \in TaggerFaults : taggings[f] \in Nat /\ taggings'[f] \in Nat
                                   /\ taggings'[f] >= taggings[f]
        BY <1>3, <2>3
    <3>2. {"stage", "timeout", "store"} \subseteq TaggerFaults
        BY DEF TaggerFaults
    <3>3. Allowed' \in Nat /\ Allowed' >= Allowed
        BY <1>1, <2>3, AllowedGrows
    <3>4. received'[t] <= Allowed' + 1
        BY <1>3, <3>1, <3>2, <3>3
    <3>5. taggings'["stage"] + taggings'["timeout"] + taggings'["store"] > 0
      <4>1. /\ taggings'["stage"] \in Nat /\ taggings'["timeout"] \in Nat
            /\ taggings'["store"] \in Nat
            /\ taggings'["stage"] > 0 \/ taggings'["timeout"] > 0 \/ taggings'["store"] > 0
          BY <2>3, <3>1, <3>2
      <4> QED BY <4>1
    <3> QED BY <3>4, <3>5
  <2>7. WorkerEarns(t, row, d)
      BY <1>3, <2>1, <2>2, <2>3, <2>6 DEF WorkerEarns
  <2> QED BY <2>2, <2>4, <2>5, <2>7, WorkerKeeps
<1>5. CASE /\ worker' = [at |-> "ended", task |-> Nothing]
           /\ Charged([Once(fault) EXCEPT !["store"] = @ + 1])
           /\ UNCHANGED <<batches, older>>
  <2>1. PICK row, d : row = batches[t] /\ d = [at |-> "ended", task |-> Nothing]
      OBVIOUS
  <2>2. PICK faults : faults = [Once(fault) EXCEPT !["store"] = @ + 1]
      OBVIOUS
  <2>3. faults \in [TaggerFaults -> Nat] /\ Charged(faults)
      BY <1>3, <1>5, <2>2, OnceIsOne
  <2>4. /\ taggings' \in [TaggerFaults -> Nat]
        /\ \A f \in TaggerFaults : taggings'[f] >= taggings[f]
      BY <1>1, <2>3, ChargedEffect
  <2>5. WorkerMoves(t, row, d)
      BY <1>1, <1>2, <1>5, <2>1 DEF WorkerMoves, WorkerSteps
  <2>6. WorkerLeaves(t, row, d)
      BY <1>1, <1>2, <1>5, <2>1 DEF WorkerLeaves, Unfinished
  <2>7. received'[t] <= Allowed' + 1
    <3>1. Allowed \in Nat /\ Allowed' \in Nat /\ Allowed' >= Allowed
        BY <1>1, <2>4, AllowedGrows
    <3> QED BY <1>1, <1>3, <3>1
  <2>8. row.status \notin {"completed", "failed"}
      BY <1>1, <2>1 DEF Unfinished
  <2>9. WorkerEarns(t, row, d)
      BY <1>3, <2>1, <2>4, <2>7, <2>8 DEF WorkerEarns
  <2> QED BY <1>1, <2>1, <2>5, <2>6, <2>9, WorkerKeeps
<1> QED BY <1>4, <1>5 DEF RowFails

\* A run of t begins: the queue's first is overtaken by nobody who waits.
LEMMA RunBeginsKeeps ==
    ASSUME TagsIInv, NEW t \in Tasks, t = Head(waiting), worker.at = "waits", waiting # <<>>,
           waiting' = Tail(waiting), MarkRunning(t), RunBegins(t),
           worker' = [at |-> "infers", task |-> t],
           ~(batches[t].status = "pending_callback" /\ batches[t].result # Nothing),
           UNCHANGED <<process, claimed, delayed, model, received, taggings>>
    PROVE  TagsIInv'
<1>1. /\ TaggerTyped /\ RowsAgree /\ InTurn /\ Earned /\ Alone /\ Nothing \notin Tasks
      /\ waiting \in Seq(Tasks) /\ IsInjective(waiting)
    BY TaggerAssumption DEF TagsIInv, TaggerTyped, OnceInHand
<1>2. /\ DOMAIN waiting = 1 .. Len(waiting) /\ Len(waiting) \in Nat
      /\ DOMAIN waiting' = 1 .. Len(waiting) - 1 /\ waiting[1] = t
      /\ \A i \in 1 .. Len(waiting) - 1 : waiting'[i] = waiting[i + 1]
      /\ t \notin ToSet(waiting') /\ 1 \in DOMAIN waiting
    BY <1>1, TailOfInjective, EmptySeq
<1>3. /\ Taken(t, waiting') /\ waiting' \in Seq(Tasks) /\ worker.task = Nothing
      /\ t \in claimed /\ t \notin delayed
    BY HeadsTask
<1>4. PICK row : row = Status(t, "running")
    OBVIOUS
<1>5. /\ row \in Row /\ row.status = "running" /\ row.result = batches[t].result
    BY <1>1, <1>4, StatusIsARow DEF Unfinished
<1>6. /\ batches' \in [Tasks -> Row] /\ batches'[t] = row
      /\ \A u \in Tasks \ {t} : batches'[u] = batches[u]
      /\ older' \subseteq Tasks \X Tasks
      /\ \A u, v \in Tasks : <<u, v>> \in older' <=>
            \/ u # t /\ v # t /\ <<u, v>> \in older
            \/ v = t /\ u # t /\ batches[u].status # "none"
    BY <1>1, <1>4, <1>5, UpdateEffect DEF MarkRunning
<1>7. /\ overtakes' \in [Tasks -> [Tasks -> Nat]]
      /\ \A u, v \in Tasks :
            IF u # t /\ WaitsForRun(u)
              THEN overtakes'[u][v] = IF v = t THEN overtakes[u][v] + 1 ELSE overtakes[u][v]
              ELSE overtakes'[u][v] = 0
  <2>1. ASSUME NEW u \in Tasks
        PROVE  /\ overtakes'[u] \in [Tasks -> Nat]
               /\ \A v \in Tasks :
                    IF u # t /\ WaitsForRun(u)
                      THEN overtakes'[u][v] = IF v = t THEN overtakes[u][v] + 1
                                                      ELSE overtakes[u][v]
                      ELSE overtakes'[u][v] = 0
    <3>1. overtakes[u] \in [Tasks -> Nat]
        BY <1>1 DEF TaggerTyped
    <3>2. CASE u # t /\ WaitsForRun(u)
      <4>1. overtakes'[u] = [overtakes[u] EXCEPT ![t] = @ + 1]
          BY <3>2 DEF RunBegins
      <4> QED BY <3>1, <3>2, <4>1
    <3>3. CASE ~(u # t /\ WaitsForRun(u))
      <4>1. overtakes'[u] = [o \in Tasks |-> 0]
          BY <3>3 DEF RunBegins
      <4> QED BY <3>3, <4>1
    <3> QED BY <3>2, <3>3
  <2>2. overtakes' = [u \in Tasks |-> overtakes'[u]]
      BY DEF RunBegins
  <2> QED BY <2>1, <2>2
<1>8. TaggerTyped'
  <2>1. worker' \in [at : WorkerSteps, task : Tasks \cup {Nothing}]
      BY DEF WorkerSteps
  <2> QED BY <1>1, <1>3, <1>6, <1>7, <2>1 DEF TaggerTyped
<1>9. OnceInHand'
  <2>1. PICK w : w = waiting'
      OBVIOUS
  <2>2. /\ IsInjective(w) /\ ToSet(w) \cup delayed \cup {t} = claimed
        /\ ToSet(w) \cap delayed = {} /\ t \notin ToSet(w) \cup delayed
      BY <1>3, <2>1 DEF Taken
  <2> QED BY <1>1, <2>1, <2>2 DEF OnceInHand
<1>10. RowsAgree'
  <2>1. ASSUME NEW u \in delayed PROVE batches'[u].status = "pending_callback"
    <3>1. u \in Tasks /\ u # t /\ batches[u].status = "pending_callback"
        BY <1>1, <1>3 DEF RowsAgree, TaggerTyped
    <3> QED BY <1>6, <3>1
  <2>2. \A u \in claimed : batches'[u].status \in Unfinished
      BY <1>1, <1>5, <1>6 DEF RowsAgree, TaggerTyped, Unfinished
  <2>3. \A u \in Tasks : batches'[u].status = "pending_callback" => batches'[u].result # Nothing
      BY <1>1, <1>5, <1>6 DEF RowsAgree
  <2> QED BY <1>1, <1>5, <1>6, <2>1, <2>2, <2>3 DEF RowsAgree
<1>11. InTurn'
  <2>1. ASSUME NEW u \in Tasks, NEW v \in Tasks, <<u, v>> \in older', <<v, u>> \in older'
        PROVE  FALSE
    <3>1. <<u, v>> \in older /\ <<v, u>> \in older
        BY <1>6, <2>1
    <3> QED BY <1>1, <3>1 DEF InTurn
  <2>2. ASSUME NEW u \in Tasks, u # t, WaitsForRun(u) PROVE overtakes[u][t] = 0
    <3>1. WaitsForRun(t)
        BY <1>1, <1>3 DEF RowsAgree, WaitsForRun, Unfinished
    <3>2. overtakes[u][t] > 0 => AheadOf(u, t)
        BY <1>1, <2>2, <3>1 DEF InTurn
    <3>3. ~AheadOf(u, t)
        BY <1>2 DEF AheadOf
    <3>4. overtakes[u][t] \in Nat
      <4>1. overtakes[u] \in [Tasks -> Nat]
          BY <1>1 DEF TaggerTyped
      <4> QED BY <4>1
    <3> QED BY <3>2, <3>3, <3>4
  <2>3. ASSUME NEW u \in Tasks, NEW v \in Tasks PROVE overtakes'[u][v] <= 1
    <3>1. overtakes[u][v] \in Nat /\ overtakes[u][v] <= 1
      <4>1. overtakes[u] \in [Tasks -> Nat]
          BY <1>1 DEF TaggerTyped
      <4>2. overtakes[u][v] \in Nat
          BY <4>1
      <4> QED BY <1>1, <4>2 DEF InTurn
    <3>2. CASE u # t /\ WaitsForRun(u)
      <4>1. overtakes'[u][v] = IF v = t THEN overtakes[u][v] + 1 ELSE overtakes[u][v]
          BY <1>7, <3>2
      <4>2. v = t => overtakes[u][v] = 0
          BY <2>2, <3>2
      <4> QED BY <3>1, <4>1, <4>2
    <3>3. CASE ~(u # t /\ WaitsForRun(u))
      <4>1. overtakes'[u][v] = 0
          BY <1>7, <3>3
      <4> QED BY <4>1
    <3> QED BY <3>2, <3>3
  <2>4. ASSUME NEW u \in Tasks, NEW v \in Tasks, batches'[u].status = "none" \/ u = t
        PROVE  overtakes'[u][v] = 0
    <3>1. u = t \/ ~WaitsForRun(u)
        BY <1>6, <2>4 DEF WaitsForRun
    <3> QED BY <1>7, <3>1
  <2>5. ASSUME NEW u \in Tasks, NEW v \in Tasks,
               batches'[u].status \in {"accepted", "running"}, overtakes'[u][v] > 0
        PROVE  /\ u # v /\ <<u, v>> \in older'
               /\ batches'[v].status \in {"accepted", "running"} => AheadOf(u, v)'
    <3>1. u # t /\ WaitsForRun(u)
        BY <1>7, <2>5
    <3>2. CASE v = t
      <4>1. <<u, v>> \in older'
          BY <1>6, <3>1, <3>2 DEF WaitsForRun
      <4>2. AheadOf(u, v)'
          BY <1>2, <3>2 DEF AheadOf, ToSet
      <4> QED BY <3>1, <3>2, <4>1, <4>2
    <3>3. CASE v # t
      <4>1. overtakes[u][v] > 0
          BY <1>7, <2>5, <3>1, <3>3
      <4>2. u # v /\ <<u, v>> \in older /\ (WaitsForRun(v) => AheadOf(u, v))
          BY <1>1, <3>1, <4>1 DEF InTurn
      <4>3. <<u, v>> \in older'
          BY <1>6, <3>1, <3>3, <4>2
      <4>4. ASSUME batches'[v].status \in {"accepted", "running"},
                   NEW j \in DOMAIN waiting', waiting'[j] = v
            PROVE  \E i \in 1 .. j - 1 : waiting'[i] = u
        <5>1. AheadOf(u, v)
            BY <1>6, <3>3, <4>2, <4>4 DEF WaitsForRun
        <5>2. j + 1 \in DOMAIN waiting /\ waiting[j + 1] = v /\ j \in Nat
            BY <1>2, <4>4
        <5>3. PICK i \in 1 .. j : waiting[i] = u
            BY <5>1, <5>2 DEF AheadOf
        <5>4. i # 1
            BY <1>2, <3>1, <5>3
        <5>5. i - 1 \in 1 .. j - 1 /\ waiting'[i - 1] = u
            BY <1>2, <4>4, <5>2, <5>3, <5>4
        <5> QED BY <5>5
      <4> QED BY <4>2, <4>3, <4>4 DEF AheadOf
    <3> QED BY <3>2, <3>3
  <2> QED BY <2>1, <2>3, <2>4, <2>5 DEF InTurn, WaitsForRun
<1>12. Earned'
  <2>1. ASSUME NEW u \in Tasks
        PROVE  /\ received[u] <= Allowed + Due(u)'
               /\ batches'[u].status = "completed" => received[u] > 0
               /\ batches'[u].status = "failed" =>
                    batches'[u].attempts > Retries
                    \/ taggings["stage"] + taggings["timeout"] + taggings["store"] > 0
    <3>1. /\ received[u] <= Allowed + Due(u)
          /\ batches[u].status = "completed" => received[u] > 0
          /\ batches[u].status = "failed" =>
                  batches[u].attempts > Retries
                  \/ taggings["stage"] + taggings["timeout"] + taggings["store"] > 0
        BY <1>1 DEF Earned
    <3>2. CASE u # t
      <4>1. Due(u)' = Due(u)
          BY <1>6, <3>2 DEF Due
      <4> QED BY <1>6, <3>1, <3>2, <4>1
    <3>3. CASE u = t
      <4>1. batches[t].status \in Unfinished
          BY <1>1, <1>3 DEF RowsAgree
      <4>2. Due(u)' = 0 /\ Due(u) = 0
          BY <1>5, <1>6, <3>3, <4>1 DEF Due, Unfinished
      <4> QED BY <1>5, <1>6, <3>1, <3>3, <4>2
    <3> QED BY <3>2, <3>3
  <2>2. Allowed' = Allowed
      BY DEF Allowed
  <2> QED BY <2>1, <2>2 DEF Earned
<1>13. Alone'
  <2>1. process.at = "up"
      BY BusyIsUp
  <2> QED BY <1>1, <2>1 DEF Alone
<1> QED BY <1>8, <1>9, <1>10, <1>11, <1>12, <1>13 DEF TagsIInv

--------------------------------------------------------------------------------
LEMMA EarnedMonotone ==
    ASSUME TaggerTyped, taggings' \in [TaggerFaults -> Nat],
           \A f \in TaggerFaults : taggings'[f] >= taggings[f]
    PROVE  /\ Allowed' >= Allowed /\ Allowed \in Nat /\ Allowed' \in Nat
           /\ taggings'["stage"] + taggings'["timeout"] + taggings'["store"]
                >= taggings["stage"] + taggings["timeout"] + taggings["store"]
           /\ \A f \in TaggerFaults : taggings[f] \in Nat /\ taggings'[f] \in Nat
<1>1. \A f \in TaggerFaults : taggings[f] \in Nat /\ taggings'[f] \in Nat /\ taggings'[f] >= taggings[f]
    BY DEF TaggerTyped
<1>2. {"stage", "timeout", "store"} \subseteq TaggerFaults
    BY DEF TaggerFaults
<1>3. /\ taggings["stage"] \in Nat /\ taggings'["stage"] \in Nat /\ taggings'["stage"] >= taggings["stage"]
      /\ taggings["timeout"] \in Nat /\ taggings'["timeout"] \in Nat
      /\ taggings'["timeout"] >= taggings["timeout"]
      /\ taggings["store"] \in Nat /\ taggings'["store"] \in Nat /\ taggings'["store"] >= taggings["store"]
    BY <1>1, <1>2
<1> QED BY <1>1, <1>3, AllowedGrows

\* The worker's thread is back.
LEMMA LeavesAlone ==
    ASSUME TagsIInv, worker.at \in {"infers", "runs"}, LeaveStages
    PROVE  /\ model' \in [timer : BOOLEAN, threads : SUBSET (Tasks \cup {Nothing})]
           /\ process.exits => model'.threads \subseteq {Nothing}
<1>1. /\ model \in [timer : BOOLEAN, threads : SUBSET (Tasks \cup {Nothing})]
      /\ Alone /\ (process.exits /\ worker.at # "runs" => model.threads \subseteq {Nothing})
    BY BusyIsUp DEF TagsIInv, TaggerTyped
<1>2. CASE worker.at = "runs"
    BY <1>1, <1>2 DEF LeaveStages, Alone
<1>3. CASE worker.at # "runs"
    BY <1>1, <1>3 DEF LeaveStages, Alone
<1> QED BY <1>2, <1>3

LEMMA NotDue ==
    ASSUME TagsIInv, NEW t \in Tasks, worker.at \notin {"ended", "taken"},
           batches[t].status \in Unfinished
    PROVE  /\ received[t] \in Nat /\ received[t] <= Allowed
           /\ Allowed \in Nat
<1>1. Due(t) = 0
    BY DEF Due, Unfinished
<1>2. /\ received[t] \in Nat /\ Allowed \in Nat
      /\ received[t] <= Allowed + Due(t)
    BY AllowedIsNat DEF TagsIInv, TaggerTyped, Earned
<1> QED BY <1>1, <1>2

LEMMA NothingCharged ==
    ASSUME TaggerTyped, taggings' = taggings
    PROVE  taggings' \in [TaggerFaults -> Nat] /\ \A f \in TaggerFaults : taggings'[f] >= taggings[f]
BY DEF TaggerTyped

LEMMA TakeBatchKeeps == ASSUME TagsIInv, TakeBatch PROVE TagsIInv'
<1>1. PICK t : t = Head(waiting)
    OBVIOUS
<1>2. /\ worker.at = "waits" /\ waiting # <<>> /\ waiting' = Tail(waiting)
      /\ UNCHANGED <<process, model, received>>
      /\ \/ /\ batches[t].status = "pending_callback" /\ batches[t].result # Nothing
            /\ worker' = [at |-> "posts", task |-> t]
            /\ UNCHANGED <<batches, older, overtakes, claimed, delayed, taggings>>
         \/ /\ ~(batches[t].status = "pending_callback" /\ batches[t].result # Nothing)
            /\ MarkRunning(t) /\ RunBegins(t)
            /\ worker' = [at |-> "infers", task |-> t]
            /\ UNCHANGED <<claimed, delayed, taggings>>
         \/ RowFails(t, "store") /\ UNCHANGED overtakes
    BY <1>1 DEF TakeBatch
<1>3. /\ t \in Tasks /\ Taken(t, waiting') /\ waiting' \in Seq(Tasks) /\ worker.task = Nothing
      /\ batches[t] \in Row /\ batches[t].status \in Unfinished
      /\ t \in claimed /\ t \notin delayed
    BY <1>1, <1>2, HeadsTask
<1>4. /\ model' \in [timer : BOOLEAN, threads : SUBSET (Tasks \cup {Nothing})]
      /\ process.exits => model'.threads \subseteq {Nothing}
      /\ TaggerTyped /\ received \in [Tasks -> Nat]
    BY <1>2, BusyIsUp DEF TagsIInv, TaggerTyped
<1>5. CASE /\ batches[t].status = "pending_callback" /\ batches[t].result # Nothing
           /\ worker' = [at |-> "posts", task |-> t]
           /\ UNCHANGED <<batches, older, overtakes, claimed, delayed, taggings>>
  <2>1. PICK row, d : row = batches[t] /\ d = [at |-> "posts", task |-> t]
      OBVIOUS
  <2>2. t # Nothing
      BY <1>3, TaggerAssumption
  <2>3. WorkerMoves(t, row, d)
      BY <1>1, <1>2, <1>3, <1>5, <2>1, <2>2 DEF WorkerMoves, WorkerSteps
  <2>4. WorkerLeaves(t, row, d)
      BY <1>3, <1>5, <2>1 DEF WorkerLeaves
  <2>5. received[t] <= Allowed
      BY <1>2, <1>3, NotDue
  <2>6. /\ taggings' \in [TaggerFaults -> Nat] /\ \A f \in TaggerFaults : taggings'[f] >= taggings[f]
      BY <1>4, <1>5, NothingCharged
  <2>7. received'[t] <= Allowed' + 0
      BY <1>2, <1>3, <1>5, <2>5, NotDue DEF Allowed
  <2>8. WorkerEarns(t, row, d)
      BY <1>2, <1>4, <1>5, <2>1, <2>6, <2>7 DEF WorkerEarns
  <2> QED BY <1>3, <2>1, <2>3, <2>4, <2>8, WorkerKeeps
<1>6. CASE /\ ~(batches[t].status = "pending_callback" /\ batches[t].result # Nothing)
           /\ MarkRunning(t) /\ RunBegins(t)
           /\ worker' = [at |-> "infers", task |-> t]
           /\ UNCHANGED <<claimed, delayed, taggings>>
    BY <1>1, <1>2, <1>3, <1>6, RunBeginsKeeps
<1>7. CASE RowFails(t, "store") /\ UNCHANGED overtakes
    BY <1>1, <1>2, <1>3, <1>4, <1>7, RowFailsKeeps
<1> QED BY <1>2, <1>5, <1>6, <1>7

LEMMA EnterStagesKeeps == ASSUME TagsIInv, EnterStages PROVE TagsIInv'
<1>1. PICK t : t = worker.task
    OBVIOUS
<1>2. PICK row, d : row = batches[t] /\ d = [worker EXCEPT !.at = "runs"]
    OBVIOUS
<1>3. /\ worker.at = "infers" /\ Nothing \notin model.threads /\ worker' = d
      /\ model' = [model EXCEPT !.timer = FALSE, !.threads = @ \cup {t}]
      /\ UNCHANGED <<process, batches, older, waiting, claimed, delayed, received, overtakes, taggings>>
    BY <1>1, <1>2 DEF EnterStages, managerVars, historyVars
<1>4. /\ t \in Tasks /\ Taken(t, waiting) /\ waiting \in Seq(Tasks) /\ row \in Row
      /\ row.status = "running" /\ t # Nothing /\ t \notin delayed
    BY <1>1, <1>2, <1>3, WorkersTask, TaggerAssumption DEF TagsIInv, RowsAgree
<1>5. d = [at |-> "runs", task |-> t]
    BY <1>1, <1>2 DEF TagsIInv, TaggerTyped
<1>6. /\ model' \in [timer : BOOLEAN, threads : SUBSET (Tasks \cup {Nothing})]
      /\ process.exits => model'.threads \subseteq {t}
    BY <1>3, <1>4, BusyIsUp DEF TagsIInv, TaggerTyped
<1>7. WorkerMoves(t, row, d)
    BY <1>1, <1>2, <1>3, <1>4, <1>5 DEF WorkerMoves, WorkerSteps
<1>8. WorkerLeaves(t, row, d)
    BY <1>1, <1>3, <1>4, <1>5 DEF WorkerLeaves, Unfinished
<1>9. /\ taggings' \in [TaggerFaults -> Nat] /\ \A f \in TaggerFaults : taggings'[f] >= taggings[f]
    BY <1>3, NothingCharged DEF TagsIInv
<1>10. received'[t] <= Allowed' + 0 /\ received' \in [Tasks -> Nat]
  <2>1. batches[t].status \in Unfinished
      BY <1>2, <1>4 DEF Unfinished
  <2>2. received[t] \in Nat /\ received[t] <= Allowed
        /\ Allowed \in Nat
      BY <1>3, <1>4, <2>1, NotDue
  <2> QED BY <1>3, <2>2 DEF Allowed, TagsIInv, TaggerTyped
<1>11. WorkerEarns(t, row, d)
    BY <1>3, <1>4, <1>5, <1>6, <1>9, <1>10 DEF WorkerEarns
<1> QED BY <1>4, <1>7, <1>8, <1>11, WorkerKeeps

LEMMA FinishKeeps == ASSUME TagsIInv, Finish PROVE TagsIInv'
<1>1. PICK t : t = worker.task
    OBVIOUS
<1>2. /\ worker.at \in {"infers", "runs"} /\ LeaveStages
      /\ UNCHANGED <<process, waiting, received, overtakes>>
      /\ \/ \E replies \in BOOLEAN :
              /\ Update(t, [Status(t, "pending_callback") EXCEPT
                               !.result = Payload(Submitted[t].paths, replies)])
              /\ worker' = [worker EXCEPT !.at = "posts"]
              /\ UNCHANGED <<claimed, delayed, taggings>>
         \/ RowFails(t, "store")
    BY <1>1 DEF Finish, historyVars
<1>3. /\ t \in Tasks /\ Taken(t, waiting') /\ waiting' \in Seq(Tasks) /\ t # Nothing
      /\ t \notin delayed /\ waiting' = waiting /\ batches[t].status = "running"
    BY <1>1, <1>2, WorkersTask, TaggerAssumption DEF TagsIInv, RowsAgree
<1>4. /\ model' \in [timer : BOOLEAN, threads : SUBSET (Tasks \cup {Nothing})]
      /\ process.exits => model'.threads \subseteq {Nothing}
      /\ TaggerTyped /\ received \in [Tasks -> Nat]
    BY <1>2, LeavesAlone DEF TagsIInv, TaggerTyped
<1>5. ASSUME NEW replies \in BOOLEAN,
             Update(t, [Status(t, "pending_callback") EXCEPT
                               !.result = Payload(Submitted[t].paths, replies)]),
             worker' = [worker EXCEPT !.at = "posts"],
             UNCHANGED <<claimed, delayed, taggings>>
      PROVE  TagsIInv'
  <2>1. PICK old, result, d : /\ old = Status(t, "pending_callback")
                              /\ result = Payload(Submitted[t].paths, replies)
                              /\ d = [worker EXCEPT !.at = "posts"]
      OBVIOUS
  <2>2. PICK row : row = [old EXCEPT !.result = result]
      OBVIOUS
  <2>3. old \in Row /\ old.status = "pending_callback"
      BY <1>3, <1>4, <2>1, StatusIsARow DEF Unfinished
  <2>4. result \in Results /\ result # Nothing
      BY <1>3, <2>1, TaggerAssumption DEF Results
  <2>5. row \in Row /\ row.status = "pending_callback" /\ row.result # Nothing
      BY <2>2, <2>3, <2>4 DEF Row
  <2>6. d = [at |-> "posts", task |-> t]
      BY <1>1, <1>4, <2>1 DEF TaggerTyped
  <2>7. WorkerMoves(t, row, d)
      BY <1>1, <1>2, <1>3, <1>5, <2>1, <2>2, <2>6 DEF WorkerMoves, WorkerSteps
  <2>8. WorkerLeaves(t, row, d)
      BY <2>5, <2>6, <1>3, <1>5 DEF WorkerLeaves, Unfinished
  <2>9. /\ taggings' \in [TaggerFaults -> Nat] /\ \A f \in TaggerFaults : taggings'[f] >= taggings[f]
      BY <1>4, <1>5, NothingCharged
  <2>10. received'[t] <= Allowed' + 0
      BY <1>2, <1>3, <1>5, NotDue DEF Unfinished, Allowed
  <2>11. WorkerEarns(t, row, d)
      BY <1>2, <1>4, <2>5, <2>6, <2>9, <2>10 DEF WorkerEarns
  <2> QED BY <1>3, <2>5, <2>7, <2>8, <2>11, WorkerKeeps
<1>6. CASE RowFails(t, "store")
    BY <1>1, <1>2, <1>3, <1>4, <1>6, RowFailsKeeps
<1> QED BY <1>2, <1>5, <1>6

LEMMA StageFailsKeeps == ASSUME TagsIInv, StageFails PROVE TagsIInv'
<1>1. PICK t : t = worker.task
    OBVIOUS
<1>2. /\ worker.at = "runs" /\ LeaveStages /\ RowFails(t, "stage")
      /\ UNCHANGED <<process, waiting, received, overtakes>>
    BY <1>1 DEF StageFails, historyVars
<1>3. /\ t \in Tasks /\ Taken(t, waiting') /\ waiting' \in Seq(Tasks) /\ waiting' = waiting
    BY <1>1, <1>2, WorkersTask
<1>4. /\ model' \in [timer : BOOLEAN, threads : SUBSET (Tasks \cup {Nothing})]
      /\ process.exits => model'.threads \subseteq {Nothing}
    BY <1>2, LeavesAlone
<1> QED BY <1>1, <1>2, <1>3, <1>4, RowFailsKeeps

\* A death, a stop, or a late run where it takes the process with it.
LEMMA HandsEmptyKeeps ==
    ASSUME TagsIInv, HandsEmpty,
           process' \in [exits : BOOLEAN, at : Lifespan], process'.exits = process.exits,
           model' \in [timer : BOOLEAN, threads : SUBSET (Tasks \cup {Nothing})],
           process.exits => process'.at # "up" /\
                            \E t \in Tasks \cup {Nothing} : model'.threads \subseteq {t, Nothing},
           NEW fault \in {"crash", "timeout", "stop"}, Charged(Once(fault)),
           fault # "timeout" \/ worker.at \in {"infers", "runs"}
    PROVE  TagsIInv'
<1>1. /\ TaggerTyped /\ RowsAgree /\ InTurn /\ Earned
      /\ waiting' = <<>> /\ claimed' = {} /\ delayed' = {}
      /\ worker' = [at |-> "waits", task |-> Nothing]
      /\ UNCHANGED <<batches, older, received, overtakes>>
    BY DEF TagsIInv, HandsEmpty, Idle, historyVars
<1>2. PICK once \in [TaggerFaults -> Nat] : once[fault] = 1 /\ Charged(once)
    BY OnceIsOne DEF TaggerFaults
<1>3. /\ taggings' \in [TaggerFaults -> Nat]
      /\ \A f \in TaggerFaults : taggings'[f] = taggings[f] + once[f] /\ taggings'[f] >= taggings[f]
    BY <1>1, <1>2, ChargedEffect
<1>4. TaggerTyped'
  <2>2. waiting' \in Seq(Tasks) /\ claimed' \subseteq Tasks /\ delayed' \subseteq Tasks
      BY <1>1, EmptySeq
  <2>3. worker' \in [at : WorkerSteps, task : Tasks \cup {Nothing}]
      BY <1>1 DEF WorkerSteps
  <2>5. /\ batches' \in [Tasks -> Row] /\ older' \subseteq Tasks \X Tasks
        /\ received' \in [Tasks -> Nat] /\ overtakes' \in [Tasks -> [Tasks -> Nat]]
      BY <1>1 DEF TaggerTyped
  <2> QED BY <1>3, <2>2, <2>3, <2>5 DEF TaggerTyped
<1>5. DOMAIN waiting' = {} /\ ToSet(waiting') = {}
    BY <1>1 DEF ToSet
<1>6. OnceInHand'
    BY <1>1, <1>5 DEF OnceInHand, IsInjective
<1>7. RowsAgree'
    BY <1>1 DEF RowsAgree
<1>8. InTurn'
    BY <1>1, <1>5 DEF InTurn, AheadOf, WaitsForRun
<1>9. Earned'
  <2>1. /\ Allowed' >= Allowed /\ Allowed \in Nat /\ Allowed' \in Nat
        /\ taggings'["stage"] + taggings'["timeout"] + taggings'["store"]
                >= taggings["stage"] + taggings["timeout"] + taggings["store"]
        /\ \A f \in TaggerFaults : taggings[f] \in Nat /\ taggings'[f] \in Nat
      BY <1>1, <1>3, EarnedMonotone
  <2>2. fault \in {"crash", "stop"} => Allowed' >= Allowed + 1
    <3>1. {"lost", "crash", "stop"} \subseteq TaggerFaults
        BY DEF TaggerFaults
    <3>2. /\ taggings["lost"] \in Nat /\ taggings["crash"] \in Nat /\ taggings["stop"] \in Nat
          /\ taggings'["lost"] \in Nat /\ taggings'["crash"] \in Nat /\ taggings'["stop"] \in Nat
          /\ taggings'["lost"] >= taggings["lost"] /\ taggings'["crash"] >= taggings["crash"]
          /\ taggings'["stop"] >= taggings["stop"]
        BY <1>3, <2>1, <3>1
    <3>3. fault \in {"crash", "stop"} => taggings'[fault] = taggings[fault] + 1
        BY <1>2, <1>3, <3>1
    <3>4. CASE fault = "crash"
        BY <3>2, <3>3, <3>4 DEF Allowed
    <3>5. CASE fault = "stop"
        BY <3>2, <3>3, <3>5 DEF Allowed
    <3> QED BY <3>4, <3>5
  <2>3. ASSUME NEW u \in Tasks
        PROVE  /\ received[u] <= Allowed' + Due(u)'
               /\ batches[u].status = "completed" => received[u] > 0
               /\ batches[u].status = "failed" =>
                    batches[u].attempts > Retries
                    \/ taggings'["stage"] + taggings'["timeout"] + taggings'["store"] > 0
    <3>1. /\ received[u] <= Allowed + Due(u) /\ received[u] \in Nat
          /\ batches[u].status = "completed" => received[u] > 0
          /\ batches[u].status = "failed" =>
                  batches[u].attempts > Retries
                  \/ taggings["stage"] + taggings["timeout"] + taggings["store"] > 0
        BY <1>1 DEF Earned, TaggerTyped
    <3>2. /\ Due(u) \in {0, 1} /\ Due(u)' \in {0, 1}
          /\ worker.at \in {"infers", "runs"} => Due(u)' = Due(u)
        BY <1>1 DEF Due
    <3>3. /\ taggings["stage"] \in Nat /\ taggings'["stage"] \in Nat /\ taggings["timeout"] \in Nat
          /\ taggings'["timeout"] \in Nat /\ taggings["store"] \in Nat /\ taggings'["store"] \in Nat
        BY <1>3, <2>1 DEF TaggerFaults
    <3>4. received[u] <= Allowed' + Due(u)'
        BY <2>1, <2>2, <3>1, <3>2, <3>3
    <3>5. batches[u].status = "failed" =>
                    batches[u].attempts > Retries
                    \/ taggings'["stage"] + taggings'["timeout"] + taggings'["store"] > 0
        BY <2>1, <3>1, <3>3
    <3> QED BY <3>1, <3>4, <3>5
  <2> QED BY <1>1, <2>3 DEF Earned
<1>10. Alone'
  <2>1. worker' = Idle /\ worker'.at = "waits"
      BY <1>1 DEF Idle
  <2> QED BY <1>1, <2>1 DEF Alone
<1> QED BY <1>4, <1>6, <1>7, <1>8, <1>9, <1>10 DEF TagsIInv

LEMMA DownKeeps ==
    ASSUME TagsIInv, Down, NEW fault \in {"crash", "timeout"}, Charged(Once(fault)),
           fault = "crash" \/ worker.at \in {"infers", "runs"}
    PROVE  TagsIInv'
<1>1. HandsEmpty /\ process' = [process EXCEPT !.at = "down"] /\ model' = [timer |-> FALSE, threads |-> {}]
    BY DEF Down, Cold
<1>2. process' \in [exits : BOOLEAN, at : Lifespan] /\ process'.exits = process.exits /\ process'.at = "down"
    BY <1>1 DEF TagsIInv, TaggerTyped, Lifespan
<1>3. model' \in [timer : BOOLEAN, threads : SUBSET (Tasks \cup {Nothing})] /\ model'.threads \subseteq {Nothing}
    BY <1>1
<1> QED BY <1>1, <1>2, <1>3, HandsEmptyKeeps

\* The worker is cancelled; the thread of its run stays.
LEMMA StopsKeeps == ASSUME TagsIInv, Stops PROVE TagsIInv'
<1>1. /\ HandsEmpty /\ Charged(Once("stop")) /\ process.at = "up"
      /\ \E at \in {"stopping", "leaving"} : process' = [process EXCEPT !.at = at]
      /\ model' = IF worker.at = "runs" THEN [model EXCEPT !.timer = TRUE] ELSE model
    BY DEF Stops
<1>2. /\ process' \in [exits : BOOLEAN, at : Lifespan] /\ process'.exits = process.exits
      /\ process'.at # "up"
    BY <1>1 DEF TagsIInv, TaggerTyped, Lifespan
<1>3. /\ model' \in [timer : BOOLEAN, threads : SUBSET (Tasks \cup {Nothing})]
      /\ model'.threads = model.threads
    BY <1>1 DEF TagsIInv, TaggerTyped
<1>4. process.exits => \E t \in Tasks \cup {Nothing} : model'.threads \subseteq {t, Nothing}
    BY <1>3 DEF TagsIInv, Alone
<1> QED BY <1>1, <1>2, <1>3, <1>4, HandsEmptyKeeps

LEMMA LocalTimeoutKeeps == ASSUME TagsIInv, LocalTimeout PROVE TagsIInv'
<1>1. PICK t : t = worker.task
    OBVIOUS
<1>2. worker.at \in {"infers", "runs"}
    BY DEF LocalTimeout
<1>3. CASE Charged(Once("timeout")) /\ Down
    BY <1>2, <1>3, DownKeeps
<1>4. CASE /\ ~process.exits
           /\ model' = IF worker.at = "runs" THEN [model EXCEPT !.timer = TRUE] ELSE model
           /\ RowFails(t, "timeout")
           /\ UNCHANGED <<process, waiting, dispatching, historyVars>>
  <2>1. /\ t \in Tasks /\ Taken(t, waiting') /\ waiting' \in Seq(Tasks) /\ waiting' = waiting
        /\ UNCHANGED <<process, overtakes, received>>
      BY <1>1, <1>2, <1>4, WorkersTask DEF historyVars
  <2>2. model' \in [timer : BOOLEAN, threads : SUBSET (Tasks \cup {Nothing})]
      BY <1>4 DEF TagsIInv, TaggerTyped
  <2> QED BY <1>1, <1>2, <1>4, <2>1, <2>2, RowFailsKeeps
<1> QED BY <1>1, <1>3, <1>4 DEF LocalTimeout

LEMMA PostKeeps == ASSUME TagsIInv, Post PROVE TagsIInv'
<1>1. PICK t : t = worker.task
    OBVIOUS
<1>2. PICK at \in {"taken", "refused"} :
          /\ worker.at = "posts" /\ worker' = [worker EXCEPT !.at = at]
          /\ \/ at = "taken" /\ taggings' = taggings
             \/ at = "refused" /\ Charged(Once("lost"))
             \/ at = "refused" /\ Charged(Once("refused"))
          /\ received' = IF taggings'["refused"] = taggings["refused"]
                           THEN [received EXCEPT ![t] = @ + 1] ELSE received
          /\ UNCHANGED <<process, batches, older, waiting, claimed, delayed, model, overtakes>>
    BY <1>1 DEF Post, managerVars
<1>3. PICK row, d : row = batches[t] /\ d = [worker EXCEPT !.at = at]
    OBVIOUS
<1>4. /\ t \in Tasks /\ Taken(t, waiting') /\ waiting' \in Seq(Tasks) /\ t # Nothing
      /\ t \notin delayed /\ waiting' = waiting /\ row \in Row /\ row.status = "pending_callback"
      /\ row.result # Nothing
    BY <1>1, <1>2, <1>3, WorkersTask, TaggerAssumption DEF TagsIInv, RowsAgree
<1>5. d = [at |-> at, task |-> t]
    BY <1>1, <1>3 DEF TagsIInv, TaggerTyped
<1>6. /\ model' \in [timer : BOOLEAN, threads : SUBSET (Tasks \cup {Nothing})]
      /\ process.exits => model'.threads \subseteq {Nothing}
      /\ TaggerTyped /\ received \in [Tasks -> Nat] /\ taggings \in [TaggerFaults -> Nat]
    BY <1>2, BusyIsUp DEF TagsIInv, TaggerTyped
<1>7. /\ received[t] \in Nat /\ received[t] <= Allowed
      /\ Allowed \in Nat
    BY <1>2, <1>3, <1>4, NotDue DEF Unfinished
<1>8. /\ received' \in [Tasks -> Nat] /\ \A u \in Tasks \ {t} : received'[u] = received[u]
      /\ received'[t] \in {received[t], received[t] + 1}
      /\ taggings'["refused"] # taggings["refused"] => received'[t] = received[t]
      /\ taggings'["refused"] = taggings["refused"] => received'[t] = received[t] + 1
    BY <1>2, <1>4, <1>6
<1>9. /\ taggings' \in [TaggerFaults -> Nat] /\ \A f \in TaggerFaults : taggings'[f] >= taggings[f]
      /\ received'[t] <= Allowed' + (IF at = "taken" THEN 1 ELSE 0)
      /\ at = "taken" => received'[t] > 0
  <2>1. CASE at = "taken" /\ taggings' = taggings
      BY <1>6, <1>7, <1>8, <2>1, NothingCharged DEF Allowed
  <2>2. ASSUME at = "refused", NEW fault \in {"lost", "refused"}, Charged(Once(fault))
        PROVE  /\ taggings' \in [TaggerFaults -> Nat]
               /\ \A f \in TaggerFaults : taggings'[f] >= taggings[f]
               /\ received'[t] <= Allowed' + 0
    <3>1. PICK once \in [TaggerFaults -> Nat] :
              /\ once[fault] = 1 /\ \A f \in TaggerFaults \ {fault} : once[f] = 0
              /\ Charged(once)
        BY <2>2, OnceIsOne DEF TaggerFaults
    <3>2. /\ taggings' \in [TaggerFaults -> Nat]
          /\ \A f \in TaggerFaults : taggings'[f] = taggings[f] + once[f]
                                     /\ taggings'[f] >= taggings[f]
        BY <1>6, <3>1, ChargedEffect
    <3>3. /\ taggings'["lost"] = taggings["lost"] + once["lost"]
          /\ taggings'["crash"] = taggings["crash"] + once["crash"]
          /\ taggings'["stop"] = taggings["stop"] + once["stop"]
          /\ taggings'["refused"] = taggings["refused"] + once["refused"]
          /\ once["crash"] = 0 /\ once["stop"] = 0
          /\ fault = "lost" => once["lost"] = 1 /\ once["refused"] = 0
          /\ fault = "refused" => once["lost"] = 0 /\ once["refused"] = 1
          /\ taggings["refused"] \in Nat /\ taggings["lost"] \in Nat
          /\ taggings["crash"] \in Nat /\ taggings["stop"] \in Nat
        BY <1>6, <3>1, <3>2 DEF TaggerFaults
    <3>4. Allowed' = Allowed + once["lost"]
        BY <3>1, <3>3 DEF Allowed, TaggerFaults
    <3> QED BY <1>7, <1>8, <3>2, <3>3, <3>4
  <2>3. at = "refused" => received'[t] <= Allowed' + 0
    <3>1. CASE Charged(Once("lost"))
        BY <2>2, <3>1
    <3>2. CASE Charged(Once("refused"))
        BY <2>2, <3>2
    <3> QED BY <1>2, <3>1, <3>2
  <2> QED BY <1>2, <2>1, <2>2, <2>3
<1>10. WorkerMoves(t, row, d)
    BY <1>1, <1>2, <1>3, <1>4, <1>5 DEF WorkerMoves, WorkerSteps
<1>11. WorkerLeaves(t, row, d)
    BY <1>2, <1>4, <1>5 DEF WorkerLeaves, Unfinished
<1>12. WorkerEarns(t, row, d)
    BY <1>2, <1>4, <1>5, <1>6, <1>8, <1>9 DEF WorkerEarns
<1> QED BY <1>4, <1>10, <1>11, <1>12, WorkerKeeps

LEMMA DeliveredKeeps == ASSUME TagsIInv, Delivered PROVE TagsIInv'
<1>1. PICK t, attempts : t = worker.task /\ attempts = batches[t].attempts + 1
    OBVIOUS
<1>2. /\ worker.at \in {"taken", "refused"}
      /\ UNCHANGED <<process, waiting, model, received, overtakes>>
      /\ \/ /\ worker.at = "taken"
            /\ Update(t, Status(t, "completed"))
            /\ UNCHANGED <<delayed, taggings>> /\ worker' = Idle /\ LetsGo(t)
         \/ /\ worker.at = "refused"
            /\ Update(t, [batches[t] EXCEPT !.attempts = attempts,
                              !.status = IF attempts > Retries THEN "failed" ELSE @])
            /\ delayed' = IF attempts > Retries THEN delayed ELSE delayed \cup {t}
            /\ UNCHANGED taggings /\ worker' = Idle /\ LetsGo(t)
         \/ RowFails(t, "store")
    BY <1>1 DEF Delivered, historyVars
<1>3. /\ t \in Tasks /\ Taken(t, waiting') /\ waiting' \in Seq(Tasks) /\ t # Nothing
      /\ t \notin delayed /\ t \in claimed /\ waiting' = waiting /\ batches[t] \in Row
      /\ batches[t].status = "pending_callback" /\ batches[t].result # Nothing
    BY <1>1, <1>2, WorkersTask, TaggerAssumption DEF TagsIInv, RowsAgree
<1>4. /\ model' \in [timer : BOOLEAN, threads : SUBSET (Tasks \cup {Nothing})]
      /\ process.exits => model'.threads \subseteq {Nothing}
      /\ TaggerTyped /\ received' \in [Tasks -> Nat] /\ received' = received
    BY <1>2, BusyIsUp DEF TagsIInv, TaggerTyped
<1>5. PICK d : d = [at |-> "waits", task |-> Nothing]
    OBVIOUS
<1>6. CASE RowFails(t, "store")
    BY <1>1, <1>2, <1>3, <1>4, <1>6, RowFailsKeeps
<1>7. CASE /\ worker.at = "taken"
           /\ Update(t, Status(t, "completed"))
           /\ UNCHANGED <<delayed, taggings>> /\ worker' = Idle /\ LetsGo(t)
  <2>1. PICK row : row = Status(t, "completed")
      OBVIOUS
  <2>2. row \in Row /\ row.status = "completed"
      BY <1>3, <1>4, <2>1, StatusIsARow
  <2>3. claimed' = claimed \ {t} /\ t \notin delayed'
      BY <1>3, <1>7 DEF LetsGo
  <2>4. WorkerMoves(t, row, d)
      BY <1>1, <1>2, <1>3, <1>5, <1>7, <2>1, <2>3 DEF WorkerMoves, Idle, WorkerSteps
  <2>5. WorkerLeaves(t, row, d)
      BY <1>5, <2>2, <2>3 DEF WorkerLeaves
  <2>6. /\ taggings' \in [TaggerFaults -> Nat] /\ \A f \in TaggerFaults : taggings'[f] >= taggings[f]
      BY <1>4, <1>7, NothingCharged
  <2>7. /\ received[t] > 0 /\ Due(t) = 1
        /\ received[t] <= Allowed + Due(t)
      BY <1>1, <1>3, <1>7 DEF TagsIInv, Earned, Due
  <2>9. received' = received /\ Allowed' = Allowed /\ Allowed \in Nat /\ received' \in [Tasks -> Nat]
      BY <1>3, <1>4, <1>7, AllowedIsNat DEF Allowed, TagsIInv, TaggerTyped
  <2>8. WorkerEarns(t, row, d)
      BY <1>2, <1>4, <1>5, <1>7, <2>2, <2>6, <2>7, <2>9 DEF WorkerEarns
  <2> QED BY <1>3, <2>2, <2>4, <2>5, <2>8, WorkerKeeps
<1>8. CASE /\ worker.at = "refused"
           /\ Update(t, [batches[t] EXCEPT !.attempts = attempts,
                             !.status = IF attempts > Retries THEN "failed" ELSE @])
           /\ delayed' = IF attempts > Retries THEN delayed ELSE delayed \cup {t}
           /\ UNCHANGED taggings /\ worker' = Idle /\ LetsGo(t)
  <2>1. PICK row : row = [batches[t] EXCEPT !.attempts = attempts,
                              !.status = IF attempts > Retries THEN "failed" ELSE @]
      OBVIOUS
  <2>2. /\ row \in Row /\ row.attempts = attempts /\ row.result = batches[t].result
        /\ row.status = IF attempts > Retries THEN "failed" ELSE "pending_callback"
    <3>1. PICK old \in Row : /\ old = batches[t] /\ old.status = "pending_callback"
                            /\ attempts = old.attempts + 1
        BY <1>1, <1>3
    <3>2. PICK status : status = IF attempts > Retries THEN "failed" ELSE old.status
        OBVIOUS
    <3>3. row = [old EXCEPT !.attempts = attempts, !.status = status]
        BY <2>1, <3>1, <3>2
    <3>4. attempts \in Nat /\ status \in Unfinished \cup {"none", "completed", "failed"}
        BY <3>1, <3>2 DEF Row, Unfinished
    <3>5. row \in Row
        BY <3>3, <3>4 DEF Row
    <3>6. row.attempts = attempts /\ row.result = old.result /\ row.status = status
        BY <3>1, <3>3 DEF Row
    <3> QED BY <3>1, <3>2, <3>5, <3>6
  <2>3. /\ attempts > Retries => claimed' = claimed \ {t} /\ delayed' = delayed
        /\ ~(attempts > Retries) => claimed' = claimed /\ delayed' = delayed \cup {t}
      BY <1>3, <1>8 DEF LetsGo
  <2>4. WorkerMoves(t, row, d)
      BY <1>1, <1>2, <1>3, <1>5, <1>8, <2>1, <2>3 DEF WorkerMoves, Idle, WorkerSteps
  <2>5. WorkerLeaves(t, row, d)
      BY <1>3, <1>5, <2>2, <2>3 DEF WorkerLeaves, Unfinished
  <2>6. /\ taggings' \in [TaggerFaults -> Nat] /\ \A f \in TaggerFaults : taggings'[f] >= taggings[f]
      BY <1>4, <1>8, NothingCharged
  <2>7. /\ received[t] \in Nat /\ received[t] <= Allowed
        /\ Allowed \in Nat
    <3>1. batches[t].status \in Unfinished
        BY <1>3 DEF Unfinished
    <3> QED BY <1>3, <1>8, <3>1, NotDue
  <2>8. \A n \in {0, 1} : received'[t] <= Allowed' + n
      BY <1>4, <1>8, <2>7 DEF Allowed
  <2>9. row.status # "completed" /\ (row.status = "failed" => row.attempts > Retries)
      BY <2>2
  <2>10. WorkerEarns(t, row, d)
      BY <1>2, <1>4, <1>5, <2>6, <2>8, <2>9 DEF WorkerEarns
  <2> QED BY <1>3, <2>2, <2>4, <2>5, <2>10, WorkerKeeps
<1> QED BY <1>2, <1>6, <1>7, <1>8

--------------------------------------------------------------------------------
\* A step that leaves the tasks where they are.
LEMMA AsideKeeps ==
    ASSUME TagsIInv, process' \in [exits : BOOLEAN, at : Lifespan], process'.exits = process.exits,
           UNCHANGED <<batches, older, waiting, claimed, delayed, worker, received, overtakes>>,
           model' \in [timer : BOOLEAN, threads : SUBSET (Tasks \cup {Nothing})], Alone',
           taggings' \in [TaggerFaults -> Nat], \A f \in TaggerFaults : taggings'[f] >= taggings[f]
    PROVE  TagsIInv'
<1>1. TaggerTyped'
    BY DEF TagsIInv, TaggerTyped
<1>2. OnceInHand'
    BY DEF TagsIInv, OnceInHand
<1>3. RowsAgree'
    BY DEF TagsIInv, RowsAgree
<1>4. InTurn'
    BY DEF TagsIInv, InTurn, WaitsForRun, AheadOf
<1>5. Earned'
  <2>1. /\ Allowed' >= Allowed /\ Allowed \in Nat /\ Allowed' \in Nat
        /\ taggings'["stage"] + taggings'["timeout"] + taggings'["store"]
                >= taggings["stage"] + taggings["timeout"] + taggings["store"]
        /\ \A f \in TaggerFaults : taggings[f] \in Nat /\ taggings'[f] \in Nat
      BY EarnedMonotone DEF TagsIInv
  <2>2. /\ taggings["stage"] \in Nat /\ taggings'["stage"] \in Nat
        /\ taggings["timeout"] \in Nat /\ taggings'["timeout"] \in Nat
        /\ taggings["store"] \in Nat /\ taggings'["store"] \in Nat
      BY <2>1 DEF TaggerFaults
  <2>3. ASSUME NEW u \in Tasks
        PROVE  /\ received[u] <= Allowed' + Due(u)'
               /\ batches[u].status = "failed" =>
                    batches[u].attempts > Retries
                    \/ taggings'["stage"] + taggings'["timeout"] + taggings'["store"] > 0
    <3>1. /\ received[u] <= Allowed + Due(u) /\ received[u] \in Nat
          /\ batches[u].status = "failed" =>
                  batches[u].attempts > Retries
                  \/ taggings["stage"] + taggings["timeout"] + taggings["store"] > 0
        BY DEF TagsIInv, Earned, TaggerTyped
    <3>2. Due(u) \in {0, 1} /\ Due(u)' = Due(u)
        BY DEF Due
    <3> QED BY <2>1, <2>2, <3>1, <3>2
  <2> QED BY <2>3 DEF TagsIInv, Earned
<1> QED BY <1>1, <1>2, <1>3, <1>4, <1>5 DEF TagsIInv

LEMMA BootKeeps == ASSUME TagsIInv, Boot PROVE TagsIInv'
<1>1. /\ process' = [process EXCEPT !.at = "up"] /\ model' = [timer |-> TRUE, threads |-> {}]
      /\ UNCHANGED <<batches, older, waiting, claimed, delayed, worker, received, overtakes, taggings>>
      /\ TaggerTyped
    BY DEF Boot, Cold, historyVars, TagsIInv
<1>2. process' \in [exits : BOOLEAN, at : Lifespan] /\ process'.exits = process.exits
    BY <1>1 DEF TaggerTyped, Lifespan
<1>3. model' \in [timer : BOOLEAN, threads : SUBSET (Tasks \cup {Nothing})] /\ Alone'
    BY <1>1, <1>2 DEF Alone, TaggerTyped
<1>4. /\ taggings' \in [TaggerFaults -> Nat] /\ \A f \in TaggerFaults : taggings'[f] >= taggings[f]
    BY <1>1, NothingCharged
<1> QED BY <1>1, <1>2, <1>3, <1>4, AsideKeeps

LEMMA DispatcherEndsKeeps == ASSUME TagsIInv, DispatcherEnds PROVE TagsIInv'
<1>1. /\ Charged(Once("store"))
      /\ UNCHANGED <<process, batches, older, waiting, claimed, delayed, worker, model, received, overtakes>>
      /\ TaggerTyped
    BY DEF DispatcherEnds, historyVars, TagsIInv
<1>2. PICK once \in [TaggerFaults -> Nat] : Charged(once)
    BY <1>1, OnceIsOne DEF TaggerFaults
<1>3. /\ taggings' \in [TaggerFaults -> Nat] /\ \A f \in TaggerFaults : taggings'[f] >= taggings[f]
    BY <1>1, <1>2, ChargedEffect
<1>4. /\ process' \in [exits : BOOLEAN, at : Lifespan] /\ process'.exits = process.exits
      /\ model' \in [timer : BOOLEAN, threads : SUBSET (Tasks \cup {Nothing})] /\ Alone'
    BY <1>1 DEF TaggerTyped, TagsIInv, Alone
<1> QED BY <1>1, <1>3, <1>4, AsideKeeps

\* The model is unloaded, and when every thread is back the process is gone.
LEMMA StopUnloadsKeeps == ASSUME TagsIInv, StopUnloads PROVE TagsIInv'
<1>1. /\ process.at = "stopping" /\ process' = [process EXCEPT !.at = "leaving"]
      /\ model' = [timer |-> FALSE, threads |-> model.threads \cup {Nothing}]
      /\ UNCHANGED <<batches, older, waiting, claimed, delayed, worker, received, overtakes, taggings>>
      /\ TaggerTyped /\ Alone
    BY DEF StopUnloads, managerVars, historyVars, TagsIInv
<1>2. /\ process' \in [exits : BOOLEAN, at : Lifespan] /\ process'.exits = process.exits
      /\ process'.at = "leaving"
    BY <1>1 DEF TaggerTyped, Lifespan
<1>3. worker = Idle /\ waiting = <<>> /\ claimed = {} /\ worker.at = "waits"
    BY <1>1 DEF Alone, Idle
<1>4. model' \in [timer : BOOLEAN, threads : SUBSET (Tasks \cup {Nothing})] /\ Alone'
    BY <1>1, <1>2, <1>3 DEF Alone, TaggerTyped
<1>5. /\ taggings' \in [TaggerFaults -> Nat] /\ \A f \in TaggerFaults : taggings'[f] >= taggings[f]
    BY <1>1, NothingCharged
<1> QED BY <1>1, <1>2, <1>4, <1>5, AsideKeeps

LEMMA LeavesKeeps == ASSUME TagsIInv, Leaves PROVE TagsIInv'
<1>1. /\ process.at = "leaving" /\ process' = [process EXCEPT !.at = "down"]
      /\ model' = [timer |-> FALSE, threads |-> {}] /\ worker' = Idle
      /\ waiting' = <<>> /\ claimed' = {} /\ delayed' = {}
      /\ UNCHANGED <<batches, older, received, overtakes, taggings>>
      /\ TaggerTyped /\ Alone
    BY DEF Leaves, Down, HandsEmpty, Cold, historyVars, TagsIInv
<1>2. worker = Idle /\ waiting = <<>> /\ claimed = {} /\ delayed = {}
    BY <1>1 DEF Alone, TagsIInv, OnceInHand
<1>3. /\ process' \in [exits : BOOLEAN, at : Lifespan] /\ process'.exits = process.exits
      /\ process'.at = "down"
    BY <1>1 DEF TaggerTyped, Lifespan
<1>4. model' \in [timer : BOOLEAN, threads : SUBSET (Tasks \cup {Nothing})] /\ Alone'
    BY <1>1, <1>2, <1>3 DEF Alone, Idle
<1>5. /\ taggings' \in [TaggerFaults -> Nat] /\ \A f \in TaggerFaults : taggings'[f] >= taggings[f]
    BY <1>1, NothingCharged
<1> QED BY <1>1, <1>2, <1>3, <1>4, <1>5, AsideKeeps

\* A thread nobody waits for comes back; the idle model is unloaded, and is gone.
LEMMA ThreadsKeep ==
    ASSUME TagsIInv, IdleUnload \/ Unloaded \/ \E t \in Tasks : Straggles(t)
    PROVE  TagsIInv'
<1>1. /\ UNCHANGED <<process, batches, older, waiting, claimed, delayed, worker, received, overtakes,
                     taggings>>
      /\ TaggerTyped /\ Alone
      /\ \/ /\ worker.at # "runs"
            /\ model' = [model EXCEPT !.timer = FALSE, !.threads = @ \cup {Nothing}]
         \/ \E t \in Tasks \cup {Nothing} : model' = [model EXCEPT !.threads = @ \ {t}]
    BY DEF IdleUnload, Unloaded, Straggles, managerVars, historyVars, TagsIInv
<1>2. CASE /\ worker.at # "runs"
           /\ model' = [model EXCEPT !.timer = FALSE, !.threads = @ \cup {Nothing}]
  <2>1. model' \in [timer : BOOLEAN, threads : SUBSET (Tasks \cup {Nothing})] /\ Alone'
      BY <1>1, <1>2 DEF TaggerTyped, Alone
  <2>2. /\ taggings' \in [TaggerFaults -> Nat] /\ \A f \in TaggerFaults : taggings'[f] >= taggings[f]
        /\ process' \in [exits : BOOLEAN, at : Lifespan]
      BY <1>1, NothingCharged DEF TaggerTyped
  <2> QED BY <1>1, <2>1, <2>2, AsideKeeps
<1>3. ASSUME NEW t \in Tasks \cup {Nothing}, model' = [model EXCEPT !.threads = @ \ {t}]
      PROVE  TagsIInv'
  <2>1. model' \in [timer : BOOLEAN, threads : SUBSET (Tasks \cup {Nothing})] /\ Alone'
      BY <1>1, <1>3 DEF TaggerTyped, Alone
  <2>2. /\ taggings' \in [TaggerFaults -> Nat] /\ \A f \in TaggerFaults : taggings'[f] >= taggings[f]
        /\ process' \in [exits : BOOLEAN, at : Lifespan]
      BY <1>1, NothingCharged DEF TaggerTyped
  <2> QED BY <1>1, <2>1, <2>2, AsideKeeps
<1> QED BY <1>1, <1>2, <1>3

--------------------------------------------------------------------------------
\* A batch is submitted: its row is the newest.
LEMMA SubmitKeeps == ASSUME TagsIInv, NEW t \in Tasks, Submit(t) PROVE TagsIInv'
<1>1. PICK row : row = Status(t, "accepted")
    OBVIOUS
<1>2. /\ batches[t].status = "none" /\ Update(t, row)
      /\ UNCHANGED <<process, waiting, claimed, delayed, worker, model, received, overtakes, taggings>>
      /\ TaggerTyped /\ RowsAgree /\ InTurn /\ Earned
    BY <1>1 DEF Submit, managerVars, historyVars, TagsIInv
<1>3. row \in Row /\ row.status = "accepted"
    BY <1>1, <1>2, StatusIsARow DEF Unfinished
<1>4. /\ batches' \in [Tasks -> Row] /\ batches'[t] = row
      /\ \A u \in Tasks \ {t} : batches'[u] = batches[u]
      /\ older' \subseteq Tasks \X Tasks
      /\ \A u, v \in Tasks : <<u, v>> \in older' <=>
            \/ u # t /\ v # t /\ <<u, v>> \in older
            \/ v = t /\ u # t /\ batches[u].status # "none"
    BY <1>2, <1>3, UpdateEffect
<1>5. t \notin claimed /\ t \notin delayed /\ (worker.task # Nothing => worker.task # t)
  <2>1. t \notin claimed
      BY <1>2 DEF RowsAgree, Unfinished
  <2>2. delayed \subseteq claimed /\ (worker.task # Nothing => worker.task \in claimed)
      BY DEF TagsIInv, OnceInHand
  <2> QED BY <2>1, <2>2
<1>6. TaggerTyped'
    BY <1>2, <1>4 DEF TaggerTyped
<1>7. OnceInHand'
    BY <1>2 DEF TagsIInv, OnceInHand
<1>8. RowsAgree'
  <2>1. /\ \A u \in delayed : batches'[u] = batches[u]
        /\ \A u \in claimed : batches'[u] = batches[u]
        /\ worker.task # Nothing => batches'[worker.task] = batches[worker.task]
      BY <1>2, <1>4, <1>5 DEF TaggerTyped
  <2> QED BY <1>2, <1>3, <1>4, <2>1 DEF RowsAgree
<1>9. InTurn'
  <2>1. ASSUME NEW u \in Tasks, NEW v \in Tasks, <<u, v>> \in older', <<v, u>> \in older'
        PROVE  FALSE
    <3>1. <<u, v>> \in older /\ <<v, u>> \in older
        BY <1>4, <2>1
    <3> QED BY <1>2, <3>1 DEF InTurn
  <2>2. ASSUME NEW u \in Tasks, NEW v \in Tasks
        PROVE  /\ overtakes'[u][v] <= 1
               /\ batches'[u].status = "none" \/ (worker.at \in {"infers", "runs"} /\ worker.task = u)
                     => overtakes'[u][v] = 0
      BY <1>2, <1>3, <1>4 DEF InTurn
  <2>3. ASSUME NEW u \in Tasks, NEW v \in Tasks,
               batches'[u].status \in {"accepted", "running"}, overtakes'[u][v] > 0
        PROVE  /\ u # v /\ <<u, v>> \in older'
               /\ worker.at # "ended" /\ batches'[v].status \in {"accepted", "running"} =>
                     AheadOf(u, v)'
    <3>1. u # t
      <4>1. overtakes[t][v] = 0
          BY <1>2 DEF InTurn
      <4> QED BY <1>2, <2>3, <4>1
    <3>2. /\ u # v /\ <<u, v>> \in older
          /\ worker.at # "ended" /\ batches[v].status \in {"accepted", "running"} => AheadOf(u, v)
        BY <1>2, <1>4, <2>3, <3>1 DEF InTurn, WaitsForRun
    <3>3. CASE v # t
      <4>1. <<u, v>> \in older' /\ batches'[v] = batches[v]
          BY <1>4, <3>1, <3>2, <3>3
      <4>2. AheadOf(u, v)' <=> AheadOf(u, v)
          BY <1>2 DEF AheadOf
      <4> QED BY <3>2, <4>1, <4>2
    <3>4. CASE v = t
      <4>1. <<u, v>> \in older'
          BY <1>4, <2>3, <3>1, <3>4
      <4>2. ASSUME worker.at # "ended", NEW j \in DOMAIN waiting, waiting[j] = t PROVE FALSE
        <5>1. t \in ToSet(waiting)
            BY <4>2 DEF ToSet
        <5> QED BY <1>5, <5>1 DEF TagsIInv, OnceInHand
      <4>3. worker.at # "ended" => AheadOf(u, v)'
          BY <1>2, <3>4, <4>2 DEF AheadOf
      <4> QED BY <3>2, <4>1, <4>3
    <3> QED BY <3>3, <3>4
  <2> QED BY <1>2, <2>1, <2>2, <2>3 DEF InTurn, WaitsForRun
<1>10. Earned'
  <2>1. ASSUME NEW u \in Tasks
        PROVE  /\ received[u] <= Allowed + Due(u)'
               /\ batches'[u].status = "completed" \/ (worker.at = "taken" /\ worker.task = u) =>
                     received[u] > 0
               /\ batches'[u].status = "failed" =>
                    batches'[u].attempts > Retries
                    \/ taggings["stage"] + taggings["timeout"] + taggings["store"] > 0
    <3>1. Due(u)' = Due(u)
      <4>1. CASE u = t
          BY <1>2, <1>3, <1>4, <4>1 DEF Due
      <4>2. CASE u # t
          BY <1>2, <1>4, <4>2 DEF Due
      <4> QED BY <4>1, <4>2
    <3>2. u = t => batches'[u].status = "accepted"
        BY <1>3, <1>4
    <3>3. u # t => batches'[u] = batches[u]
        BY <1>4
    <3>4. Allowed' = Allowed /\ Allowed \in Nat /\ received[u] \in Nat
        BY <1>2, AllowedIsNat DEF Allowed, TagsIInv, TaggerTyped
    <3> QED BY <1>2, <3>1, <3>2, <3>3, <3>4 DEF Earned
  <2>2. Allowed' = Allowed /\ received' = received /\ worker' = worker /\ taggings' = taggings
      BY <1>2 DEF Allowed
  <2> QED BY <2>1, <2>2 DEF Earned
<1>11. Alone'
    BY <1>2 DEF TagsIInv, Alone
<1> QED BY <1>6, <1>7, <1>8, <1>9, <1>10, <1>11 DEF TagsIInv

\* Ids join the queue, in an order in which nobody passes who was overtaken.
LEMMA JoinKeeps ==
    ASSUME TagsIInv, waiting' \in Seq(Tasks), IsInjective(waiting'),
           claimed' \subseteq Tasks, delayed' \subseteq delayed,
           ToSet(waiting') \cup delayed' = ToSet(waiting) \cup delayed \cup (claimed' \ claimed),
           ToSet(waiting') \cap delayed' = {}, claimed \subseteq claimed',
           ToSet(waiting') \cap ({worker.task} \ {Nothing}) = {},
           \A t \in claimed' \ claimed : batches[t].status \in Unfinished,
           \A u, v \in Tasks :
               worker.at # "ended" /\ WaitsForRun(u) /\ WaitsForRun(v) /\ overtakes[u][v] > 0 =>
                   AheadOf(u, v)',
           process.at = "up",
           UNCHANGED <<process, batches, older, worker, model, received, overtakes, taggings>>
    PROVE  TagsIInv'
<1>1. /\ TaggerTyped /\ OnceInHand /\ RowsAgree /\ InTurn /\ Earned /\ Alone
    BY DEF TagsIInv
<1>2. TaggerTyped'
    BY <1>1 DEF TaggerTyped
<1>3. OnceInHand'
    BY <1>1 DEF OnceInHand
<1>4. RowsAgree'
    BY <1>1 DEF RowsAgree
<1>5. InTurn'
  <2>1. ASSUME NEW u \in Tasks, NEW v \in Tasks, WaitsForRun(u), overtakes[u][v] > 0
        PROVE  /\ u # v /\ <<u, v>> \in older
               /\ worker.at # "ended" /\ WaitsForRun(v) => AheadOf(u, v)'
      BY <1>1, <2>1 DEF InTurn
  <2>2. /\ \A u, t \in Tasks : ~(<<u, t>> \in older /\ <<t, u>> \in older)
        /\ \A u, t \in Tasks :
              /\ overtakes[u][t] <= 1
              /\ batches[u].status = "none"
                   \/ (worker.at \in {"infers", "runs"} /\ worker.task = u) => overtakes[u][t] = 0
      BY <1>1 DEF InTurn
  <2>3. \A u \in Tasks : WaitsForRun(u)' <=> WaitsForRun(u)
      BY DEF WaitsForRun
  <2> QED BY <2>1, <2>2, <2>3 DEF InTurn
<1>6. Earned'
    BY <1>1 DEF Earned, Due, Allowed
<1>7. Alone'
    BY <1>1 DEF Alone
<1> QED BY <1>2, <1>3, <1>4, <1>5, <1>6, <1>7 DEF TagsIInv

LEMMA ComesBackKeeps == ASSUME TagsIInv, NEW t \in Tasks, ComesBack(t) PROVE TagsIInv'
<1>1. /\ t \in delayed /\ waiting' = Append(waiting, t) /\ delayed' = delayed \ {t}
      /\ claimed' = claimed
      /\ UNCHANGED <<process, batches, older, worker, model, received, overtakes, taggings>>
      /\ waiting \in Seq(Tasks) /\ claimed \subseteq Tasks /\ process.at = "up"
  <2>1. t \in claimed
      BY DEF ComesBack, TagsIInv, OnceInHand
  <2> QED BY <2>1, BusyIsUp DEF ComesBack, historyVars, TagsIInv, TaggerTyped
<1>2. /\ IsInjective(waiting) /\ ToSet(waiting) \cap delayed = {}
      /\ ({worker.task} \ {Nothing}) \cap (ToSet(waiting) \cup delayed) = {}
    BY DEF TagsIInv, OnceInHand
<1>3. /\ waiting' \in Seq(Tasks) /\ Len(waiting) \in Nat /\ DOMAIN waiting = 1 .. Len(waiting)
      /\ DOMAIN waiting' = 1 .. Len(waiting) + 1 /\ waiting'[Len(waiting) + 1] = t
      /\ \A i \in 1 .. Len(waiting) : waiting'[i] = waiting[i]
    BY <1>1, AppendProperties, LenProperties
<1>4. t \notin ToSet(waiting)
    BY <1>1, <1>2
<1>5. \A i \in 1 .. Len(waiting) : waiting[i] # t
    BY <1>3, <1>4 DEF ToSet
<1>6. IsInjective(waiting')
    BY <1>2, <1>3, <1>5 DEF IsInjective
<1>7. ToSet(waiting') = ToSet(waiting) \cup {t}
  <2>1. ASSUME NEW x \in ToSet(waiting') PROVE x \in ToSet(waiting) \cup {t}
      BY <1>3, <2>1 DEF ToSet
  <2>2. ASSUME NEW x \in ToSet(waiting) PROVE x \in ToSet(waiting')
    <3>1. PICK i \in 1 .. Len(waiting) : x = waiting[i]
        BY <1>3, <2>2 DEF ToSet
    <3>2. i \in 1 .. Len(waiting) + 1
        BY <1>3, <3>1
    <3> QED BY <1>3, <3>1, <3>2 DEF ToSet
  <2>3. t \in ToSet(waiting')
    <3>1. Len(waiting) + 1 \in 1 .. Len(waiting) + 1
        BY <1>3
    <3> QED BY <1>3, <3>1 DEF ToSet
  <2> QED BY <2>1, <2>2, <2>3
<1>8. ~WaitsForRun(t)
    BY <1>1 DEF TagsIInv, RowsAgree, WaitsForRun
<1>9. ASSUME NEW u \in Tasks, NEW v \in Tasks, worker.at # "ended", WaitsForRun(u), WaitsForRun(v),
             overtakes[u][v] > 0
      PROVE  AheadOf(u, v)'
  <2>1. AheadOf(u, v)
      BY <1>9 DEF TagsIInv, InTurn
  <2>2. v # t
      BY <1>8, <1>9
  <2> QED BY <1>3, <2>1, <2>2 DEF AheadOf
<1>10. ToSet(waiting') \cup delayed' = ToSet(waiting) \cup delayed \cup (claimed' \ claimed)
    BY <1>1, <1>7
<1>11. /\ ToSet(waiting') \cap delayed' = {}
       /\ ToSet(waiting') \cap ({worker.task} \ {Nothing}) = {}
    BY <1>1, <1>2, <1>7
<1> QED BY <1>1, <1>3, <1>6, <1>9, <1>10, <1>11, JoinKeeps

\* What Fit says of the ids that are put: no id twice, and whoever is older than one of them
\* and free comes before it.
LEMMA FitsInOrder ==
    ASSUME TagsIInv, NEW n \in Nat, NEW put \in [1 .. n -> Unclaimed], Fit(put)
    PROVE  /\ IsInjective(put)
           /\ \A u \in Unclaimed, j \in 1 .. n :
                 <<u, put[j]>> \in older => \E i \in 1 .. j - 1 : put[i] = u
<1>1. /\ \A u, t \in Tasks : ~(<<u, t>> \in older /\ <<t, u>> \in older)
      /\ Unclaimed \subseteq Tasks /\ DOMAIN put = 1 .. n
    BY DEF TagsIInv, InTurn, Unclaimed
<1>2. /\ \A i, j \in 1 .. n : i < j => <<put[i], put[j]>> \in older
      /\ \A t \in Unclaimed \ ToSet(put) : \A i \in 1 .. n : <<put[i], t>> \in older
    BY <1>1 DEF Fit
<1>3. ASSUME NEW i \in 1 .. n, NEW j \in 1 .. n, i < j PROVE put[i] # put[j]
    BY <1>1, <1>2, <1>3
<1>4. IsInjective(put)
  <2>1. ASSUME NEW i \in 1 .. n, NEW j \in 1 .. n, put[i] = put[j] PROVE i = j
    <3>1. ~(i < j) /\ ~(j < i)
        BY <1>3, <2>1
    <3> QED BY <3>1
  <2> QED BY <1>1, <2>1 DEF IsInjective
<1>5. ASSUME NEW u \in Unclaimed, NEW j \in 1 .. n, <<u, put[j]>> \in older
      PROVE  \E i \in 1 .. j - 1 : put[i] = u
  <2>1. put[j] \in Tasks /\ u \in Tasks /\ ~(<<put[j], u>> \in older)
      BY <1>1, <1>5
  <2>2. u \in ToSet(put)
      BY <1>2, <2>1
  <2>3. PICK i \in 1 .. n : put[i] = u
      BY <1>1, <2>2 DEF ToSet
  <2>4. i # j
      BY <1>1, <1>5, <2>1, <2>3
  <2>5. ~(j < i)
      BY <1>2, <2>1, <2>3
  <2>6. i \in 1 .. j - 1
      BY <2>4, <2>5
  <2> QED BY <2>3, <2>6
<1> QED BY <1>4, <1>5

LEMMA DispatchKeeps == ASSUME TagsIInv, Dispatch PROVE TagsIInv'
<1>1. waiting \in Seq(Tasks) /\ Len(waiting) \in Nat /\ DOMAIN waiting = 1 .. Len(waiting)
    BY LenProperties DEF TagsIInv, TaggerTyped
<1>2. PICK n \in Nat : \E put \in [1 .. n -> Unclaimed] :
        /\ Fit(put) /\ waiting' = waiting \o put /\ claimed' = claimed \cup ToSet(put)
  <2>1. 1 .. (QueueSize - Len(waiting)) \subseteq Nat
      BY <1>1, TaggerAssumption
  <2> QED BY <2>1 DEF Dispatch
<1>3. PICK put \in [1 .. n -> Unclaimed] :
        /\ Fit(put) /\ waiting' = waiting \o put /\ claimed' = claimed \cup ToSet(put)
    BY <1>2
<1>4. /\ delayed' = delayed
      /\ UNCHANGED <<process, batches, older, worker, model, received, overtakes, taggings>>
    BY DEF Dispatch, historyVars
<1>5. /\ Unclaimed \subseteq Tasks /\ Unclaimed \cap claimed = {}
      /\ \A t \in Unclaimed : batches[t].status \in Unfinished
    BY DEF Unclaimed
<1>6. /\ put \in Seq(Tasks) /\ Len(put) = n /\ DOMAIN put = 1 .. n
  <2>1. put \in [1 .. n -> Tasks]
      BY <1>5
  <2>2. put \in Seq(Tasks)
      BY <2>1, SeqDef
  <2>3. /\ Len(put) \in Nat /\ DOMAIN put = 1 .. Len(put) /\ DOMAIN put = 1 .. n
      BY <2>1, <2>2, LenProperties
  <2>4. Len(put) = n
    <3>1. \A i \in Nat : i \in 1 .. Len(put) <=> i \in 1 .. n
        BY <2>3
    <3>2. ~(Len(put) < n) /\ ~(n < Len(put))
        BY <2>3, <3>1
    <3> QED BY <2>3, <3>2
  <2> QED BY <2>2, <2>3, <2>4
<1>7. /\ waiting' \in Seq(Tasks) /\ DOMAIN waiting' = 1 .. Len(waiting) + n
      /\ \A i \in 1 .. Len(waiting) : waiting'[i] = waiting[i]
      /\ \A i \in 1 .. n : waiting'[Len(waiting) + i] = put[i]
  <2>1. PICK w : w = waiting \o put
      OBVIOUS
  <2>2. /\ w \in Seq(Tasks) /\ Len(w) = Len(waiting) + n
        /\ \A i \in 1 .. Len(w) : w[i] = IF i <= Len(waiting) THEN waiting[i] ELSE put[i - Len(waiting)]
    <3>1. /\ waiting \o put \in Seq(Tasks) /\ Len(waiting \o put) = Len(waiting) + Len(put)
          /\ \A i \in 1 .. Len(waiting) + Len(put) :
                (waiting \o put)[i] =
                    IF i <= Len(waiting) THEN waiting[i] ELSE put[i - Len(waiting)]
        BY <1>1, <1>6, ConcatProperties, Zenon
    <3>2. Len(waiting) + Len(put) = Len(waiting) + n
        BY <1>6
    <3> QED BY <2>1, <3>1, <3>2
  <2>3. DOMAIN w = 1 .. Len(waiting) + n
      BY <2>2, LenProperties
  <2>4. ASSUME NEW i \in 1 .. Len(waiting) PROVE w[i] = waiting[i]
      BY <1>1, <2>2
  <2>5. ASSUME NEW i \in 1 .. n PROVE w[Len(waiting) + i] = put[i]
    <3>1. Len(waiting) + i \in 1 .. Len(w) /\ ~(Len(waiting) + i <= Len(waiting))
          /\ (Len(waiting) + i) - Len(waiting) = i
        BY <1>1, <2>2
    <3> QED BY <2>2, <3>1
  <2> QED BY <1>3, <2>1, <2>2, <2>3, <2>4, <2>5
<1>8. \A j \in 1 .. Len(waiting) + n :
          j \in 1 .. Len(waiting)
          \/ (j - Len(waiting) \in 1 .. n /\ waiting'[j] = put[j - Len(waiting)])
  <2>1. ASSUME NEW j \in 1 .. Len(waiting) + n, j \notin 1 .. Len(waiting)
        PROVE  j - Len(waiting) \in 1 .. n /\ waiting'[j] = put[j - Len(waiting)]
    <3>1. j - Len(waiting) \in 1 .. n /\ Len(waiting) + (j - Len(waiting)) = j
        BY <1>1, <2>1
    <3> QED BY <1>7, <3>1
  <2> QED BY <2>1
<1>9. ToSet(waiting') = ToSet(waiting) \cup ToSet(put)
  <2>1. ASSUME NEW x \in ToSet(waiting') PROVE x \in ToSet(waiting) \cup ToSet(put)
    <3>1. PICK j \in 1 .. Len(waiting) + n : x = waiting'[j]
        BY <1>7, <2>1 DEF ToSet
    <3>2. CASE j \in 1 .. Len(waiting)
      <4>1. x = waiting[j]
          BY <1>7, <3>1, <3>2
      <4> QED BY <1>1, <3>2, <4>1 DEF ToSet
    <3>3. CASE j \notin 1 .. Len(waiting)
      <4>1. j - Len(waiting) \in 1 .. n /\ x = put[j - Len(waiting)]
          BY <1>8, <3>1, <3>3
      <4> QED BY <1>6, <4>1 DEF ToSet
    <3> QED BY <3>2, <3>3
  <2>2. ASSUME NEW x \in ToSet(waiting) PROVE x \in ToSet(waiting')
    <3>1. PICK i \in 1 .. Len(waiting) : x = waiting[i]
        BY <1>1, <2>2 DEF ToSet
    <3>2. i \in 1 .. Len(waiting) + n
        BY <1>1, <3>1
    <3> QED BY <1>7, <3>1, <3>2 DEF ToSet
  <2>3. ASSUME NEW x \in ToSet(put) PROVE x \in ToSet(waiting')
    <3>1. PICK i \in 1 .. n : x = put[i]
        BY <1>6, <2>3 DEF ToSet
    <3>2. Len(waiting) + i \in 1 .. Len(waiting) + n
        BY <1>1, <3>1
    <3> QED BY <1>7, <3>1, <3>2 DEF ToSet
  <2> QED BY <2>1, <2>2, <2>3
<1>10. ToSet(put) \subseteq Unclaimed
    BY <1>6 DEF ToSet
<1>11. /\ IsInjective(waiting) /\ ToSet(waiting) \subseteq claimed /\ delayed \subseteq claimed
       /\ {worker.task} \ {Nothing} \subseteq claimed
       /\ ToSet(waiting) \cap delayed = {} /\ ({worker.task} \ {Nothing}) \cap ToSet(waiting) = {}
       /\ claimed = ToSet(waiting) \cup delayed \cup ({worker.task} \ {Nothing})
       /\ claimed \subseteq Tasks
    BY DEF TagsIInv, OnceInHand, TaggerTyped
<1>12. /\ IsInjective(put)
       /\ \A u \in Unclaimed, j \in 1 .. n :
             <<u, put[j]>> \in older => \E i \in 1 .. j - 1 : put[i] = u
    BY <1>3, FitsInOrder
<1>13. IsInjective(waiting')
  <2>1. ASSUME NEW i \in 1 .. Len(waiting) + n, NEW j \in 1 .. Len(waiting) + n, i <= j,
               waiting'[i] = waiting'[j]
        PROVE  i = j
    <3>1. CASE i \in 1 .. Len(waiting) /\ j \in 1 .. Len(waiting)
        BY <1>1, <1>7, <1>11, <2>1, <3>1 DEF IsInjective
    <3>2. CASE i \in 1 .. Len(waiting) /\ j \notin 1 .. Len(waiting)
      <4>1. waiting'[i] \in ToSet(waiting) /\ waiting'[j] \in ToSet(put)
          BY <1>1, <1>6, <1>7, <1>8, <3>2 DEF ToSet
      <4> QED BY <1>5, <1>10, <1>11, <2>1, <4>1
    <3>3. CASE i \notin 1 .. Len(waiting)
      <4>1. j \notin 1 .. Len(waiting)
          BY <1>1, <2>1, <3>3
      <4>2. /\ i - Len(waiting) \in 1 .. n /\ j - Len(waiting) \in 1 .. n
            /\ put[i - Len(waiting)] = put[j - Len(waiting)]
          BY <1>8, <2>1, <3>3, <4>1
      <4>3. i - Len(waiting) = j - Len(waiting)
          BY <1>6, <1>12, <4>2 DEF IsInjective
      <4> QED BY <1>1, <2>1, <4>3
    <3> QED BY <3>1, <3>2, <3>3
  <2>2. ASSUME NEW i \in 1 .. Len(waiting) + n, NEW j \in 1 .. Len(waiting) + n,
               waiting'[i] = waiting'[j]
        PROVE  i = j
    <3>1. i <= j \/ j <= i
        BY <1>1
    <3> QED BY <2>1, <2>2, <3>1
  <2> QED BY <1>7, <2>2 DEF IsInjective
<1>14. ASSUME NEW u \in Tasks, NEW v \in Tasks, worker.at # "ended", WaitsForRun(u), WaitsForRun(v),
              overtakes[u][v] > 0
       PROVE  AheadOf(u, v)'
  <2>1. /\ AheadOf(u, v) /\ <<u, v>> \in older
        /\ ~(worker.at \in {"infers", "runs"} /\ worker.task = u)
      BY <1>14 DEF TagsIInv, InTurn
  <2>2. ASSUME NEW j \in DOMAIN waiting', waiting'[j] = v
        PROVE  \E i \in 1 .. j - 1 : waiting'[i] = u
    <3>1. CASE j \in 1 .. Len(waiting)
      <4>1. PICK i \in 1 .. j - 1 : waiting[i] = u
          BY <1>1, <1>7, <2>1, <2>2, <3>1 DEF AheadOf
      <4>2. i \in 1 .. Len(waiting)
          BY <1>1, <3>1, <4>1
      <4> QED BY <1>7, <4>1, <4>2
    <3>2. CASE j \notin 1 .. Len(waiting)
      <4>1. /\ j \in 1 .. Len(waiting) + n /\ j - Len(waiting) \in 1 .. n
            /\ put[j - Len(waiting)] = v
          BY <1>7, <1>8, <2>2, <3>2
      <4>2. CASE u \in Unclaimed
        <5>1. PICK i \in 1 .. (j - Len(waiting)) - 1 : put[i] = u
            BY <1>12, <2>1, <4>1, <4>2
        <5>2. i \in 1 .. n /\ Len(waiting) + i \in 1 .. j - 1
            BY <1>1, <4>1, <5>1
        <5> QED BY <1>7, <5>1, <5>2
      <4>3. CASE u \notin Unclaimed
        <5>1. u \in claimed
            BY <1>14, <4>3 DEF Unclaimed, WaitsForRun, Unfinished
        <5>2. u \notin delayed
            BY <1>14 DEF TagsIInv, RowsAgree, WaitsForRun
        <5>3. worker.task = Nothing \/ worker.task # u
          <6>1. worker.task # Nothing =>
                    worker.at \in {"infers", "runs"} \/ batches[worker.task].status = "pending_callback"
              BY DEF TagsIInv, TaggerTyped, RowsAgree, WorkerSteps
          <6> QED BY <1>14, <2>1, <6>1 DEF WaitsForRun
        <5>4. PICK i \in 1 .. Len(waiting) : waiting[i] = u
            BY <1>1, <1>11, <5>1, <5>2, <5>3 DEF ToSet
        <5>5. i \in 1 .. j - 1
            BY <1>1, <3>2, <4>1, <5>4
        <5> QED BY <1>7, <5>4, <5>5
      <4> QED BY <4>2, <4>3
    <3> QED BY <3>1, <3>2
  <2> QED BY <2>2 DEF AheadOf
<1>15. claimed' \ claimed = ToSet(put)
    BY <1>3, <1>5, <1>10
<1>16. /\ ToSet(waiting') \cup delayed' = ToSet(waiting) \cup delayed \cup (claimed' \ claimed)
       /\ ToSet(waiting') \cap delayed' = {} /\ claimed \subseteq claimed' /\ claimed' \subseteq Tasks
       /\ ToSet(waiting') \cap ({worker.task} \ {Nothing}) = {}
       /\ \A t \in claimed' \ claimed : batches[t].status \in Unfinished
    BY <1>3, <1>4, <1>5, <1>9, <1>10, <1>11, <1>15
<1>17. process.at = "up"
    BY DEF Dispatch
<1> QED BY <1>4, <1>7, <1>13, <1>14, <1>16, <1>17, JoinKeeps

--------------------------------------------------------------------------------
LEMMA TagsInit == TaggerInit => TagsIInv
<1> SUFFICES ASSUME TaggerInit PROVE TagsIInv
    OBVIOUS
<1>1. /\ process \in [exits : BOOLEAN, at : {"down"}] /\ older = {} /\ waiting = <<>>
      /\ claimed = {} /\ delayed = {} /\ worker = [at |-> "waits", task |-> Nothing]
      /\ model = [timer |-> FALSE, threads |-> {}]
      /\ \A t \in Tasks : batches[t] = [status |-> "none", result |-> Nothing, attempts |-> 0]
      /\ \A t \in Tasks : received[t] = 0 /\ overtakes[t] = [o \in Tasks |-> 0]
      /\ \A f \in TaggerFaults : taggings[f] = 0
    BY DEF TaggerInit, Idle, Cold
<1>2. TaggerTyped
  <2>1. /\ process \in [exits : BOOLEAN, at : Lifespan] /\ older \subseteq Tasks \X Tasks
        /\ claimed \subseteq Tasks /\ delayed \subseteq Tasks
        /\ model \in [timer : BOOLEAN, threads : SUBSET (Tasks \cup {Nothing})]
      BY <1>1 DEF Lifespan
  <2>2. waiting \in Seq(Tasks)
      BY <1>1, EmptySeq
  <2>3. worker \in [at : WorkerSteps, task : Tasks \cup {Nothing}]
      BY <1>1 DEF WorkerSteps
  <2>4. batches \in [Tasks -> Row]
    <3>1. [status |-> "none", result |-> Nothing, attempts |-> 0] \in Row
        BY DEF Row, Results
    <3> QED BY <3>1 DEF TaggerInit
  <2>5. /\ received \in [Tasks -> Nat] /\ overtakes \in [Tasks -> [Tasks -> Nat]]
        /\ taggings \in [TaggerFaults -> Nat]
      BY DEF TaggerInit
  <2> QED BY <2>1, <2>2, <2>3, <2>4, <2>5 DEF TaggerTyped
<1>3. DOMAIN waiting = {} /\ ToSet(waiting) = {}
    BY <1>1 DEF ToSet
<1>4. OnceInHand
    BY <1>1, <1>3 DEF OnceInHand, IsInjective
<1>5. RowsAgree
    BY <1>1 DEF RowsAgree
<1>6. InTurn
    BY <1>1 DEF InTurn, WaitsForRun
<1>7. Earned
    BY <1>1 DEF Earned, Due, TaggerFaults, Allowed
<1>8. Alone
    BY <1>1 DEF Alone, Idle
<1> QED BY <1>2, <1>4, <1>5, <1>6, <1>7, <1>8 DEF TagsIInv

LEMMA TagsStep == TagsIInv /\ [TaggerNext]_taggerVars => TagsIInv'
<1> SUFFICES ASSUME TagsIInv, [TaggerNext]_taggerVars PROVE TagsIInv'
    OBVIOUS
<1>1. CASE Boot
    BY <1>1, BootKeeps
<1>2. CASE ServiceDies
    BY <1>2, DownKeeps DEF ServiceDies
<1>3. CASE Dispatch
    BY <1>3, DispatchKeeps
<1>4. CASE DispatcherEnds
    BY <1>4, DispatcherEndsKeeps
<1>5. CASE TakeBatch
    BY <1>5, TakeBatchKeeps
<1>6. CASE EnterStages
    BY <1>6, EnterStagesKeeps
<1>7. CASE Finish
    BY <1>7, FinishKeeps
<1>8. CASE StageFails
    BY <1>8, StageFailsKeeps
<1>9. CASE LocalTimeout
    BY <1>9, LocalTimeoutKeeps
<1>10. CASE Post
    BY <1>10, PostKeeps
<1>11. CASE Delivered
    BY <1>11, DeliveredKeeps
<1>12. CASE IdleUnload \/ Unloaded \/ \E t \in Tasks : Straggles(t)
    BY <1>12, ThreadsKeep
<1>13. CASE \E t \in Tasks : Submit(t)
    BY <1>13, SubmitKeeps
<1>14. CASE \E t \in Tasks : ComesBack(t)
    BY <1>14, ComesBackKeeps
<1>15. CASE Stops \/ StopUnloads \/ Leaves
    BY <1>15, StopsKeeps, StopUnloadsKeeps, LeavesKeeps
<1>16. CASE UNCHANGED taggerVars
  <2>1. UNCHANGED <<process, batches, older, waiting, claimed, delayed, worker, model, received,
                    overtakes, taggings>>
      BY <1>16 DEF taggerVars, managerVars, historyVars
  <2>2. /\ process' \in [exits : BOOLEAN, at : Lifespan] /\ Alone'
        /\ model' \in [timer : BOOLEAN, threads : SUBSET (Tasks \cup {Nothing})]
        /\ taggings' \in [TaggerFaults -> Nat] /\ \A f \in TaggerFaults : taggings'[f] >= taggings[f]
      BY <2>1 DEF TagsIInv, TaggerTyped, Alone
  <2> QED BY <2>1, <2>2, AsideKeeps
<1> QED BY <1>1, <1>2, <1>3, <1>4, <1>5, <1>6, <1>7, <1>8, <1>9, <1>10, <1>11, <1>12, <1>13,
           <1>14, <1>15, <1>16 DEF TaggerNext

LEMMA TagsImply == TagsIInv => TasksAreKept
<1> SUFFICES ASSUME TagsIInv PROVE TasksAreKept
    OBVIOUS
<1>1. OnceInHand /\ OthersGetTheirTurn
    BY DEF TagsIInv, InTurn, OthersGetTheirTurn
<1>2. CallbacksAreEarned
  <2>1. ASSUME NEW t \in Tasks PROVE received[t] <= 1 + Allowed
    <3>1. /\ received[t] \in Nat /\ Due(t) \in {0, 1}
          /\ received[t] <= Allowed + Due(t)
          /\ Allowed \in Nat
        BY AllowedIsNat DEF TagsIInv, Earned, Due, TaggerTyped
    <3> QED BY <3>1
  <2>2. 1 + Allowed = 1 + taggings["lost"] + taggings["crash"] + taggings["stop"]
      BY DEF Allowed, TagsIInv, TaggerTyped, TaggerFaults
  <2> QED BY <2>1, <2>2 DEF TagsIInv, Earned, CallbacksAreEarned
<1>3. OneThread
  <2>1. ASSUME NEW threads, NEW x, threads \subseteq {x} PROVE Cardinality(threads) <= 1
    <3>1. threads = {} \/ threads = {x}
        BY <2>1
    <3>2. Cardinality({}) = 0
        BY FS_EmptySet
    <3>3. Cardinality({x}) = 1
        BY FS_Singleton
    <3>4. CASE threads = {}
        BY <3>2, <3>4
    <3>5. CASE threads = {x}
        BY <3>3, <3>5
    <3> QED BY <3>1, <3>4, <3>5
  <2>2. ASSUME process.exits PROVE Cardinality(model.threads \ {Nothing}) <= 1
    <3>1. PICK x \in Tasks \cup {Nothing} : model.threads \subseteq {x, Nothing}
        BY <2>2 DEF TagsIInv, Alone
    <3>2. model.threads \ {Nothing} \subseteq {x}
        BY <3>1
    <3> QED BY <2>1, <3>2
  <2>3. ASSUME process.exits, process.at = "up" PROVE Cardinality(model.threads) <= 1
    <3>1. \E x : model.threads \subseteq {x}
        BY <2>3 DEF TagsIInv, Alone
    <3> QED BY <2>1, <3>1
  <2> QED BY <2>2, <2>3 DEF OneThread
<1> QED BY <1>1, <1>2, <1>3 DEF TasksAreKept

\* A batch that was accepted is in hand exactly once, no other is run twice before its turn,
\* its callback is repeated only for a lost answer, a death or a stop, and where a late run
\* ends the process the stages never see two runs, nor an unloading under one until a stop
\* (task_manager.py, runner.py).
THEOREM TasksAreAlwaysKept == TaggerSpec => []TasksAreKept
<1>1. TaggerInit => TagsIInv
    BY TagsInit
<1>2. TagsIInv /\ [TaggerNext]_taggerVars => TagsIInv'
    BY TagsStep
<1>3. TagsIInv => TasksAreKept
    BY TagsImply
<1> QED BY <1>1, <1>2, <1>3, PTL DEF TaggerSpec

\* What is still to be done has retries left, and nothing exceeds its bound.
Bounded(t) ==
    /\ batches[t].attempts <= Retries + 1
    /\ batches[t].status \in Unfinished \cup {"none"} => batches[t].attempts <= Retries

TagsBounded ==
    /\ \A t \in Tasks : Bounded(t)
    /\ Len(waiting) <= QueueSize /\ dispatching \in BOOLEAN
    /\ \A f \in TaggerFaults : taggings[f] <= TaggerLimit[f]

LEMMA UpdateBounded ==
    ASSUME TaggerTyped, \A u \in Tasks : Bounded(u), NEW t \in Tasks, NEW row \in Row, Update(t, row),
           row.attempts <= Retries + 1,
           row.status \in Unfinished \cup {"none"} => row.attempts <= Retries
    PROVE  \A u \in Tasks : Bounded(u)'
<1>1. batches' = [batches EXCEPT ![t] = row] /\ batches \in [Tasks -> Row]
    BY DEF Update, TaggerTyped
<1> QED BY <1>1 DEF Bounded

LEMMA StatusBounded ==
    ASSUME TaggerTyped, \A u \in Tasks : Bounded(u), NEW t \in Tasks, NEW s,
           s = "failed" \/ (s \in Unfinished \cup {"completed"} /\ batches[t].status \in Unfinished \cup {"none"}),
           Update(t, Status(t, s))
    PROVE  \A u \in Tasks : Bounded(u)'
<1>1. batches[t] \in Row /\ Bounded(t)
    BY DEF TaggerTyped
<1>2. /\ Status(t, s) \in Row /\ Status(t, s).attempts = batches[t].attempts /\ Status(t, s).status = s
    BY <1>1 DEF Status, Row, Unfinished
<1> QED BY <1>1, <1>2, UpdateBounded DEF Bounded, Unfinished

LEMMA RowFailsBounded ==
    ASSUME TaggerTyped, \A u \in Tasks : Bounded(u), NEW t \in Tasks, NEW fault, RowFails(t, fault)
    PROVE  \A u \in Tasks : Bounded(u)'
<1>1. CASE Update(t, Status(t, "failed"))
    BY <1>1, StatusBounded
<1>2. CASE UNCHANGED <<batches, older>>
    BY <1>2 DEF Bounded
<1> QED BY <1>1, <1>2 DEF RowFails

LEMMA ChargedBounded ==
    ASSUME TaggerTyped, NEW faults, Charged(faults)
    PROVE  \A f \in TaggerFaults : taggings'[f] <= TaggerLimit[f]
BY DEF Charged

LEMMA TagsBoundedStep == TagsIInv /\ TagsBounded /\ [TaggerNext]_taggerVars => TagsBounded'
<1> SUFFICES ASSUME TagsIInv, TagsBounded, [TaggerNext]_taggerVars PROVE TagsBounded'
    OBVIOUS
<1>0. TaggerTyped /\ RowsAgree /\ \A u \in Tasks : Bounded(u)
    BY DEF TagsIInv, TagsBounded
<1>1. \A f \in TaggerFaults : taggings'[f] <= TaggerLimit[f]
  <2>1. UNCHANGED taggings \/ \E faults : Charged(faults)
      BY DEF TaggerNext, taggerVars, Boot, ServiceDies, Stops, StopUnloads, Leaves, Submit, Dispatch, DispatcherEnds, ComesBack,
             TakeBatch, EnterStages, Finish, StageFails, LocalTimeout, Straggles, Post, Delivered,
             IdleUnload, Unloaded, RowFails
  <2> QED BY <1>0, <2>1, ChargedBounded DEF TagsBounded
<1>2. Len(waiting') <= QueueSize
  <2>1. CASE UNCHANGED waiting
      BY <2>1 DEF TagsBounded
  <2>2. CASE waiting' = <<>>
      BY <2>2, TaggerAssumption
  <2>3. CASE waiting # <<>> /\ waiting' = Tail(waiting)
    <3>1. Len(waiting') = Len(waiting) - 1 /\ Len(waiting) \in Nat
        BY <1>0, <2>3 DEF TaggerTyped
    <3> QED BY <3>1, TaggerAssumption DEF TagsBounded
  <2>4. CASE \E t \in Tasks : ComesBack(t)
    <3>1. PICK t \in Tasks : waiting' = Append(waiting, t) /\ Len(waiting) < QueueSize
        BY <2>4 DEF ComesBack
    <3>2. Len(waiting') = Len(waiting) + 1 /\ Len(waiting) \in Nat
        BY <1>0, <3>1 DEF TaggerTyped
    <3> QED BY <3>1, <3>2, TaggerAssumption
  <2>5. CASE Dispatch
    <3>1. PICK n \in 1 .. (QueueSize - Len(waiting)) : \E put \in [1 .. n -> Unclaimed] :
              waiting' = waiting \o put
        BY <2>5 DEF Dispatch
    <3>2. PICK put \in [1 .. n -> Unclaimed] : waiting' = waiting \o put
        BY <3>1
    <3>3. put \in Seq(Tasks) /\ Len(put) = n /\ n \in Nat /\ waiting \in Seq(Tasks) /\ Len(waiting) \in Nat
      <4>1. waiting \in Seq(Tasks) /\ Len(waiting) \in Nat /\ QueueSize \in Nat
          BY <1>0, TaggerAssumption DEF TaggerTyped
      <4>2. n \in Nat
          BY <4>1
      <4>3. Unclaimed \subseteq Tasks
          BY DEF Unclaimed
      <4>4. put \in [1 .. n -> Tasks]
          BY <3>2, <4>3
      <4> QED BY <4>1, <4>2, <4>4, SeqDef
    <3>4. Len(waiting') = Len(waiting) + n
        BY <3>2, <3>3, ConcatProperties
    <3> QED BY <3>1, <3>3, <3>4, TaggerAssumption
  <2>6. UNCHANGED waiting \/ waiting' = <<>> \/ (waiting # <<>> /\ waiting' = Tail(waiting))
        \/ (\E t \in Tasks : ComesBack(t)) \/ Dispatch
      BY DEF TaggerNext, taggerVars, managerVars, Boot, ServiceDies, Stops, StopUnloads, Leaves, HandsEmpty, Down, Submit, DispatcherEnds,
             TakeBatch, EnterStages, Finish, StageFails, LocalTimeout, Straggles, Post, Delivered,
             IdleUnload, Unloaded
  <2> QED BY <2>1, <2>2, <2>3, <2>4, <2>5, <2>6
<1>3. \A u \in Tasks : Bounded(u)'
  <2>1. CASE UNCHANGED batches
      BY <1>0, <2>1 DEF Bounded
  <2>2. ASSUME NEW t \in Tasks, Submit(t) PROVE \A u \in Tasks : Bounded(u)'
      BY <1>0, <2>2, StatusBounded DEF Submit, Unfinished
  <2>3. worker.at \notin {"waits", "ended"} => worker.task \in Tasks /\ batches[worker.task].status \in Unfinished
      BY <1>0 DEF RowsAgree, TaggerTyped, WorkerSteps, Unfinished
  <2>4. CASE TakeBatch
    <3>1. PICK t : t = Head(waiting)
        OBVIOUS
    <3>2. t \in Tasks /\ batches[t].status \in Unfinished
      <4>1. t \in ToSet(waiting) /\ t \in Tasks
          BY <1>0, <2>4, <3>1 DEF TakeBatch, TaggerTyped, ToSet
      <4>2. ToSet(waiting) \subseteq claimed
          BY DEF TagsIInv, OnceInHand
      <4> QED BY <1>0, <4>1, <4>2 DEF RowsAgree
    <3>3. UNCHANGED batches \/ Update(t, Status(t, "running")) \/ RowFails(t, "store")
        BY <2>4, <3>1 DEF TakeBatch, MarkRunning
    <3> QED BY <1>0, <2>1, <3>2, <3>3, StatusBounded, RowFailsBounded DEF Unfinished
  <2>5. CASE Finish
    <3>1. PICK t : t = worker.task
        OBVIOUS
    <3>2. t \in Tasks /\ batches[t].status \in Unfinished /\ batches[t] \in Row /\ Bounded(t)
        BY <1>0, <2>3, <2>5, <3>1 DEF Finish, TaggerTyped
    <3>3. CASE RowFails(t, "store")
        BY <1>0, <3>2, <3>3, RowFailsBounded
    <3>4. ASSUME NEW replies \in BOOLEAN,
                 Update(t, [Status(t, "pending_callback") EXCEPT !.result = Payload(Submitted[t].paths, replies)])
          PROVE  \A u \in Tasks : Bounded(u)'
      <4>1. PICK row : row = [Status(t, "pending_callback") EXCEPT !.result = Payload(Submitted[t].paths, replies)]
          OBVIOUS
      <4>2. row \in Row /\ row.attempts = batches[t].attempts
        <5>1. /\ batches[t] \in [status : Unfinished \cup {"none", "completed", "failed"}, result : Results, attempts : Nat]
              /\ Payload(Submitted[t].paths, replies) \in Results
            BY <3>2 DEF Row, Results
        <5>2. row = [status |-> "pending_callback", result |-> Payload(Submitted[t].paths, replies),
                     attempts |-> batches[t].attempts]
            BY <4>1, <5>1 DEF Status
        <5> QED BY <5>1, <5>2 DEF Row, Unfinished
      <4> QED BY <1>0, <3>2, <3>4, <4>1, <4>2, UpdateBounded DEF Bounded
    <3> QED BY <2>5, <3>1, <3>3, <3>4 DEF Finish
  <2>6. ASSUME NEW fault, worker.at \notin {"waits", "ended"}, RowFails(worker.task, fault)
        PROVE  \A u \in Tasks : Bounded(u)'
      BY <1>0, <2>3, <2>6, RowFailsBounded
  <2>7. CASE StageFails
      BY <2>6, <2>7 DEF StageFails
  <2>8. CASE LocalTimeout
    <3>1. CASE Down
        BY <2>1, <3>1 DEF Down, HandsEmpty
    <3>2. CASE RowFails(worker.task, "timeout")
        BY <2>6, <2>8, <3>2 DEF LocalTimeout
    <3> QED BY <2>8, <3>1, <3>2 DEF LocalTimeout
  <2>9. CASE Delivered
    <3>1. PICK t : t = worker.task
        OBVIOUS
    <3>2. t \in Tasks /\ batches[t].status \in Unfinished /\ batches[t] \in Row /\ Bounded(t)
        BY <1>0, <2>3, <2>9, <3>1 DEF Delivered, TaggerTyped
    <3>3. CASE RowFails(t, "store")
        BY <1>0, <3>2, <3>3, RowFailsBounded
    <3>4. CASE Update(t, Status(t, "completed"))
        BY <1>0, <3>2, <3>4, StatusBounded
    <3>5. CASE Update(t, [batches[t] EXCEPT !.attempts = batches[t].attempts + 1,
                             !.status = IF batches[t].attempts + 1 > Retries THEN "failed" ELSE @])
      <4>1. PICK row : row = [batches[t] EXCEPT !.attempts = batches[t].attempts + 1,
                             !.status = IF batches[t].attempts + 1 > Retries THEN "failed" ELSE @]
          OBVIOUS
      <4>2. /\ row \in Row /\ row.attempts = batches[t].attempts + 1 /\ batches[t].attempts \in Nat
            /\ row.status # "failed" => row.attempts <= Retries
        <5>1. /\ batches[t] \in [status : Unfinished \cup {"none", "completed", "failed"}, result : Results, attempts : Nat]
              /\ batches[t].attempts \in Nat /\ Retries \in Nat
            BY <3>2, TaggerAssumption DEF Row
        <5>2. row = [status |-> IF batches[t].attempts + 1 > Retries THEN "failed" ELSE batches[t].status,
                     result |-> batches[t].result, attempts |-> batches[t].attempts + 1]
            BY <4>1, <5>1
        <5> QED BY <5>1, <5>2 DEF Row
      <4>3. batches[t].attempts <= Retries /\ Retries \in Nat
          BY <3>2, TaggerAssumption DEF Bounded
      <4>4. /\ row.attempts <= Retries + 1
            /\ row.status \in Unfinished \cup {"none"} => row.attempts <= Retries
          BY <4>2, <4>3 DEF Unfinished
      <4>5. Update(t, row)
          BY <3>5, <4>1
      <4> QED BY <1>0, <3>2, <4>2, <4>4, <4>5, UpdateBounded
    <3> QED BY <2>9, <3>1, <3>3, <3>4, <3>5 DEF Delivered
  <2> QED BY <2>1, <2>2, <2>4, <2>5, <2>7, <2>8, <2>9
          DEF TaggerNext, taggerVars, Boot, ServiceDies, Stops, StopUnloads, Leaves, HandsEmpty, Down, Dispatch, DispatcherEnds, ComesBack,
              EnterStages, Straggles, Post, IdleUnload, Unloaded
<1>4. dispatching' \in BOOLEAN
  <2>1. UNCHANGED dispatching \/ dispatching' = TRUE \/ dispatching' = FALSE
      BY DEF TaggerNext, taggerVars, managerVars, Boot, ServiceDies, Stops, StopUnloads, Leaves, HandsEmpty, Down, Submit, Dispatch, DispatcherEnds,
             ComesBack, TakeBatch, EnterStages, Finish, StageFails, LocalTimeout, Straggles, Post,
             Delivered, IdleUnload, Unloaded
  <2> QED BY <2>1 DEF TagsBounded
<1> QED BY <1>1, <1>2, <1>3, <1>4 DEF TagsBounded

\* The queue and the retries stay within their bounds, what waits for its retry is claimed
\* (task_manager.py).
THEOREM TagsStayTyped == TaggerSpec => []TaggerTypeOK
<1>1. TaggerInit => TagsBounded
  <2> SUFFICES ASSUME TaggerInit PROVE TagsBounded
      OBVIOUS
  <2>1. /\ \A t \in Tasks : batches[t].attempts = 0
        /\ waiting = <<>> /\ dispatching = FALSE /\ \A f \in TaggerFaults : taggings[f] = 0
      BY DEF TaggerInit
  <2>2. Len(waiting) = 0 /\ 0 <= QueueSize /\ 0 <= Retries /\ 0 <= Retries + 1
      BY <2>1, TaggerAssumption
  <2>3. \A f \in TaggerFaults : 0 <= TaggerLimit[f]
      BY TaggerAssumption
  <2> QED BY <2>1, <2>2, <2>3 DEF TagsBounded, Bounded
<1>2. TagsIInv /\ TagsBounded => TaggerTypeOK
  <2> SUFFICES ASSUME TagsIInv, TagsBounded PROVE TaggerTypeOK
      OBVIOUS
  <2>0. TaggerTyped
      BY DEF TagsIInv
  <2>1. ASSUME NEW t \in Tasks
        PROVE  /\ batches[t].status \in Unfinished \cup {"none", "completed", "failed"}
               /\ batches[t].result # Nothing => DOMAIN batches[t].result = {"rows", "dups"}
               /\ batches[t].attempts \in 0 .. (Retries + 1)
    <3>1. batches[t] \in Row /\ Bounded(t)
        BY <2>0 DEF TaggerTyped, TagsBounded
    <3>2. batches[t].attempts \in 0 .. (Retries + 1)
        BY <3>1, TaggerAssumption DEF Row, Bounded
    <3>3. batches[t].result # Nothing => DOMAIN batches[t].result = {"rows", "dups"}
        BY <3>1 DEF Row, Results, Payload
    <3> QED BY <3>1, <3>2, <3>3 DEF Row
  <2>2. delayed \subseteq claimed
      BY DEF TagsIInv, OnceInHand
  <2>3. dispatching \in BOOLEAN
      BY DEF TagsBounded
  <2>4. ToSet(waiting) \subseteq Tasks
      BY <2>0 DEF TaggerTyped, ToSet
  <2>5. ASSUME NEW f \in TaggerFaults PROVE taggings[f] \in 0 .. TaggerLimit[f]
      BY <2>0, TaggerAssumption DEF TaggerTyped, TagsBounded
  <2>6. /\ process \in [exits : BOOLEAN, at : Lifespan] /\ older \subseteq Tasks \X Tasks
        /\ claimed \subseteq Tasks /\ worker.at \in WorkerSteps
        /\ model.threads \subseteq Tasks \cup {Nothing} /\ Len(waiting) <= QueueSize
      BY <2>0 DEF TaggerTyped, TagsBounded
  <2> QED BY <2>1, <2>2, <2>3, <2>4, <2>5, <2>6 DEF TaggerTypeOK, WorkerSteps
<1>3. TaggerInit => TagsIInv
    BY TagsInit
<1>4. TagsIInv /\ [TaggerNext]_taggerVars => TagsIInv'
    BY TagsStep
<1> QED BY <1>1, <1>2, <1>3, <1>4, TagsBoundedStep, PTL DEF TaggerSpec
================================================================================
