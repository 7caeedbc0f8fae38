----------------------------- MODULE Runtime_proofs ----------------------------
(***************************************************************************)
(* Proofs about the parts of the runtime that stand on their own: the       *)
(* queues of the lanes, for every set of lanes and of messages; the         *)
(* versioned tables, for every finite set of writers, every set of keys     *)
(* whatever locks they share, and every bound; an emit and those who wait   *)
(* for it, for every set of calls, graph and bound on what goes wrong; and   *)
(* how a process and its surroundings fit, for every graph, set of releases *)
(* and of skills.                                                           *)
(***************************************************************************)
EXTENDS LaneQueues, Versions, Emission, Processes, FiniteSetTheorems, TLAPS

--------------------------------------------------------------------------------
(***************************************************************************)
(* LaneQueues                                                              *)
(***************************************************************************)

Message == [place : {"none", "held", "queued", "done", "dead", "gone"}, kind : Kinds,
            at : Lanes, header : Lanes \cup {NoLane}, home : Lanes,
            ranIn : Lanes \cup {NoLane}]

\* A message is in the queue of its header's lane or in prod's, a debounced fire in
\* its publisher's; nobody has run it while it is held or queued.
Addressed(msg) ==
    /\ msg.at # Prod => msg.header = msg.at
    /\ msg.kind = "fire" => msg.at = msg.home
    /\ msg.ranIn \in {NoLane, msg.at}
    /\ msg.place \notin {"done", "dead"} => msg.ranIn = NoLane

\* Where a held message is going there is a queue, or there was one that expired.
Expected(msg) ==
    /\ msg.place = "held" => <<msg.kind, msg.at>> \in known \cup expired
    /\ msg.place = "gone" => <<msg.kind, msg.at>> \in expired

LanesIInv ==
    /\ mail \in [Mail -> Message]
    /\ \A m \in Mail : Addressed(mail[m]) /\ Expected(mail[m])
    /\ known \subseteq Queues /\ expired \subseteq Queues
    /\ Kinds \X {Prod} \subseteq known
    /\ declared \in [Lanes -> SUBSET Queues]
    /\ \A p \in Lanes : declared[p] \subseteq known \cup expired
    /\ up \subseteq Lanes /\ Prod \in up

--------------------------------------------------------------------------------
LEMMA LaneTypes ==
    ASSUME LanesIInv PROVE LanesTypeOK
BY DEF LanesIInv, LanesTypeOK, Message

\* A header is a lane other than prod, or none; the queue follows it, and a debounced
\* fire's is its publisher's.
LEMMA Resolution ==
    ASSUME NEW kind \in Kinds, NEW p \in Lanes,
           NEW context \in {NoLane} \cup (Lanes \ {Prod}), NEW data \in {NoLane, p}
    PROVE  LET lane == Resolved(kind, p, context, data) IN
           /\ lane \in (Lanes \ {Prod}) \cup {NoLane}
           /\ QueueLane(lane) \in Lanes
           /\ QueueLane(lane) # Prod => lane = QueueLane(lane)
           /\ kind = "fire" => QueueLane(lane) = QueueLane(CurrentLane(p, context))
           /\ QueueLane(CurrentLane(p, context)) \in Lanes
<1>1. /\ NoLane # Prod /\ NoLane \notin Lanes /\ Prod \in Lanes
    BY LanesAssumption
<1>2. \A a \in Lanes \cup {NoLane} : \A b \in (Lanes \ {Prod}) \cup {NoLane} :
        First(a, b) \in (Lanes \ {Prod}) \cup {NoLane}
    BY <1>1 DEF First
<1>3. CurrentLane(p, context) \in (Lanes \ {Prod}) \cup {NoLane}
    BY <1>1, <1>2 DEF CurrentLane
<1>4. Resolved(kind, p, context, data) \in (Lanes \ {Prod}) \cup {NoLane}
    BY <1>1, <1>2, <1>3 DEF Resolved, Kinds
<1>5. kind = "fire" => Resolved(kind, p, context, data) = CurrentLane(p, context)
    BY DEF Resolved
<1> QED BY <1>1, <1>3, <1>4, <1>5 DEF QueueLane

\* Queues come and expire: a queue that exists or did is never forgotten, and prod's
\* stay while prod is up.
LEMMA QueuesStep ==
    ASSUME LanesIInv,
           known' \subseteq Queues, expired' \subseteq Queues,
           known \cup expired \subseteq known' \cup expired', expired \subseteq expired',
           Kinds \X {Prod} \subseteq known',
           NEW m \in Mail, mail'[m] = mail[m]
    PROVE  Addressed(mail'[m]) /\ Expected(mail[m])'
BY DEF LanesIInv, Addressed, Expected

--------------------------------------------------------------------------------
LEMMA BootStep ==
    ASSUME LanesIInv, NEW p \in Lanes, BootLane(p)
    PROVE  LanesIInv'
<1>1. known' \subseteq Queues /\ known \subseteq known' /\ expired' = expired /\ mail' = mail
    BY DEF BootLane, LanesIInv, Queues
<1>2. \A m \in Mail : Addressed(mail'[m]) /\ Expected(mail[m])'
    BY <1>1, QueuesStep DEF LanesIInv
<1>3. declared' \in [Lanes -> SUBSET Queues]
      /\ \A q \in Lanes : declared'[q] \subseteq declared[q]
    BY DEF BootLane, LanesIInv
<1> QED BY <1>1, <1>2, <1>3 DEF LanesIInv, BootLane, Addressed, Expected

LEMMA StopStep ==
    ASSUME LanesIInv, NEW p \in Lanes, StopLane(p)
    PROVE  LanesIInv'
BY DEF LanesIInv, StopLane, Addressed, Expected

\* The publisher's queue is there when it published to it before, or is declared now.
LEMMA PublishStep ==
    ASSUME LanesIInv, NEW p \in Lanes, NEW m \in Mail, PublishMail(p, m)
    PROVE  LanesIInv'
<1>1. PICK kind \in Kinds, context \in {NoLane} \cup (Lanes \ {Prod}), data \in {NoLane, p} :
        LET lane == Resolved(kind, p, context, data)
            at   == QueueLane(lane)
            now  == Ensured(p, <<kind, at>>)
        IN  /\ context = NoLane \/ p = Prod \/ context = p
            /\ known' = now
            /\ declared' = [declared EXCEPT ![p] =
                   IF at = Prod THEN @ ELSE @ \cup {<<kind, at>>}]
            /\ mail' = [mail EXCEPT ![m] =
                   [place |-> IF Delayed(kind) THEN "held" ELSE Arrive(m, kind, at, now),
                    kind |-> kind, at |-> at, header |-> lane, ranIn |-> NoLane,
                    home |-> QueueLane(CurrentLane(p, context))]]
    BY DEF PublishMail
<1> DEFINE lane == Resolved(kind, p, context, data)
           at == QueueLane(lane)
           home == QueueLane(CurrentLane(p, context))
           queue == <<kind, at>>
<1>2. /\ lane \in (Lanes \ {Prod}) \cup {NoLane} /\ at \in Lanes /\ home \in Lanes
      /\ at # Prod => lane = at
      /\ kind = "fire" => at = home
    BY Resolution
<1> HIDE DEF lane, at, home
<1>3. queue \in Queues
    BY <1>2 DEF Queues
<1>4. known' = Ensured(p, queue) /\ expired' = expired
    BY <1>1 DEF lane, at, PublishMail
<1>5. known \subseteq known' /\ known' \subseteq Queues
    BY <1>3, <1>4 DEF Ensured, LanesIInv
<1>6. queue \in known' \cup expired'
  <2>1. CASE at = Prod
      BY <1>5, <2>1 DEF LanesIInv
  <2>2. CASE queue \in declared[p]
      BY <1>4, <1>5, <2>2 DEF LanesIInv
  <2>3. CASE at # Prod /\ queue \notin declared[p]
      BY <1>4, <2>3 DEF Ensured
  <2> QED BY <2>1, <2>2, <2>3
<1>7. declared' = [declared EXCEPT ![p] = IF at = Prod THEN @ ELSE @ \cup {queue}]
    BY <1>1 DEF lane, at
<1>8. /\ declared' \in [Lanes -> SUBSET Queues]
      /\ \A q \in Lanes : declared'[q] \subseteq known' \cup expired'
    BY <1>3, <1>4, <1>5, <1>6, <1>7 DEF LanesIInv
<1>9. PICK place \in {"held", "queued", "gone"} :
        /\ mail' = [mail EXCEPT ![m] = [place |-> place, kind |-> kind, at |-> at,
                        header |-> lane, ranIn |-> NoLane, home |-> home]]
        /\ place = "gone" => queue \notin known'
    BY <1>1, <1>4 DEF Arrive, lane, at, home
<1>10. mail' \in [Mail -> Message] /\ Addressed(mail'[m]) /\ Expected(mail[m])'
    BY <1>2, <1>6, <1>9 DEF LanesIInv, Message, Addressed, Expected
<1>11. \A n \in Mail \ {m} : Addressed(mail'[n]) /\ Expected(mail[n])'
  <2> TAKE n \in Mail \ {m}
  <2>1. mail'[n] = mail[n]
      BY <1>9 DEF LanesIInv
  <2> QED BY <1>4, <1>5, <2>1, QueuesStep DEF LanesIInv
<1>12. up' = up
    BY DEF PublishMail
<1>13. \A n \in Mail : Addressed(mail[n])' /\ Expected(mail[n])'
    BY <1>10, <1>11 DEF Addressed
<1> QED BY <1>4, <1>5, <1>8, <1>10, <1>12, <1>13 DEF LanesIInv

\* A message moves and the queues do not.
LEMMA MailStep ==
    ASSUME LanesIInv, NEW m \in Mail, NEW msg \in Message,
           mail' = [mail EXCEPT ![m] = msg], Addressed(msg), Expected(msg),
           UNCHANGED <<known, declared, up, expired>>
    PROVE  LanesIInv'
<1>1. mail' \in [Mail -> Message] /\ mail'[m] = msg
      /\ \A n \in Mail \ {m} : mail'[n] = mail[n]
    BY DEF LanesIInv
<1> QED BY <1>1 DEF LanesIInv, Addressed, Expected

LEMMA ReleaseStep ==
    ASSUME LanesIInv, NEW m \in Mail, ReleaseMail(m)
    PROVE  LanesIInv'
<1> DEFINE msg == [mail[m] EXCEPT !.place = Arrive(m, mail[m].kind, mail[m].at, known)]
<1>1. mail[m] \in Message /\ Addressed(mail[m]) /\ Expected(mail[m]) /\ mail[m].place = "held"
    BY DEF LanesIInv, ReleaseMail
<1>2. msg \in Message /\ Addressed(msg) /\ Expected(msg)
    BY <1>1 DEF Message, Arrive, Addressed, Expected
<1>3. mail' = [mail EXCEPT ![m] = msg]
    BY DEF ReleaseMail
<1> HIDE DEF msg
<1> QED BY <1>2, <1>3, MailStep DEF ReleaseMail

\* The queue the message goes to is prod's own, whoever sent it there.
LEMMA ToProdIsAddressed ==
    ASSUME NEW m \in Mail, mail[m] \in Message, Addressed(mail[m]),
           mail[m].place = "queued", Fallback(mail[m].kind)
    PROVE  ToProd(m) \in Message /\ Addressed(ToProd(m)) /\ Expected(ToProd(m))
BY LanesAssumption DEF Message, Addressed, Expected, ToProd, Fallback

LEMMA TimesOutStep ==
    ASSUME LanesIInv, NEW m \in Mail, TimesOut(m)
    PROVE  LanesIInv'
<1>1. mail[m] \in Message /\ Addressed(mail[m])
    BY DEF LanesIInv
<1>2. ToProd(m) \in Message /\ Addressed(ToProd(m)) /\ Expected(ToProd(m))
    BY <1>1, ToProdIsAddressed DEF TimesOut
<1> QED BY <1>2, MailStep DEF TimesOut

LEMMA ConsumeStep ==
    ASSUME LanesIInv, NEW p \in Lanes, NEW m \in Mail, Consume(p, m)
    PROVE  LanesIInv'
<1>1. /\ mail[m] \in Message /\ Addressed(mail[m]) /\ mail[m].at = p /\ mail[m].place = "queued"
    BY DEF LanesIInv, Consume
<1>2. PICK fails \in BOOLEAN : mail' = [mail EXCEPT ![m] =
            IF ~fails THEN [@ EXCEPT !.place = "done", !.ranIn = p]
            ELSE IF p # Prod /\ Fallback(mail[m].kind) THEN ToProd(m)
            ELSE [@ EXCEPT !.place = "dead", !.ranIn = p]]
    BY DEF Consume
<1>3. UNCHANGED <<known, declared, up, expired>>
    BY DEF Consume
<1>4. CASE fails /\ p # Prod /\ Fallback(mail[m].kind)
  <2>1. ToProd(m) \in Message /\ Addressed(ToProd(m)) /\ Expected(ToProd(m))
      BY <1>1, <1>4, ToProdIsAddressed
  <2>2. mail' = [mail EXCEPT ![m] = ToProd(m)]
      BY <1>2, <1>4
  <2> QED BY <1>3, <2>1, <2>2, MailStep
<1>5. CASE ~(fails /\ p # Prod /\ Fallback(mail[m].kind))
  <2>1. PICK place \in {"done", "dead"} :
          mail' = [mail EXCEPT ![m] = [mail[m] EXCEPT !.place = place, !.ranIn = p]]
      BY <1>2, <1>5
  <2> DEFINE msg == [mail[m] EXCEPT !.place = place, !.ranIn = p]
  <2>2. msg \in Message /\ Addressed(msg) /\ Expected(msg)
      BY <1>1 DEF Message, Addressed, Expected
  <2> HIDE DEF msg
  <2>3. mail' = [mail EXCEPT ![m] = msg]
      BY <2>1 DEF msg
  <2> QED BY <1>3, <2>2, <2>3, MailStep
<1> QED BY <1>4, <1>5

\* A queue expires with what it holds; prod's has a consumer.
LEMMA ExpireStep ==
    ASSUME LanesIInv, NEW queue \in Queues, Expire(queue)
    PROVE  LanesIInv'
<1>1. /\ known' = known \ {queue} /\ expired' = expired \cup {queue}
      /\ queue[2] # Prod
    BY DEF Expire, LanesIInv
<1>2. Kinds \X {Prod} \subseteq known'
    BY <1>1 DEF LanesIInv
<1>3. \A m \in Mail : mail'[m] \in Message /\ Addressed(mail'[m]) /\ Expected(mail[m])'
  <2> TAKE m \in Mail
  <2>1. mail[m] \in Message /\ Addressed(mail[m]) /\ Expected(mail[m])
      BY DEF LanesIInv
  <2>2. CASE mail[m].place = "queued" /\ <<mail[m].kind, mail[m].at>> = queue
    <3>1. mail'[m] = [mail[m] EXCEPT !.place = "gone"]
        BY <2>2 DEF Expire
    <3> QED BY <1>1, <2>1, <2>2, <3>1 DEF Message, Addressed, Expected
  <2>3. CASE ~(mail[m].place = "queued" /\ <<mail[m].kind, mail[m].at>> = queue)
    <3>1. mail'[m] = mail[m]
        BY <2>3 DEF Expire
    <3> QED BY <1>1, <2>1, <3>1 DEF Expected
  <2> QED BY <2>2, <2>3
<1>4. mail' \in [Mail -> Message]
    BY <1>3 DEF Expire
<1> QED BY <1>1, <1>2, <1>3, <1>4 DEF LanesIInv, Expire, Addressed, Expected

LEMMA LanesStart ==
    ASSUME LanesInit PROVE LanesIInv
BY LanesAssumption DEF LanesInit, LanesIInv, Unsent, Message, Addressed, Expected, Queues, Kinds

LEMMA LanesStep ==
    ASSUME LanesIInv, [LanesNext]_laneVars PROVE LanesIInv'
<1>1. CASE UNCHANGED laneVars
    BY <1>1 DEF LanesIInv, laneVars, Addressed, Expected
<1>2. CASE LanesNext
    BY <1>2, BootStep, StopStep, PublishStep, ConsumeStep, ReleaseStep, TimesOutStep, ExpireStep
       DEF LanesNext
<1> QED BY <1>1, <1>2

THEOREM LanesInductive == LanesSpec => []LanesIInv
<1> QED BY LanesStart, LanesStep, PTL DEF LanesSpec

\* Messages, queues and the processes' caches keep their types (rabbitmq.py).
THEOREM MailIsTyped == LanesSpec => []LanesTypeOK
<1> QED BY LaneTypes, LanesInductive, PTL

\* A lane's process handles only what carries its lane, and a debounced fire is handled
\* in the lane of the process that set it off, whatever lanes stop and whatever expires
\* (rabbitmq.py, propagation.py).
THEOREM LanesAreSeparate == LanesSpec => []LanesStaySeparate
<1>1. LanesIInv => LanesStaySeparate
    BY DEF LanesIInv, Addressed, Expected, RunsWhereItBelongs, OnlyIdleQueuesLose,
           LanesStaySeparate, Message
<1> QED BY <1>1, LanesInductive, PTL

\* No message is lost but with a queue that stood a day without a consumer: a publisher
\* declares the lane queue before it publishes, or it did so before the queue expired.
THEOREM OnlyExpiryLoses == LanesSpec => []OnlyIdleQueuesLose
<1>1. LanesIInv => OnlyIdleQueuesLose
    BY DEF LanesIInv, Expected, OnlyIdleQueuesLose
<1> QED BY <1>1, LanesInductive, PTL

--------------------------------------------------------------------------------
(***************************************************************************)
(* Versions                                                                *)
(***************************************************************************)

Row == [ver : 1 .. MaxVer, base : 0 .. MaxVer, cas : BOOLEAN]

Session == [pc : {"idle", "lock", "number", "insert", "commit", "once"}, key : DataKeys,
            base : 0 .. MaxVer, cas : BOOLEAN, ver : 0 .. MaxVer + 1, wrote : {0, 1}]

Numbering == {"number", "insert", "commit"}

\* What one of them would insert follows the newest version, or the loaded one.
Follows(s) == s.ver = 1 + (IF s.cas THEN s.base ELSE Newest(s.key))

\* The versions are 1 .. n; a numbering transaction holds its key's lock, and is
\* about to commit nothing else than the version after the newest.
Chained ==
    /\ table \in [DataKeys -> SUBSET Row]
    /\ \A k \in DataKeys :
        /\ IsFiniteSet(table[k])
        /\ Vers(k) = 1 .. Cardinality(table[k])
        /\ \A row \in table[k] : row.cas => row.base = row.ver - 1
    /\ lock \in [Locks -> Writers \cup {Free}]
    /\ session \in [Writers -> Session]
    /\ \A w \in Writers :
        LET s == session[w] IN
        /\ s.pc \in Numbering => lock[LockOf[s.key]] = w
        /\ s.pc \in {"insert", "commit"} => Follows(s)
        /\ s.pc = "commit" /\ s.wrote = 1 => s.ver = 1 + Newest(s.key) /\ s.ver <= MaxVer

\* A transaction that inserted the row of a key is alone with it until it commits.
Single ==
    /\ once \in [DataKeys -> {0, 1}]
    /\ \A w \in Writers : session[w].pc = "once" /\ session[w].wrote = 1 =>
        /\ once[session[w].key] = 0
        /\ \A o \in Writers \ {w} :
            session[o].pc = "once" /\ session[o].wrote = 1 => session[o].key # session[w].key

VersionsIInv == Chained /\ Single

--------------------------------------------------------------------------------
\* The newest version of a key is the number of its versions.
LEMMA NewestCounts ==
    ASSUME Chained, NEW k \in DataKeys
    PROVE  Newest(k) = Cardinality(table[k]) /\ Newest(k) \in 0 .. MaxVer
<1> DEFINE n == Cardinality(table[k])
<1>1. IsFiniteSet(table[k]) /\ Vers(k) = 1 .. n /\ n \in Nat
    BY FS_CardinalityType DEF Chained
<1>2. n <= MaxVer
  <2>1. \A row \in table[k] : row.ver \in 1 .. MaxVer
      BY DEF Chained, Row
  <2>2. Vers(k) \subseteq 1 .. MaxVer
      BY <2>1 DEF Vers
  <2>3. CASE n = 0
      BY <2>3, VersionsAssumption
  <2>4. CASE n # 0
    <3>1. n \in 1 .. n
        BY <1>1, <2>4
    <3> QED BY <1>1, <2>2, <3>1, VersionsAssumption
  <2> QED BY <2>3, <2>4
<1>3. CASE table[k] = {}
  <2>1. n = 0
      BY <1>3, FS_EmptySet
  <2> QED BY <1>2, <1>3, <2>1, VersionsAssumption DEF Newest
<1>4. CASE table[k] # {}
  <2>1. n # 0
      BY <1>1, <1>4, FS_EmptySet
  <2>2. n \in Vers(k) /\ \A u \in Vers(k) : u <= n
      BY <1>1, <2>1
  <2>3. \A v \in Vers(k) : (\A u \in Vers(k) : u <= v) => v = n
      BY <1>1, <2>2
  <2>4. Newest(k) = n
      BY <1>4, <2>2, <2>3 DEF Newest
  <2> QED BY <1>1, <1>2, <2>4, VersionsAssumption
<1> QED BY <1>3, <1>4

\* A step of a session moves no other session, and keeps the fields it does not name.
LEMMA GoesEffect ==
    ASSUME session \in [Writers -> Session], NEW w \in Writers, NEW new, Goes(w, new)
    PROVE  /\ \A o \in Writers \ {w} : session'[o] = session[o]
           /\ DOMAIN session' = Writers
           /\ session' = [o \in Writers |-> session'[o]]
           /\ session'[w] = [f \in {"pc", "key", "base", "cas", "ver", "wrote"} |->
                               IF f \in DOMAIN new THEN new[f] ELSE session[w][f]]
<1>1. DOMAIN session[w] = {"pc", "key", "base", "cas", "ver", "wrote"}
    BY DEF Session
<1> QED BY <1>1 DEF Goes

LEMMA Unstarted ==
    NoSession \in Session /\ NoSession.pc = "idle"
BY VersionsAssumption DEF NoSession, Session

\* What Chained says of one session.
Orderly(w) ==
    LET s == session[w] IN
    /\ s.pc \in Numbering => lock[LockOf[s.key]] = w
    /\ s.pc \in {"insert", "commit"} => Follows(s)
    /\ s.pc = "commit" /\ s.wrote = 1 => s.ver = 1 + Newest(s.key) /\ s.ver <= MaxVer

\* A step of one session that writes no table and takes no lock from another session.
LEMMA ChainedKept ==
    ASSUME Chained, NEW w \in Writers, table' = table,
           session' = [o \in Writers |-> session'[o]],
           \A o \in Writers \ {w} : session'[o] = session[o],
           session'[w] \in Session,
           lock' \in [Locks -> Writers \cup {Free}],
           \A o \in Writers \ {w}, k \in DataKeys :
               lock[LockOf[k]] = o => lock'[LockOf[k]] = o,
           Orderly(w)'
    PROVE  Chained'
<1>1. \A k : Newest(k)' = Newest(k) /\ Vers(k)' = Vers(k)
    BY DEF Newest, Vers
<1>2. session' \in [Writers -> Session]
    BY DEF Chained
<1>3. \A o \in Writers : Orderly(o)'
  <2> TAKE o \in Writers
  <2>1. CASE o = w
      BY <2>1
  <2>2. CASE o # w
    <3>1. Orderly(o) /\ session'[o] = session[o] /\ session[o].key \in DataKeys
        BY <2>2 DEF Chained, Orderly, Session
    <3>2. Follows(session[o])' <=> Follows(session[o])
        BY <1>1, <3>1 DEF Follows
    <3> QED BY <1>1, <2>2, <3>1, <3>2 DEF Orderly, Follows
  <2> QED BY <2>1, <2>2
<1>4. \A k \in DataKeys :
        /\ IsFiniteSet(table'[k])
        /\ Vers(k)' = 1 .. Cardinality(table'[k])
        /\ \A row \in table'[k] : row.cas => row.base = row.ver - 1
    BY <1>1 DEF Chained
<1> QED BY <1>2, <1>3, <1>4 DEF Chained, Orderly

\* Single depends on no more than the counts and the transactions that inserted once.
LEMMA SingleKept ==
    ASSUME Single, NEW w \in Writers, once' = once,
           \A o \in Writers \ {w} : session'[o] = session[o],
           session'[w].pc # "once"
    PROVE  Single'
BY DEF Single

\* Who gives back its locks takes nobody else's.
LEMMA UnlockEffect ==
    ASSUME Chained, NEW w \in Writers, Unlock(w)
    PROVE  /\ lock' \in [Locks -> Writers \cup {Free}]
           /\ \A o \in Writers \ {w}, k \in DataKeys :
               lock[LockOf[k]] = o => lock'[LockOf[k]] = o
BY VersionsAssumption DEF Chained, Unlock, Locks

LEMMA IdleIsOrderly ==
    ASSUME NEW w \in Writers, session'[w].pc \notin Numbering
    PROVE  Orderly(w)'
BY DEF Orderly, Numbering

\* The newest version of a key is loaded with no lock held.
LEMMA LoadStep ==
    ASSUME VersionsIInv, NEW w \in Writers, Load(w)
    PROVE  VersionsIInv'
<1>1. PICK k \in DataKeys, cas \in BOOLEAN :
          Goes(w, [pc |-> "lock", key |-> k, base |-> Newest(k), cas |-> cas])
    BY DEF Load
<1>2. Chained /\ Single /\ session \in [Writers -> Session]
    BY DEF VersionsIInv, Chained
<1>3. /\ \A o \in Writers \ {w} : session'[o] = session[o]
      /\ session' = [o \in Writers |-> session'[o]]
      /\ session'[w] = [pc |-> "lock", key |-> k, base |-> Newest(k), cas |-> cas,
                         ver |-> session[w].ver, wrote |-> session[w].wrote]
    BY <1>1, <1>2, GoesEffect
<1>4. session'[w] \in Session /\ session'[w].pc = "lock"
  <2>1. session[w] \in Session /\ Newest(k) \in 0 .. MaxVer
      BY <1>2, NewestCounts
  <2> QED BY <1>3, <2>1 DEF Session
<1>5. Orderly(w)'
    BY <1>4, IdleIsOrderly DEF Numbering
<1>6. Chained'
  <2>1. table' = table /\ lock' = lock /\ lock' \in [Locks -> Writers \cup {Free}]
      BY <1>2 DEF Load, Chained
  <2> QED BY <1>2, <1>3, <1>4, <1>5, <2>1, ChainedKept
<1>7. Single'
    BY <1>2, <1>3, <1>4, SingleKept DEF Load
<1> QED BY <1>6, <1>7 DEF VersionsIInv

\* The lock of the key is taken when nobody has it.
LEMMA LockStep ==
    ASSUME VersionsIInv, NEW w \in Writers, Lock(w)
    PROVE  VersionsIInv'
<1> DEFINE l == LockOf[session[w].key]
<1>1. Chained /\ Single /\ session \in [Writers -> Session] /\ session[w] \in Session
    BY DEF VersionsIInv, Chained
<1>2. /\ \A o \in Writers \ {w} : session'[o] = session[o]
      /\ session' = [o \in Writers |-> session'[o]]
      /\ session'[w] = [session[w] EXCEPT !.pc = "number"]
    BY <1>1, GoesEffect DEF Session, Lock
<1>3. l \in Locks /\ lock[l] = Free /\ lock' = [lock EXCEPT ![l] = w]
    BY <1>1 DEF Lock, Locks, Session
<1>4. session'[w] \in Session /\ session'[w].pc = "number" /\ session'[w].key = session[w].key
    BY <1>1, <1>2 DEF Session
<1>5. lock' \in [Locks -> Writers \cup {Free}] /\ lock'[l] = w
    BY <1>1, <1>3 DEF Chained
<1>6. Orderly(w)'
    BY <1>4, <1>5 DEF Orderly
<1>7. \A o \in Writers \ {w}, k \in DataKeys :
        lock[LockOf[k]] = o => lock'[LockOf[k]] = o
    BY <1>1, <1>3, VersionsAssumption DEF Chained, Locks
<1>8. Chained'
    BY <1>1, <1>2, <1>4, <1>5, <1>6, <1>7, ChainedKept DEF Lock
<1>9. Single'
    BY <1>1, <1>2, <1>4, SingleKept DEF Lock
<1> QED BY <1>8, <1>9 DEF VersionsIInv

\* Under the lock the number after the newest, or after the loaded version, is taken.
LEMMA NumberStep ==
    ASSUME VersionsIInv, NEW w \in Writers, Number(w)
    PROVE  VersionsIInv'
<1> DEFINE n == 1 + (IF session[w].cas THEN session[w].base ELSE Newest(session[w].key))
<1>1. Chained /\ Single /\ session \in [Writers -> Session] /\ session[w] \in Session
    BY DEF VersionsIInv, Chained
<1>2. /\ \A o \in Writers \ {w} : session'[o] = session[o]
      /\ session' = [o \in Writers |-> session'[o]]
      /\ session'[w] = [pc |-> "insert", key |-> session[w].key, base |-> session[w].base,
                         cas |-> session[w].cas, ver |-> n, wrote |-> session[w].wrote]
    BY <1>1, GoesEffect DEF Number
<1>3. Newest(session[w].key) \in 0 .. MaxVer
    BY <1>1, NewestCounts DEF Session
<1>4. n \in 0 .. MaxVer + 1
    BY <1>1, <1>3, VersionsAssumption DEF Session
<1>5. /\ session'[w] \in Session /\ session'[w].pc = "insert" /\ session'[w].ver = n
      /\ session'[w].key = session[w].key /\ session'[w].base = session[w].base
      /\ session'[w].cas = session[w].cas
    BY <1>1, <1>2, <1>4 DEF Session
<1>6. lock' = lock /\ table' = table /\ once' = once /\ session[w].pc = "number"
    BY DEF Number, InSession
<1>7. Orderly(w)'
  <2>1. Newest(session[w].key)' = Newest(session[w].key)
      BY <1>5, <1>6 DEF Newest, Vers
  <2>2. Follows(session[w])'
      BY <1>5, <2>1 DEF Follows
  <2>3. lock[LockOf[session[w].key]] = w
      BY <1>1, <1>6 DEF Chained, Numbering
  <2> QED BY <1>5, <1>6, <2>2, <2>3 DEF Orderly
<1>8. lock' \in [Locks -> Writers \cup {Free}]
    BY <1>1, <1>6 DEF Chained
<1>9. Chained'
    BY <1>1, <1>2, <1>5, <1>6, <1>7, <1>8, ChainedKept
<1>10. Single'
    BY <1>1, <1>2, <1>5, <1>6, SingleKept
<1> QED BY <1>9, <1>10 DEF VersionsIInv

\* The INSERT writes unless another writer got ahead of the loaded version.
LEMMA InsertStep ==
    ASSUME VersionsIInv, NEW w \in Writers, Insert(w)
    PROVE  VersionsIInv'
<1> DEFINE n == IF Stale(w) THEN 0 ELSE 1
<1>1. Chained /\ Single /\ session \in [Writers -> Session] /\ session[w] \in Session
    BY DEF VersionsIInv, Chained
<1>2. /\ \A o \in Writers \ {w} : session'[o] = session[o]
      /\ session' = [o \in Writers |-> session'[o]]
      /\ session'[w] = [pc |-> "commit", key |-> session[w].key, base |-> session[w].base,
                         cas |-> session[w].cas, ver |-> session[w].ver, wrote |-> n]
    BY <1>1, GoesEffect DEF Insert
<1>3. lock' = lock /\ table' = table /\ once' = once /\ session[w].pc = "insert"
      /\ session[w].ver <= MaxVer
    BY DEF Insert, InSession
<1>4. /\ session'[w] \in Session /\ session'[w].pc = "commit" /\ session'[w].wrote = n
      /\ session'[w].key = session[w].key /\ session'[w].base = session[w].base
      /\ session'[w].cas = session[w].cas /\ session'[w].ver = session[w].ver
    BY <1>1, <1>2 DEF Session
<1>5. Newest(session[w].key)' = Newest(session[w].key)
    BY <1>3, <1>4 DEF Newest, Vers
<1>6. Follows(session[w]) /\ lock[LockOf[session[w].key]] = w
    BY <1>1, <1>3 DEF Chained, Numbering
<1>7. Orderly(w)'
  <2>1. Follows(session[w])'
      BY <1>4, <1>5, <1>6 DEF Follows
  <2>2. n = 1 => session[w].ver = 1 + Newest(session[w].key)
      BY <1>6 DEF Follows, Stale
  <2> QED BY <1>3, <1>4, <1>5, <1>6, <2>1, <2>2 DEF Orderly
<1>8. lock' \in [Locks -> Writers \cup {Free}]
    BY <1>1, <1>3 DEF Chained
<1>9. Chained'
    BY <1>1, <1>2, <1>3, <1>4, <1>7, <1>8, ChainedKept
<1>10. Single'
    BY <1>1, <1>2, <1>3, <1>4, SingleKept
<1> QED BY <1>9, <1>10 DEF VersionsIInv

\* What leaving a transaction that numbers, or has failed, does to the others.
LEMMA EndEffect ==
    ASSUME VersionsIInv, NEW w \in Writers,
           session' = [session EXCEPT ![w] = NoSession]
    PROVE  /\ \A o \in Writers \ {w} : session'[o] = session[o]
           /\ session' = [o \in Writers |-> session'[o]]
           /\ session'[w] \in Session /\ session'[w].pc = "idle"
           /\ session' \in [Writers -> Session]
           /\ Orderly(w)'
<1>1. session \in [Writers -> Session] /\ session'[w] = NoSession
    BY DEF VersionsIInv, Chained
<1>2. session'[w] \in Session /\ session'[w].pc = "idle"
    BY <1>1, Unstarted
<1> QED BY <1>1, <1>2, IdleIsOrderly DEF Numbering

\* A key whose rows grow by the version after the newest keeps its chain.
LEMMA Grows ==
    ASSUME Chained, NEW k \in DataKeys, NEW row \in Row,
           row.ver = 1 + Newest(k), row.cas => row.base = row.ver - 1,
           table' = [table EXCEPT ![k] = @ \cup {row}]
    PROVE  /\ table' \in [DataKeys -> SUBSET Row]
           /\ \A j \in DataKeys \ {k} : table'[j] = table[j]
           /\ IsFiniteSet(table'[k])
           /\ Vers(k)' = 1 .. Cardinality(table'[k])
           /\ \A r \in table'[k] : r.cas => r.base = r.ver - 1
<1> DEFINE n == Cardinality(table[k])
<1>1. table \in [DataKeys -> SUBSET Row] /\ table'[k] = table[k] \cup {row}
    BY DEF Chained
<1>2. IsFiniteSet(table[k]) /\ n \in Nat /\ Vers(k) = 1 .. n /\ row.ver = n + 1
    BY NewestCounts, FS_CardinalityType DEF Chained
<1>3. row \notin table[k]
  <2>1. row.ver \notin 1 .. n
      BY <1>2
  <2> QED BY <1>2, <2>1 DEF Vers
<1>4. IsFiniteSet(table'[k]) /\ Cardinality(table'[k]) = n + 1
    BY <1>1, <1>2, <1>3, FS_AddElement
<1>5. Vers(k)' = Vers(k) \cup {n + 1}
    BY <1>1, <1>2 DEF Vers
<1>6. Vers(k)' = 1 .. Cardinality(table'[k])
    BY <1>2, <1>4, <1>5
<1> QED BY <1>1, <1>4, <1>6 DEF Chained

\* The commit makes the version visible, and lets the lock go.
LEMMA CommitStep ==
    ASSUME VersionsIInv, NEW w \in Writers, Commit(w)
    PROVE  VersionsIInv'
<1> PICK k \in DataKeys : k = session[w].key
    BY DEF VersionsIInv, Chained, Session
<1> DEFINE added == [ver |-> session[w].ver, base |-> session[w].base, cas |-> session[w].cas]
<1>1. /\ Chained /\ Single /\ session[w] \in Session
      /\ session[w].pc = "commit" /\ once' = once
    BY DEF VersionsIInv, Chained, Commit, InSession
<1>2. /\ \A o \in Writers \ {w} : session'[o] = session[o]
      /\ session' = [o \in Writers |-> session'[o]]
      /\ session'[w] \in Session /\ session'[w].pc = "idle"
      /\ session' \in [Writers -> Session]
      /\ Orderly(w)'
    BY EndEffect DEF Commit
<1>3. /\ lock' \in [Locks -> Writers \cup {Free}]
      /\ \A o \in Writers \ {w}, j \in DataKeys :
               lock[LockOf[j]] = o => lock'[LockOf[j]] = o
    BY <1>1, UnlockEffect DEF Commit
<1>4. Single'
    BY <1>1, <1>2, SingleKept
<1>5. CASE session[w].wrote = 0
  <2>1. table' = table
      BY <1>5 DEF Commit
  <2>2. Chained'
      BY <1>1, <1>2, <1>3, <2>1, ChainedKept
  <2> QED BY <1>4, <2>2 DEF VersionsIInv
<1>6. CASE session[w].wrote # 0
  <2>1. session[w].wrote = 1
      BY <1>1, <1>6 DEF Session
  <2>2. /\ lock[LockOf[k]] = w /\ Follows(session[w])
        /\ session[w].ver = 1 + Newest(k) /\ session[w].ver <= MaxVer
      BY <1>1, <2>1 DEF Chained, Numbering
  <2>3. added \in Row /\ added.ver = 1 + Newest(k)
      BY <1>1, <2>2, NewestCounts DEF Row, Session
  <2>4. added.cas => added.base = added.ver - 1
      BY <1>1, <2>2, VersionsAssumption DEF Follows, Session
  <2>5. table' = [table EXCEPT ![k] = @ \cup {added}]
      BY <1>6 DEF Commit
  <2>6. /\ table' \in [DataKeys -> SUBSET Row]
        /\ \A j \in DataKeys \ {k} : table'[j] = table[j]
        /\ IsFiniteSet(table'[k])
        /\ Vers(k)' = 1 .. Cardinality(table'[k])
        /\ \A r \in table'[k] : r.cas => r.base = r.ver - 1
    <3> HIDE DEF added
    <3> QED BY <1>1, <2>3, <2>4, <2>5, Grows
  <2>7. \A j \in DataKeys \ {k} : Newest(j)' = Newest(j) /\ Vers(j)' = Vers(j)
    <3> TAKE j \in DataKeys \ {k}
    <3>1. table'[j] = table[j]
        BY <2>6
    <3> QED BY <3>1 DEF Newest, Vers
  <2>8. \A o \in Writers \ {w} : Orderly(o)'
    <3> TAKE o \in Writers \ {w}
    <3>1. session'[o] = session[o] /\ Orderly(o) /\ session[o].key \in DataKeys
        BY <1>1, <1>2 DEF Chained, Orderly, Session
    <3>2. CASE session[o].pc \notin Numbering
        BY <1>2, <3>1, <3>2, IdleIsOrderly
    <3>3. CASE session[o].pc \in Numbering
      <4>1. lock[LockOf[session[o].key]] = o
          BY <3>1, <3>3 DEF Orderly
      <4>2. session[o].key # k
          BY <2>2, <4>1
      <4>3. Newest(session[o].key)' = Newest(session[o].key)
        <5> PICK j \in DataKeys : j = session[o].key
            BY <3>1
        <5>1. Newest(j)' = Newest(j)
            BY <2>7, <4>2
        <5> QED BY <3>1, <5>1
      <4>4. lock'[LockOf[session[o].key]] = o
          BY <1>3, <3>1, <4>1
      <4> QED BY <3>1, <4>3, <4>4 DEF Orderly, Follows
    <3> QED BY <3>2, <3>3
  <2>9. \A j \in DataKeys :
          /\ IsFiniteSet(table'[j])
          /\ Vers(j)' = 1 .. Cardinality(table'[j])
          /\ \A r \in table'[j] : r.cas => r.base = r.ver - 1
      BY <1>1, <2>6, <2>7 DEF Chained
  <2>10. \A o \in Writers : Orderly(o)'
      BY <1>2, <2>8
  <2>11. Chained'
    BY <1>2, <1>3, <2>6, <2>9, <2>10 DEF Chained, Orderly
  <2> QED BY <1>4, <2>11 DEF VersionsIInv
<1> QED BY <1>5, <1>6

\* Whoever inserts the row of a key waits for the one that has inserted it already.
LEMMA InsertOnceStep ==
    ASSUME VersionsIInv, NEW w \in Writers, InsertOnce(w)
    PROVE  VersionsIInv'
<1>1. PICK k \in DataKeys :
        /\ \A o \in Writers : InSession(o, "once") => session[o].key # k \/ session[o].wrote = 0
        /\ Goes(w, [pc |-> "once", key |-> k, wrote |-> IF once[k] = 0 THEN 1 ELSE 0])
    BY DEF InsertOnce
<1>2. Chained /\ Single /\ session \in [Writers -> Session] /\ session[w] \in Session
    BY DEF VersionsIInv, Chained
<1>3. /\ \A o \in Writers \ {w} : session'[o] = session[o]
      /\ session' = [o \in Writers |-> session'[o]]
      /\ session'[w] = [pc |-> "once", key |-> k, base |-> session[w].base,
                         cas |-> session[w].cas, ver |-> session[w].ver,
                         wrote |-> IF once[k] = 0 THEN 1 ELSE 0]
    BY <1>1, <1>2, GoesEffect
<1>4. /\ session'[w] \in Session /\ session'[w].pc = "once" /\ session'[w].key = k
      /\ session'[w].wrote = 1 => once[k] = 0
    BY <1>2, <1>3 DEF Session
<1>5. table' = table /\ lock' = lock /\ once' = once
    BY DEF InsertOnce
<1>6. Orderly(w)'
    BY <1>4, IdleIsOrderly DEF Numbering
<1>7. lock' \in [Locks -> Writers \cup {Free}]
    BY <1>2, <1>5 DEF Chained
<1>8. Chained'
    BY <1>2, <1>3, <1>4, <1>5, <1>6, <1>7, ChainedKept
<1>9. Single'
    BY <1>1, <1>2, <1>3, <1>4, <1>5 DEF Single, InSession
<1> QED BY <1>8, <1>9 DEF VersionsIInv

LEMMA CommitOnceStep ==
    ASSUME VersionsIInv, NEW w \in Writers, CommitOnce(w)
    PROVE  VersionsIInv'
<1>1. /\ Chained /\ Single /\ session[w] \in Session /\ session[w].pc = "once"
      /\ table' = table /\ lock' = lock
      /\ once' = [once EXCEPT ![session[w].key] = @ + session[w].wrote]
    BY DEF VersionsIInv, Chained, CommitOnce, InSession
<1>2. /\ \A o \in Writers \ {w} : session'[o] = session[o]
      /\ session' = [o \in Writers |-> session'[o]]
      /\ session'[w] \in Session /\ session'[w].pc = "idle"
      /\ Orderly(w)'
    BY EndEffect DEF CommitOnce
<1>3. lock' \in [Locks -> Writers \cup {Free}]
    BY <1>1 DEF Chained
<1>4. Chained'
    BY <1>1, <1>2, <1>3, ChainedKept
<1>5. Single'
  <2>1. session[w].wrote \in {0, 1} /\ session[w].key \in DataKeys
      BY <1>1 DEF Session
  <2>2. session[w].wrote = 1 => once[session[w].key] = 0
      BY <1>1 DEF Single
  <2>3. once' \in [DataKeys -> {0, 1}]
    <3>1. once \in [DataKeys -> {0, 1}] /\ once[session[w].key] \in {0, 1}
        BY <1>1, <2>1 DEF Single
    <3>2. once[session[w].key] + session[w].wrote \in {0, 1}
        BY <2>1, <2>2, <3>1
    <3> QED BY <1>1, <3>1, <3>2
  <2>4. ASSUME NEW o \in Writers, session'[o].pc = "once", session'[o].wrote = 1
        PROVE  /\ once'[session'[o].key] = 0
               /\ \A p \in Writers \ {o} :
                   session'[p].pc = "once" /\ session'[p].wrote = 1
                       => session'[p].key # session'[o].key
    <3>1. o # w /\ session'[o] = session[o]
        BY <1>2, <2>4
    <3>2. once[session[o].key] = 0 /\ session[o].key \in DataKeys
        BY <1>1, <2>4, <3>1 DEF Single, Chained, Session
    <3>3. CASE session[w].wrote = 1
      <4>1. session[w].key # session[o].key
          BY <1>1, <2>4, <3>1, <3>3 DEF Single
      <4>2. once'[session[o].key] = once[session[o].key]
          BY <1>1, <3>2, <4>1 DEF Single
      <4> QED BY <1>1, <1>2, <2>4, <3>1, <3>2, <4>2 DEF Single
    <3>4. CASE session[w].wrote = 0
      <4>1. once'[session[o].key] = once[session[o].key]
          BY <1>1, <3>2, <3>4 DEF Single
      <4> QED BY <1>1, <1>2, <2>4, <3>1, <3>2, <4>1 DEF Single
    <3> QED BY <2>1, <3>3, <3>4
  <2> QED BY <2>3, <2>4 DEF Single
<1> QED BY <1>4, <1>5 DEF VersionsIInv

LEMMA RollsBackStep ==
    ASSUME VersionsIInv, NEW w \in Writers, RollsBack(w)
    PROVE  VersionsIInv'
<1>1. Chained /\ Single /\ table' = table /\ once' = once
    BY DEF VersionsIInv, RollsBack
<1>2. /\ \A o \in Writers \ {w} : session'[o] = session[o]
      /\ session' = [o \in Writers |-> session'[o]]
      /\ session'[w] \in Session /\ session'[w].pc = "idle"
      /\ Orderly(w)'
    BY EndEffect DEF RollsBack
<1>3. /\ lock' \in [Locks -> Writers \cup {Free}]
      /\ \A o \in Writers \ {w}, j \in DataKeys :
               lock[LockOf[j]] = o => lock'[LockOf[j]] = o
    BY <1>1, UnlockEffect DEF RollsBack
<1>4. Chained'
    BY <1>1, <1>2, <1>3, ChainedKept
<1>5. Single'
    BY <1>1, <1>2, SingleKept
<1> QED BY <1>4, <1>5 DEF VersionsIInv

LEMMA VersionsStart ==
    ASSUME VersionsInit
    PROVE  VersionsIInv
<1>1. session \in [Writers -> Session] /\ \A w \in Writers : session[w].pc = "idle"
    BY Unstarted DEF VersionsInit
<1>2. \A k \in DataKeys : IsFiniteSet(table[k]) /\ Cardinality(table[k]) = 0 /\ table[k] = {}
    BY FS_EmptySet DEF VersionsInit
<1>3. \A k \in DataKeys : Vers(k) = 1 .. Cardinality(table[k])
    BY <1>2 DEF Vers
<1>4. table \in [DataKeys -> SUBSET Row] /\ lock \in [Locks -> Writers \cup {Free}]
    BY DEF VersionsInit
<1> QED BY <1>1, <1>2, <1>3, <1>4 DEF VersionsInit, VersionsIInv, Chained, Single, Numbering

LEMMA VersionsStep ==
    ASSUME VersionsIInv, [VersionsNext]_versionVars
    PROVE  VersionsIInv'
<1>1. CASE UNCHANGED versionVars
  <2>1. table' = table /\ once' = once /\ lock' = lock /\ session' = session
      BY <1>1 DEF versionVars
  <2>2. \A k : Vers(k)' = Vers(k) /\ Newest(k)' = Newest(k)
      BY <2>1 DEF Vers, Newest
  <2>3. Chained'
      BY <2>1, <2>2 DEF VersionsIInv, Chained, Follows
  <2>4. Single'
      BY <2>1 DEF VersionsIInv, Single
  <2> QED BY <2>3, <2>4 DEF VersionsIInv
<1>2. CASE VersionsNext
  <2>1. PICK w \in Writers :
          \/ Load(w) \/ Lock(w) \/ Number(w) \/ Insert(w) \/ Commit(w)
          \/ InsertOnce(w) \/ CommitOnce(w) \/ RollsBack(w)
      BY <1>2 DEF VersionsNext
  <2> QED BY <2>1, LoadStep, LockStep, NumberStep, InsertStep, CommitStep,
             InsertOnceStep, CommitOnceStep, RollsBackStep
<1> QED BY <1>1, <1>2

THEOREM VersionsInductive == VersionsSpec => []VersionsIInv
<1> QED BY VersionsStart, VersionsStep, PTL DEF VersionsSpec

\* The rows, the counts and the locks keep their types, and a transaction that numbers
\* a version holds the lock of its key (insert_append).
THEOREM RowsAreTyped == VersionsSpec => []VersionsTypeOK
<1>1. VersionsIInv => VersionsTypeOK
  <2> SUFFICES ASSUME VersionsIInv PROVE VersionsTypeOK
      OBVIOUS
  <2>1. Cardinality(Writers) \in Nat \ {0}
      BY FS_CardinalityType, FS_EmptySet, VersionsAssumption
  <2>2. once \in [DataKeys -> 0 .. Cardinality(Writers)]
    <3>1. {0, 1} \subseteq 0 .. Cardinality(Writers)
        BY <2>1
    <3> QED BY <3>1 DEF VersionsIInv, Single
  <2> QED BY <2>2 DEF VersionsIInv, Chained, VersionsTypeOK, Row, Numbering
<1> QED BY <1>1, VersionsInductive, PTL

\* Whatever writers race for a key and whatever rolls back: its versions are 1 to n
\* without a gap or a duplicate, a version written with expected_current_ver follows
\* the one its writer had loaded, and insert_idempotent leaves one row (persist.py).
THEOREM VersionsStayAChain == VersionsSpec => []VersionsAreAChain
<1>1. VersionsIInv => VersionsAreAChain
    BY DEF VersionsIInv, Chained, Single, VersionsAreAChain
<1> QED BY <1>1, VersionsInductive, PTL

--------------------------------------------------------------------------------
(***************************************************************************)
(* Emission                                                                *)
(***************************************************************************)

Steps == Running \cup Over \cup {"idle", "asleep", "held"}
Waits == {"first", "join", "second"}
CallStates ==
    [pc : Steps, wire : Nat \ {0}, keys : SUBSET FanKeys, wait : {"no", "over"} \cup Waits,
     key : Correlations \cup {NoCall}, reply : Correlations \cup {NoCall}, out : Outs]

EmissionTyped ==
    /\ wiring \in Wirings
    /\ calls \in [Emits -> CallStates]
    /\ waiters \in [Correlations -> Emits \cup {NoCall}]
    /\ persisted \subseteq Emits
    /\ incidents \in [EmitEvents -> Nat]

\* Who waits has an emit that was begun; his reply, if it has come, is that of his
\* correlation, and who waits for the rest of his emit has one.
WaitsFor(c) ==
    /\ \A k \in Correlations : waiters[k] = c <=> calls[c].key = k /\ calls[c].wait \in Waits
    /\ calls[c].wait \in Waits => calls[c].pc \in Running \cup Over
    /\ calls[c].wait = "over" => calls[c].pc \in Over
    /\ calls[c].wait = "no" => calls[c].key = NoCall /\ calls[c].out # "reply"
    /\ calls[c].reply \in {NoCall, calls[c].key}
    /\ calls[c].wait = "join" => calls[c].reply # NoCall
    /\ calls[c].out = "reply" => calls[c].reply = calls[c].key

Keys(c, i) == {k \in FanKeys : <<c, i, k>> \in reached}

\* What an emit has handed on: something at each wire it is past that must have it, at a
\* fan to all keys or, when its extractor failed, to none; nothing at the wire it comes to.
HandsOn(c, i) ==
    LET at == calls[c].wire
        pc == calls[c].pc
        edge == wiring.wires[i] IN
    /\ Handed(c, i) # {} =>
        /\ i <= at /\ (i = at => pc \in {"fan", "sink"} \cup Over)
        /\ wiring.latest => c \in persisted
    /\ i < at \/ (i = at /\ pc \in {"fan", "sink"}) =>
        Handed(c, i) # {} \/ edge.when \/ edge.kind = "fan"
    /\ edge.kind = "fan" /\ (i < at \/ (i = at /\ pc = "sink")) => Keys(c, i) \in {{}, FanKeys}
    /\ i = at /\ pc = "fan" =>
        /\ edge.kind = "fan"
        /\ Keys(c, i) = FanKeys \ calls[c].keys \/ (calls[c].keys = {} /\ Keys(c, i) = {})

InOrder(c) ==
    /\ \A i \in 1 .. Len(wiring.wires) : HandsOn(c, i)
    /\ calls[c].pc \in {"fan", "sink"} => calls[c].wire <= Len(wiring.wires)
    /\ calls[c].pc \in {"wire", "fan", "sink"} => (wiring.latest => c \in persisted)

EmissionIInv == EmissionTyped /\ \A c \in Emits : WaitsFor(c) /\ InOrder(c)

--------------------------------------------------------------------------------
CallFields == {"pc", "wire", "keys", "wait", "key", "reply", "out"}

\* What Is makes of a call, and of no other.
LEMMA IsEffect ==
    ASSUME EmissionTyped, NEW c \in Emits, NEW new, Is(c, new)
    PROVE  /\ \A d \in Emits \ {c} : calls'[d] = calls[d]
           /\ calls'[c] = [f \in CallFields |-> IF f \in DOMAIN new THEN new[f] ELSE calls[c][f]]
           /\ calls'[c] \in CallStates => calls' \in [Emits -> CallStates]
<1>1. DOMAIN calls[c] = CallFields
    BY DEF EmissionTyped, CallStates, CallFields
<1>2. calls' = [calls EXCEPT ![c] = [f \in CallFields |-> IF f \in DOMAIN new THEN new[f] ELSE calls[c][f]]]
    BY <1>1 DEF Is
<1> QED BY <1>2 DEF EmissionTyped

\* What an emit hands on at its wire, and nowhere else.
LEMMA ReachesEffect ==
    ASSUME NEW c \in Emits, NEW T, Reaches(c, T), NEW d \in Emits, NEW i \in Nat
    PROVE  /\ d # c \/ i # calls[c].wire => Handed(d, i)' = Handed(d, i) /\ Keys(d, i)' = Keys(d, i)
           /\ d = c /\ i = calls[c].wire =>
               /\ Handed(d, i)' # {} <=> Handed(d, i) # {} \/ T # {}
               /\ Keys(d, i)' = Keys(d, i) \cup (T \cap FanKeys)
<1> DEFINE new == {<<c, calls[c].wire, t>> : t \in T}
<1>1. reached' = reached \cup new
    BY DEF Reaches
<1>2. \A r \in new : r[1] = c /\ r[2] = calls[c].wire
    OBVIOUS
<1>3. CASE d # c \/ i # calls[c].wire
  <2>1. Handed(d, i)' = Handed(d, i)
      BY <1>1, <1>2, <1>3 DEF Handed
  <2>2. \A k \in FanKeys : <<d, i, k>> \notin new
      BY <1>3
  <2>3. Keys(d, i)' = Keys(d, i)
      BY <1>1, <2>2 DEF Keys
  <2> QED BY <1>3, <2>1, <2>3
<1>4. CASE d = c /\ i = calls[c].wire
  <2>1. Handed(d, i)' = Handed(d, i) \cup new
      BY <1>1, <1>2, <1>4 DEF Handed
  <2>2. new # {} <=> T # {}
      OBVIOUS
  <2>3. \A k \in FanKeys : <<d, i, k>> \in new <=> k \in T
      BY <1>4
  <2>4. Keys(d, i)' = Keys(d, i) \cup (T \cap FanKeys)
      BY <1>1, <2>3 DEF Keys
  <2> HIDE DEF new
  <2> QED BY <1>4, <2>1, <2>2, <2>4
<1> QED BY <1>3, <1>4

LEMMA ReachesNothing ==
    ASSUME UNCHANGED reached, NEW d \in Emits, NEW i \in Nat
    PROVE  Handed(d, i)' = Handed(d, i) /\ Keys(d, i)' = Keys(d, i)
BY DEF Handed, Keys

\* An emit that is left where it is.
LEMMA OthersInOrder ==
    ASSUME EmissionTyped, NEW d \in Emits, InOrder(d), UNCHANGED wiring,
           calls'[d].pc = calls[d].pc, calls'[d].wire = calls[d].wire, calls'[d].keys = calls[d].keys,
           \A i \in Nat : Handed(d, i)' = Handed(d, i) /\ Keys(d, i)' = Keys(d, i),
           persisted \subseteq persisted'
    PROVE  InOrder(d)'
<1>1. Len(wiring.wires) \in Nat /\ wiring' = wiring
    BY EmissionAssumption DEF EmissionTyped, Wired
<1>2. ASSUME NEW i \in 1 .. Len(wiring.wires) PROVE HandsOn(d, i)'
  <2>1. HandsOn(d, i) /\ i \in Nat
      BY <1>1 DEF InOrder
  <2>2. Handed(d, i)' = Handed(d, i) /\ Keys(d, i)' = Keys(d, i)
      BY <2>1
  <2> QED BY <1>1, <2>1, <2>2 DEF HandsOn
<1> QED BY <1>1, <1>2 DEF InOrder

\* A step of c that hands nothing on leaves all others in order, and so does one that does.
LEMMA OneMoves ==
    ASSUME EmissionIInv, NEW c \in Emits, UNCHANGED wiring,
           \A d \in Emits \ {c} : /\ calls'[d].pc = calls[d].pc /\ calls'[d].wire = calls[d].wire
                                  /\ calls'[d].keys = calls[d].keys,
           UNCHANGED reached \/ \E T : Reaches(c, T),
           persisted \subseteq persisted', InOrder(c)'
    PROVE  \A d \in Emits : InOrder(d)'
<1> SUFFICES ASSUME NEW d \in Emits \ {c} PROVE InOrder(d)'
    OBVIOUS
<1>1. \A i \in Nat : Handed(d, i)' = Handed(d, i) /\ Keys(d, i)' = Keys(d, i)
  <2>1. CASE UNCHANGED reached
      BY <2>1, ReachesNothing
  <2>2. CASE \E T : Reaches(c, T)
    <3>1. PICK T : Reaches(c, T)
        BY <2>2
    <3> QED BY <3>1, ReachesEffect
  <2> QED BY <2>1, <2>2
<1> QED BY <1>1, OthersInOrder DEF EmissionIInv

--------------------------------------------------------------------------------
\* c's emit goes to step p at wire w with the keys ks left; a reply may be noted.
Moves(c, p, w, ks) ==
    /\ \A d \in Emits \ {c} : calls'[d] = calls[d]
    /\ calls' \in [Emits -> CallStates]
    /\ calls'[c].pc = p /\ calls'[c].wire = w /\ calls'[c].keys = ks
    /\ calls'[c].wait = calls[c].wait /\ calls'[c].key = calls[c].key /\ calls'[c].out = calls[c].out
    /\ calls'[c].reply \in {calls[c].reply, calls[c].key}

\* The four ways a step of an emit changes its call.
LEMMA MoveEffects ==
    ASSUME EmissionTyped, NEW c \in Emits, NEW p \in Steps, NEW ks \in SUBSET FanKeys
    PROVE  /\ Is(c, [pc |-> p]) => Moves(c, p, calls[c].wire, calls[c].keys)
           /\ Is(c, NextWire(c)) => Moves(c, "wire", calls[c].wire + 1, calls[c].keys)
           /\ Is(c, [pc |-> p, keys |-> ks]) => Moves(c, p, calls[c].wire, ks)
           /\ Is(c, [keys |-> ks]) => Moves(c, calls[c].pc, calls[c].wire, ks)
<1>1. calls[c] \in CallStates /\ calls[c].wire \in Nat \ {0}
    BY DEF EmissionTyped, CallStates
<1>2. ASSUME Is(c, [pc |-> p]) PROVE Moves(c, p, calls[c].wire, calls[c].keys)
  <2>1. calls'[c] = [f \in CallFields |-> IF f \in {"pc"} THEN [pc |-> p][f] ELSE calls[c][f]]
      BY <1>2, IsEffect
  <2>2. calls'[c] \in CallStates
      BY <1>1, <2>1 DEF CallStates, CallFields
  <2> QED BY <1>1, <1>2, <2>1, <2>2, IsEffect DEF Moves, CallFields, CallStates
<1>3. ASSUME Is(c, NextWire(c)) PROVE Moves(c, "wire", calls[c].wire + 1, calls[c].keys)
  <2>1. calls'[c] = [f \in CallFields |-> IF f \in {"pc", "wire"} THEN NextWire(c)[f] ELSE calls[c][f]]
      BY <1>3, IsEffect DEF NextWire
  <2>2. calls'[c] \in CallStates
      BY <1>1, <2>1 DEF CallStates, CallFields, NextWire, Steps, Running
  <2> QED BY <1>1, <1>3, <2>1, <2>2, IsEffect DEF Moves, CallFields, CallStates, NextWire
<1>4. ASSUME Is(c, [pc |-> p, keys |-> ks]) PROVE Moves(c, p, calls[c].wire, ks)
  <2>1. calls'[c] = [f \in CallFields |-> IF f \in {"pc", "keys"} THEN [pc |-> p, keys |-> ks][f]
                                      ELSE calls[c][f]]
      BY <1>4, IsEffect
  <2>2. calls'[c] \in CallStates
      BY <1>1, <2>1 DEF CallStates, CallFields
  <2> QED BY <1>1, <1>4, <2>1, <2>2, IsEffect DEF Moves, CallFields, CallStates
<1>5. ASSUME Is(c, [keys |-> ks]) PROVE Moves(c, calls[c].pc, calls[c].wire, ks)
  <2>1. calls'[c] = [f \in CallFields |-> IF f \in {"keys"} THEN [keys |-> ks][f] ELSE calls[c][f]]
      BY <1>5, IsEffect
  <2>2. calls'[c] \in CallStates
      BY <1>1, <2>1 DEF CallStates, CallFields
  <2> QED BY <1>1, <1>5, <2>1, <2>2, IsEffect DEF Moves, CallFields, CallStates
<1> QED BY <1>2, <1>3, <1>4, <1>5

\* A step of a running emit that leaves its own wire in order leaves everything so.
LEMMA MovesOn ==
    ASSUME EmissionIInv, NEW c \in Emits, NEW p \in Running \cup Over, NEW w \in Nat, NEW ks,
           Moves(c, p, w, ks), calls[c].pc \in Running,
           UNCHANGED <<wiring, waiters>>, incidents' \in [EmitEvents -> Nat],
           persisted \subseteq persisted', persisted' \subseteq Emits,
           UNCHANGED reached \/ \E T : Reaches(c, T),
           w = calls[c].wire \/ (w = calls[c].wire + 1 /\ p = "wire"),
           p \in {"fan", "sink"} => calls[c].wire <= Len(wiring.wires),
           p \in {"wire", "fan", "sink"} => (wiring.latest => c \in persisted'),
           \A i \in 1 .. Len(wiring.wires) : i = calls[c].wire => HandsOn(c, i)'
    PROVE  EmissionIInv'
<1>1. Len(wiring.wires) \in Nat /\ wiring' = wiring /\ calls[c].wire \in Nat
    BY EmissionAssumption DEF EmissionIInv, EmissionTyped, Wired, CallStates
<1>2. EmissionTyped'
    BY DEF EmissionIInv, EmissionTyped, Moves
<1>3. ASSUME NEW d \in Emits PROVE WaitsFor(d)'
  <2>1. WaitsFor(d) /\ calls'[d] \in CallStates
      BY DEF EmissionIInv, Moves
  <2>2. CASE d # c
      BY <2>1, <2>2 DEF WaitsFor, Moves
  <2>3. CASE d = c
      BY <2>1, <2>3 DEF WaitsFor, Moves, Running, Over, Waits
  <2> QED BY <2>2, <2>3
<1>4. InOrder(c)'
  <2>1. ASSUME NEW i \in 1 .. Len(wiring.wires), i # calls[c].wire PROVE HandsOn(c, i)'
    <3>1. HandsOn(c, i) /\ i \in Nat
        BY <1>1 DEF EmissionIInv, InOrder
    <3>2. Handed(c, i)' = Handed(c, i) /\ Keys(c, i)' = Keys(c, i)
      <4>1. CASE UNCHANGED reached
          BY <4>1, <3>1, ReachesNothing
      <4>2. CASE \E T : Reaches(c, T)
          BY <4>2, <3>1, <2>1, ReachesEffect
      <4> QED BY <4>1, <4>2
    <3>3. CASE i < calls[c].wire
        BY <1>1, <3>1, <3>2, <3>3 DEF HandsOn, Moves
    <3>4. CASE i > calls[c].wire
        BY <1>1, <3>1, <3>2, <3>4 DEF HandsOn, Moves
    <3> QED BY <1>1, <2>1, <3>1, <3>3, <3>4
  <2>2. \A i \in 1 .. Len(wiring.wires) : HandsOn(c, i)'
      BY <2>1
  <2> QED BY <1>1, <2>2 DEF InOrder, Moves
<1>5. \A d \in Emits : InOrder(d)'
    BY <1>1, <1>4, OneMoves DEF Moves
<1> QED BY <1>2, <1>3, <1>5 DEF EmissionIInv

LEMMA NoneHandedNoKeys ==
    ASSUME NEW c, NEW i
    PROVE  /\ Handed(c, i) = {} => Keys(c, i) = {}
           /\ \A k \in Keys(c, i) : Handed(c, i) # {}
<1>1. \A k \in Keys(c, i) : <<c, i, k>> \in Handed(c, i)
    BY DEF Handed, Keys
<1> QED BY <1>1

LEMMA IncidentTyped ==
    ASSUME EmissionTyped, NEW e \in EmitEvents, Incident(e)
    PROVE  incidents' \in [EmitEvents -> Nat]
BY DEF EmissionTyped, Incident

LEMMA MemberOf ==
    ASSUME NEW S, NEW s \in Seq(S), NEW n \in 1 .. Len(s)
    PROVE  s[n] \in S
OBVIOUS

\* An emit that comes to a wire.
LEMMA AtWireFacts ==
    ASSUME EmissionIInv, NEW c \in Emits, AtWire(c)
    PROVE  /\ calls[c].wire \in 1 .. Len(wiring.wires) /\ calls[c].pc \in Running
           /\ Wire(c).kind \in WireKinds /\ calls[c].keys \in SUBSET FanKeys
           /\ wiring.latest => c \in persisted
           /\ calls[c].wire \in Nat /\ Handed(c, calls[c].wire) = {} /\ Keys(c, calls[c].wire) = {}
<1>1. Len(wiring.wires) \in Nat /\ calls[c].wire \in Nat \ {0} /\ calls[c].keys \in SUBSET FanKeys
    BY EmissionAssumption DEF EmissionIInv, EmissionTyped, Wired, CallStates
<1>2. calls[c].wire \in 1 .. Len(wiring.wires) /\ calls[c].pc \in Running
    BY <1>1 DEF AtWire, AtStep, Running
<1>3. Wire(c).kind \in WireKinds
  <2>1. wiring.wires \in Seq([kind : WireKinds, when : BOOLEAN, sink : BOOLEAN])
      BY EmissionAssumption DEF EmissionIInv, EmissionTyped, Wired
  <2>2. wiring.wires[calls[c].wire] \in [kind : WireKinds, when : BOOLEAN, sink : BOOLEAN]
      BY <1>2, <2>1, MemberOf
  <2> QED BY <2>2 DEF Wire
<1>4. InOrder(c) /\ calls[c].pc = "wire"
    BY DEF EmissionIInv, AtWire, AtStep
<1>5. Handed(c, calls[c].wire) = {}
    BY <1>2, <1>4 DEF InOrder, HandsOn, Over
<1> QED BY <1>1, <1>2, <1>3, <1>4, <1>5, NoneHandedNoKeys DEF InOrder

LEMMA SkipWireKeeps ==
    ASSUME EmissionIInv, NEW c \in Emits, SkipWire(c)
    PROVE  EmissionIInv'
<1>1. Moves(c, "wire", calls[c].wire + 1, calls[c].keys)
    BY MoveEffects DEF SkipWire, EmissionIInv, Steps, Running, EmissionTyped, CallStates
<1>2. ASSUME NEW i \in 1 .. Len(wiring.wires), i = calls[c].wire PROVE HandsOn(c, i)'
  <2>1. i \in Nat /\ Handed(c, i)' = {} /\ Keys(c, i)' = {}
    <3>1. i \in Nat /\ Handed(c, i) = {} /\ Keys(c, i) = {}
      <4>1. AtWire(c)
          BY DEF SkipWire
      <4>2. calls[c].wire \in 1 .. Len(wiring.wires)
          BY <4>1, AtWireFacts
      <4>3. Handed(c, calls[c].wire) = {} /\ Keys(c, calls[c].wire) = {}
          BY <4>1, AtWireFacts
      <4> QED BY <1>2, <4>2, <4>3
    <3>2. UNCHANGED reached
        BY DEF SkipWire
    <3> QED BY <3>1, <3>2, ReachesNothing
  <2>2. wiring' = wiring /\ wiring.wires[i].when /\ i < calls'[c].wire
      BY <1>1, <1>2, <2>1 DEF SkipWire, Wire, Moves
  <2> QED BY <1>2, <2>1, <2>2 DEF HandsOn
<1> QED
    BY <1>1, <1>2, AtWireFacts, MovesOn DEF SkipWire, Running, EmissionIInv, EmissionTyped

\* What a wire handed something to its node leads to: its sinks, or the next wire.
LEMMA HandedOn ==
    ASSUME EmissionIInv, NEW c \in Emits, AtWire(c), Wire(c).kind # "fan",
           UNCHANGED <<wiring, waiters, persisted>>, incidents' \in [EmitEvents -> Nat],
           \/ Reaches(c, {"it"}) /\ Moves(c, "sink", calls[c].wire, calls[c].keys)
           \/ Reaches(c, {"it"}) /\ Moves(c, "wire", calls[c].wire + 1, calls[c].keys)
           \/ Reaches(c, {"it"}) /\ Moves(c, "raised", calls[c].wire, calls[c].keys)
           \/ UNCHANGED reached /\ Moves(c, "raised", calls[c].wire, calls[c].keys)
    PROVE  EmissionIInv'
<1>0. /\ calls[c].wire \in Nat /\ Handed(c, calls[c].wire) = {}
      /\ wiring.latest => c \in persisted
    BY AtWireFacts
<1>1. ASSUME NEW i \in 1 .. Len(wiring.wires), i = calls[c].wire PROVE HandsOn(c, i)'
  <2>1. CASE Reaches(c, {"it"})
    <3>1. Handed(c, i)' # {} /\ i \in Nat
      <4>1. i \in Nat /\ i = calls[c].wire
          BY <1>0, <1>1
      <4>2. PICK T : T # {} /\ Reaches(c, T)
          BY <2>1
      <4>3. Handed(c, i)' # {} <=> Handed(c, i) # {} \/ T # {}
          BY <4>1, <4>2, ReachesEffect
      <4> QED BY <4>1, <4>2, <4>3
    <3>2. /\ wiring' = wiring /\ wiring.wires[i].kind # "fan"
          /\ wiring.latest => c \in persisted'
        BY <1>0, <1>1 DEF Wire
    <3>3. \/ calls'[c].pc \in {"sink", "raised"} /\ calls'[c].wire = i
          \/ calls'[c].pc = "wire" /\ calls'[c].wire = i + 1
        BY <1>1 DEF Moves
    <3> QED BY <3>1, <3>2, <3>3 DEF HandsOn, Over
  <2>2. CASE UNCHANGED reached /\ Moves(c, "raised", calls[c].wire, calls[c].keys)
    <3>1. i \in Nat /\ Handed(c, i) = {}
        BY <1>0, <1>1
    <3>2. Handed(c, i)' = {}
        BY <2>2, <3>1, ReachesNothing
    <3>3. calls'[c].pc = "raised" /\ calls'[c].wire = i
        BY <1>1, <2>2 DEF Moves
    <3> QED BY <1>1, <3>1, <3>2, <3>3 DEF HandsOn
  <2> QED BY <2>1, <2>2
<1>2. persisted \subseteq persisted' /\ persisted' \subseteq Emits /\ calls[c].wire \in Nat
    BY AtWireFacts DEF EmissionIInv, EmissionTyped
<1>3. CASE Moves(c, "sink", calls[c].wire, calls[c].keys)
    BY <1>1, <1>2, <1>3, AtWireFacts, MovesOn DEF Running
<1>4. CASE Moves(c, "wire", calls[c].wire + 1, calls[c].keys)
    BY <1>1, <1>2, <1>4, AtWireFacts, MovesOn DEF Running
<1>5. CASE Moves(c, "raised", calls[c].wire, calls[c].keys)
    BY <1>1, <1>2, <1>5, AtWireFacts, MovesOn DEF Over
<1> QED BY <1>3, <1>4, <1>5

LEMMA PublishWireKeeps ==
    ASSUME EmissionIInv, NEW c \in Emits, PublishWire(c)
    PROVE  EmissionIInv'
<1>1. AtWire(c) /\ Wire(c).kind # "fan" /\ UNCHANGED <<wiring, waiters, persisted>>
    BY DEF PublishWire
<1>2. EmissionTyped /\ calls[c].keys \in SUBSET FanKeys
    BY <1>1, AtWireFacts DEF EmissionIInv
<1>3. CASE /\ Reaches(c, {"it"}) /\ UNCHANGED incidents
           /\ Is(c, IF Wire(c).sink THEN [pc |-> "sink"] ELSE NextWire(c))
    BY <1>1, <1>2, <1>3, MoveEffects, HandedOn DEF Steps, Running, EmissionTyped
<1>4. CASE /\ Incident("raise") /\ Is(c, [pc |-> "raised"])
           /\ \E taken \in BOOLEAN : IF taken THEN Reaches(c, {"it"}) ELSE UNCHANGED reached
  <2>1. incidents' \in [EmitEvents -> Nat]
      BY <1>2, <1>4, IncidentTyped DEF EmitEvents
  <2>2. Moves(c, "raised", calls[c].wire, calls[c].keys)
      BY <1>2, <1>4, MoveEffects DEF Steps, Over
  <2> QED BY <1>1, <1>4, <2>1, <2>2, HandedOn
<1> QED BY <1>3, <1>4 DEF PublishWire

\* notify notes a reply at whoever waits for its correlation, and at nobody else.
LEMMA NotifiedEffect ==
    ASSUME EmissionIInv, NEW k \in Correlations
    PROVE  /\ Notified(k) \in [Emits -> CallStates]
           /\ \A d \in Emits :
               /\ waiters[k] # d => Notified(k)[d] = calls[d]
               /\ Notified(k)[d].pc = calls[d].pc /\ Notified(k)[d].wire = calls[d].wire
               /\ Notified(k)[d].keys = calls[d].keys /\ Notified(k)[d].wait = calls[d].wait
               /\ Notified(k)[d].key = calls[d].key /\ Notified(k)[d].out = calls[d].out
               /\ Notified(k)[d].reply \in {calls[d].reply, calls[d].key}
<1>1. calls \in [Emits -> CallStates] /\ waiters[k] \in Emits \cup {NoCall} /\ NoCall \notin Emits
    BY EmissionAssumption DEF EmissionIInv, EmissionTyped
<1>2. CASE Notified(k) = calls
    BY <1>1, <1>2
<1>3. CASE waiters[k] \in Emits /\ Notified(k) = [calls EXCEPT ![waiters[k]].reply = k]
  <2>1. calls[waiters[k]].key = k
      BY <1>3 DEF EmissionIInv, WaitsFor
  <2> QED BY <1>1, <1>3, <2>1 DEF CallStates
<1> QED BY <1>1, <1>2, <1>3 DEF Notified

\* An emit that ends at its step.
LEMMA LeavesKeeps ==
    ASSUME EmissionIInv, NEW c \in Emits, NEW p \in Over, calls[c].pc \in Running,
           Moves(c, p, calls[c].wire, calls[c].keys),
           UNCHANGED <<wiring, waiters, reached, persisted>>, incidents' \in [EmitEvents -> Nat]
    PROVE  EmissionIInv'
<1>1. calls[c].wire \in Nat /\ p \notin Running /\ persisted' \subseteq Emits
    BY DEF EmissionIInv, EmissionTyped, CallStates, Over, Running
<1>2. ASSUME NEW i \in 1 .. Len(wiring.wires), i = calls[c].wire PROVE HandsOn(c, i)'
  <2>1. HandsOn(c, i) /\ i \in Nat
      BY <1>1, <1>2 DEF EmissionIInv, InOrder
  <2>2. Handed(c, i)' = Handed(c, i) /\ calls'[c].pc \in Over /\ calls'[c].wire = i
      BY <1>2, <2>1, ReachesNothing DEF Moves
  <2>3. calls'[c].pc \notin {"fan", "sink"}
      BY <2>2 DEF Over
  <2> QED BY <2>1, <2>2, <2>3 DEF HandsOn
<1> QED BY <1>1, <1>2, MovesOn DEF Running

LEMMA CallNodeKeeps ==
    ASSUME EmissionIInv, NEW c \in Emits, CallNode(c)
    PROVE  EmissionIInv'
<1>1. AtWire(c) /\ Wire(c).kind # "fan" /\ UNCHANGED <<wiring, waiters, persisted>>
    BY DEF CallNode
<1>2. /\ EmissionTyped /\ calls[c].keys \in SUBSET FanKeys /\ calls[c].pc \in Running
      /\ calls[c].wire \in Nat \ {0}
    BY <1>1, AtWireFacts DEF EmissionIInv, EmissionTyped, CallStates
<1>3. Is(c, [pc |-> "raised"]) => Moves(c, "raised", calls[c].wire, calls[c].keys)
    BY <1>2, MoveEffects DEF Steps, Over
<1>4. Incident("raise") => incidents' \in [EmitEvents -> Nat]
    BY <1>2, IncidentTyped DEF EmitEvents
<1>5. CASE Is(c, [pc |-> "raised"]) /\ UNCHANGED <<wiring, reached, incidents>>
    BY <1>1, <1>2, <1>3, <1>5, LeavesKeeps DEF Over, EmissionTyped
<1>6. CASE Reaches(c, {"it"}) /\ Incident("raise") /\ Is(c, [pc |-> "raised"])
    BY <1>1, <1>3, <1>4, <1>6, HandedOn
<1>7. ASSUME Reaches(c, {"it"}), UNCHANGED incidents,
             NEW p, NEW w,
             \/ p = "sink" /\ w = calls[c].wire
             \/ p = "wire" /\ w = calls[c].wire + 1,
             NEW said \in {calls} \cup {Notified(k) : k \in Replies(c)},
             calls' = [said EXCEPT ![c].pc = p, ![c].wire = w]
      PROVE  EmissionIInv'
  <2>1. /\ said \in [Emits -> CallStates] /\ \A d \in Emits \ {c} : said[d] = calls[d]
        /\ said[c].keys = calls[c].keys /\ said[c].wait = calls[c].wait
        /\ said[c].key = calls[c].key /\ said[c].out = calls[c].out
        /\ said[c].reply \in {calls[c].reply, calls[c].key}
    <3>1. CASE said = calls
        BY <1>2, <3>1 DEF EmissionTyped
    <3>2. CASE \E k \in Replies(c) : said = Notified(k)
      <4>1. PICK k \in Correlations : k = calls[c].key /\ said = Notified(k)
          BY <3>2 DEF Replies
      <4>2. WaitsFor(c) /\ calls[c].pc \notin Over /\ calls[c].wait \in {"no", "over"} \cup Waits
          BY <1>2 DEF EmissionIInv, EmissionTyped, CallStates, Over, Running
      <4>3. waiters[k] = c
          BY <4>1, <4>2, EmissionAssumption DEF WaitsFor
      <4> QED BY <4>1, <4>3, NotifiedEffect
    <3> QED BY <3>1, <3>2
  <2>2. p \in Steps /\ w \in Nat \ {0}
      BY <1>2, <1>7 DEF Steps, Running
  <2>3. /\ calls' \in [Emits -> CallStates] /\ \A d \in Emits \ {c} : calls'[d] = said[d]
        /\ calls'[c] = [said[c] EXCEPT !.pc = p, !.wire = w]
    <3>1. PICK call : call = [said[c] EXCEPT !.pc = p, !.wire = w]
        OBVIOUS
    <3>2. call \in CallStates
      <4>1. said[c] \in CallStates
          BY <2>1
      <4> QED BY <2>2, <3>1, <4>1 DEF CallStates
    <3>3. calls' = [said EXCEPT ![c] = call]
        BY <1>7, <2>1, <3>1
    <3> QED BY <2>1, <3>1, <3>2, <3>3
  <2>4. said[c] \in CallStates
      BY <2>1
  <2>5. /\ calls'[c].pc = p /\ calls'[c].wire = w /\ calls'[c].keys = said[c].keys
        /\ calls'[c].wait = said[c].wait /\ calls'[c].key = said[c].key
        /\ calls'[c].out = said[c].out /\ calls'[c].reply = said[c].reply
      BY <2>3, <2>4 DEF CallStates
  <2>6. Moves(c, p, w, calls[c].keys)
      BY <2>1, <2>3, <2>5 DEF Moves
  <2> QED BY <1>1, <1>2, <1>7, <2>6, HandedOn DEF EmissionTyped
<1> QED
  <2>1. CASE ~Resolves(c)
      BY <1>5, <2>1 DEF CallNode
  <2>2. CASE Resolves(c) /\ Incident("raise") /\ Is(c, [pc |-> "raised"]) /\ Reaches(c, {"it"})
      BY <1>6, <2>2
  <2>3. CASE /\ Reaches(c, {"it"}) /\ UNCHANGED incidents
             /\ \E said \in {calls} \cup {Notified(k) : k \in Replies(c)} :
                  \/ calls' = [said EXCEPT ![c].pc = "sink", ![c].wire = calls[c].wire]
                  \/ calls' = [said EXCEPT ![c].pc = "wire", ![c].wire = calls[c].wire + 1]
      BY <1>7, <2>3
  <2> QED BY <2>1, <2>2, <2>3 DEF CallNode, NextWire

LEMMA ForeignNodeKeeps ==
    ASSUME EmissionIInv, NEW c \in Emits, ForeignNode(c)
    PROVE  EmissionIInv'
<1>1. AtWire(c) /\ Is(c, [pc |-> "raised"])
    BY DEF ForeignNode
<1>2. EmissionTyped /\ calls[c].keys \in SUBSET FanKeys /\ calls[c].pc \in Running
    BY <1>1, AtWireFacts DEF EmissionIInv
<1> QED BY <1>1, <1>2, MoveEffects, LeavesKeeps DEF ForeignNode, Steps, Over, EmissionTyped

LEMMA FanKeeps ==
    ASSUME EmissionIInv, NEW c \in Emits, Fan(c)
    PROVE  EmissionIInv'
<1>1. AtWire(c) /\ Wire(c).kind = "fan" /\ UNCHANGED <<wiring, waiters, reached, persisted>>
    BY DEF Fan
<1>2. /\ EmissionTyped /\ calls[c].pc \in Running /\ calls[c].wire \in 1 .. Len(wiring.wires)
      /\ persisted' \subseteq Emits /\ calls[c].wire \in Nat /\ (wiring.latest => c \in persisted')
    BY <1>1, AtWireFacts DEF EmissionIInv, EmissionTyped
<1>3. PICK ks \in {FanKeys, {}} :
        /\ Is(c, [pc |-> "fan", keys |-> ks])
        /\ UNCHANGED incidents \/ Incident("raise")
    BY DEF Fan
<1>4. Moves(c, "fan", calls[c].wire, ks)
  <2>1. Is(c, [pc |-> "fan", keys |-> ks])
      BY <1>3
  <2>2. ks \in SUBSET FanKeys /\ "fan" \in Steps
      BY DEF Steps, Running
  <2> QED BY <1>2, <2>1, <2>2, MoveEffects
<1>5. incidents' \in [EmitEvents -> Nat]
    BY <1>2, <1>3, IncidentTyped DEF EmitEvents, EmissionTyped
<1>6. ASSUME NEW i \in 1 .. Len(wiring.wires), i = calls[c].wire PROVE HandsOn(c, i)'
  <2>1. Handed(c, calls[c].wire) = {} /\ Keys(c, calls[c].wire) = {}
      BY <1>1, AtWireFacts
  <2>2. i \in Nat /\ Handed(c, i)' = {} /\ Keys(c, i)' = {}
      BY <1>1, <1>2, <1>6, <2>1, ReachesNothing
  <2>3. calls'[c].wire = i /\ calls'[c].pc = "fan" /\ calls'[c].keys \in {FanKeys, {}}
      BY <1>4, <1>6 DEF Moves
  <2>4. wiring'.wires[i].kind = "fan"
      BY <1>1, <1>6 DEF Wire
  <2> QED BY <2>2, <2>3, <2>4 DEF HandsOn
<1>7. /\ persisted \subseteq persisted' /\ UNCHANGED <<wiring, waiters>>
      /\ calls[c].wire <= Len(wiring.wires) /\ "fan" \in Running \cup Over
    BY <1>1, <1>2 DEF Running
<1> QED BY <1>1, <1>2, <1>4, <1>5, <1>6, <1>7, MovesOn

\* An emit that is inside a wire: at its fan or at its sinks.
LEMMA InsideWireFacts ==
    ASSUME EmissionIInv, NEW c \in Emits, calls[c].pc \in {"fan", "sink"}
    PROVE  /\ calls[c].wire \in 1 .. Len(wiring.wires) /\ calls[c].wire \in Nat
           /\ calls[c].pc \in Running /\ calls[c].keys \in SUBSET FanKeys
           /\ wiring.latest => c \in persisted
           /\ HandsOn(c, calls[c].wire)
<1>1. Len(wiring.wires) \in Nat /\ calls[c].wire \in Nat \ {0} /\ calls[c].keys \in SUBSET FanKeys
    BY EmissionAssumption DEF EmissionIInv, EmissionTyped, Wired, CallStates
<1>2. InOrder(c)
    BY DEF EmissionIInv
<1>3. calls[c].wire \in 1 .. Len(wiring.wires)
    BY <1>1, <1>2 DEF InOrder
<1> QED BY <1>1, <1>2, <1>3 DEF InOrder, Running

LEMMA FanKeyKeeps ==
    ASSUME EmissionIInv, NEW c \in Emits, FanKey(c)
    PROVE  EmissionIInv'
<1>1. calls[c].pc = "fan" /\ UNCHANGED <<wiring, waiters, persisted>>
    BY DEF FanKey, AtStep
<1>2. /\ EmissionTyped /\ calls[c].wire \in 1 .. Len(wiring.wires) /\ calls[c].wire \in Nat
      /\ persisted' \subseteq Emits /\ (wiring.latest => c \in persisted')
      /\ calls[c].keys \in SUBSET FanKeys
    BY <1>1, InsideWireFacts DEF EmissionIInv, EmissionTyped
<1>3. PICK k \in calls[c].keys :
        /\ Reaches(c, {k}) /\ Is(c, [keys |-> calls[c].keys \ {k}])
        /\ UNCHANGED incidents \/ Incident("raise")
    BY DEF FanKey
<1>4. PICK ks \in SUBSET FanKeys : ks = calls[c].keys \ {k}
    BY <1>2
<1>5. Moves(c, "fan", calls[c].wire, ks)
  <2>1. Is(c, [keys |-> ks]) /\ calls[c].pc = "fan"
      BY <1>1, <1>3, <1>4
  <2>2. "fan" \in Steps
      BY DEF Steps, Running
  <2>3. Moves(c, calls[c].pc, calls[c].wire, ks)
      BY <1>2, <2>1, <2>2, MoveEffects
  <2> QED BY <2>1, <2>3
<1>6. incidents' \in [EmitEvents -> Nat]
    BY <1>2, <1>3, IncidentTyped DEF EmitEvents, EmissionTyped
<1>7. ASSUME NEW i \in 1 .. Len(wiring.wires), i = calls[c].wire PROVE HandsOn(c, i)'
  <2>1. i \in Nat /\ HandsOn(c, i)
      BY <1>1, <1>2, <1>7 DEF EmissionIInv, InOrder
  <2>2. wiring.wires[i].kind = "fan" /\ Keys(c, i) = FanKeys \ calls[c].keys
      BY <1>1, <1>3, <1>7, <2>1 DEF HandsOn
  <2>3. Handed(c, i)' # {} /\ Keys(c, i)' = Keys(c, i) \cup ({k} \cap FanKeys)
    <3>1. Reaches(c, {k})
        BY <1>3
    <3> QED BY <1>7, <2>1, <3>1, ReachesEffect
  <2>4. Keys(c, i)' = FanKeys \ ks
      BY <1>2, <1>3, <1>4, <2>2, <2>3
  <2>5. calls'[c].wire = i /\ calls'[c].pc = "fan" /\ calls'[c].keys = ks
      BY <1>5, <1>7 DEF Moves
  <2> QED BY <1>1, <1>2, <2>1, <2>2, <2>3, <2>4, <2>5 DEF HandsOn
<1> QED
  <2>1. \E T : Reaches(c, T)
      BY <1>3
  <2>2. /\ persisted \subseteq persisted' /\ UNCHANGED <<wiring, waiters>> /\ calls[c].pc \in Running
        /\ calls[c].wire <= Len(wiring.wires) /\ "fan" \in Running \cup Over
      BY <1>1, <1>2 DEF Running
  <2> QED BY <1>2, <1>5, <1>6, <1>7, <2>1, <2>2, MovesOn

LEMMA FanEndsKeeps ==
    ASSUME EmissionIInv, NEW c \in Emits, FanEnds(c)
    PROVE  EmissionIInv'
<1>1. /\ calls[c].pc = "fan" /\ calls[c].keys = {}
      /\ UNCHANGED <<wiring, waiters, reached, persisted, incidents>>
    BY DEF FanEnds, AtStep
<1>2. /\ EmissionTyped /\ calls[c].wire \in 1 .. Len(wiring.wires) /\ calls[c].wire \in Nat
      /\ persisted' \subseteq Emits /\ (wiring.latest => c \in persisted')
      /\ calls[c].keys \in SUBSET FanKeys /\ calls[c].pc \in Running
      /\ incidents' \in [EmitEvents -> Nat]
    BY <1>1, InsideWireFacts DEF EmissionIInv, EmissionTyped
<1>3. \/ Moves(c, "sink", calls[c].wire, calls[c].keys)
      \/ Moves(c, "wire", calls[c].wire + 1, calls[c].keys)
    BY <1>2, MoveEffects DEF FanEnds, Steps, Running
<1>4. ASSUME NEW i \in 1 .. Len(wiring.wires), i = calls[c].wire PROVE HandsOn(c, i)'
  <2>1. i \in Nat /\ HandsOn(c, i)
      BY <1>1, <1>2, <1>4 DEF EmissionIInv, InOrder
  <2>2. wiring.wires[i].kind = "fan" /\ Keys(c, i) \in {{}, FanKeys}
      BY <1>1, <1>4, <2>1 DEF HandsOn
  <2>3. Handed(c, i)' = Handed(c, i) /\ Keys(c, i)' = Keys(c, i)
      BY <1>1, <2>1, ReachesNothing
  <2>4. (calls'[c].wire = i /\ calls'[c].pc = "sink") \/ (calls'[c].wire = i + 1 /\ calls'[c].pc = "wire")
      BY <1>3, <1>4 DEF Moves
  <2> QED BY <1>1, <1>2, <2>1, <2>2, <2>3, <2>4 DEF HandsOn
<1>5. CASE Moves(c, "sink", calls[c].wire, calls[c].keys)
  <2>1. /\ persisted \subseteq persisted' /\ UNCHANGED <<wiring, waiters>>
        /\ calls[c].wire <= Len(wiring.wires) /\ "sink" \in Running \cup Over
      BY <1>1, <1>2 DEF Running
  <2> QED BY <1>1, <1>2, <1>4, <1>5, <2>1, MovesOn
<1>6. CASE Moves(c, "wire", calls[c].wire + 1, calls[c].keys)
  <2>1. /\ persisted \subseteq persisted' /\ UNCHANGED <<wiring, waiters>>
        /\ "wire" \in Running \cup Over /\ calls[c].wire + 1 \in Nat
      BY <1>1, <1>2 DEF Running
  <2> QED BY <1>1, <1>2, <1>4, <1>6, <2>1, MovesOn
<1> QED BY <1>3, <1>5, <1>6

LEMMA SinkKeeps ==
    ASSUME EmissionIInv, NEW c \in Emits, Sink(c)
    PROVE  EmissionIInv'
<1>1. calls[c].pc = "sink" /\ UNCHANGED <<wiring, waiters, persisted>>
    BY DEF Sink, AtStep
<1>2. /\ EmissionTyped /\ calls[c].wire \in 1 .. Len(wiring.wires) /\ calls[c].wire \in Nat
      /\ persisted' \subseteq Emits /\ (wiring.latest => c \in persisted')
      /\ calls[c].keys \in SUBSET FanKeys /\ calls[c].pc \in Running
    BY <1>1, InsideWireFacts DEF EmissionIInv, EmissionTyped
<1>3. CASE Reaches(c, {"sink"}) /\ Is(c, NextWire(c)) /\ UNCHANGED incidents
  <2>1. Moves(c, "wire", calls[c].wire + 1, calls[c].keys)
      BY <1>2, <1>3, MoveEffects DEF Steps, Running
  <2>2. ASSUME NEW i \in 1 .. Len(wiring.wires), i = calls[c].wire PROVE HandsOn(c, i)'
    <3>1. i \in Nat /\ HandsOn(c, i)
        BY <1>1, <1>2, <2>2 DEF EmissionIInv, InOrder
    <3>2. Handed(c, i)' # {} /\ Keys(c, i)' = Keys(c, i) \cup ({"sink"} \cap FanKeys)
        BY <1>3, <2>2, <3>1, ReachesEffect
    <3>3. Keys(c, i)' = Keys(c, i)
        BY <3>2, EmissionAssumption
    <3>4. calls'[c].wire = i + 1 /\ calls'[c].pc = "wire"
        BY <2>1, <2>2 DEF Moves
    <3> QED BY <1>1, <1>2, <2>2, <3>1, <3>2, <3>3, <3>4 DEF HandsOn
  <2> QED BY <1>1, <1>2, <1>3, <2>1, <2>2, MovesOn DEF Running, EmissionTyped
<1>4. CASE Is(c, [pc |-> "raised"]) /\ Incident("raise") /\ UNCHANGED reached
    BY <1>1, <1>2, <1>4, MoveEffects, LeavesKeeps, IncidentTyped DEF Steps, Over, EmitEvents
<1> QED BY <1>3, <1>4 DEF Sink

LEMMA ReturnsKeeps ==
    ASSUME EmissionIInv, NEW c \in Emits, Returns(c)
    PROVE  EmissionIInv'
<1>1. EmissionTyped /\ calls[c].pc \in Running /\ calls[c].keys \in SUBSET FanKeys
    BY DEF Returns, AtStep, Running, EmissionIInv, EmissionTyped, CallStates
<1> QED BY <1>1, MoveEffects, LeavesKeeps DEF Returns, Steps, Over, EmissionTyped

LEMMA AppendLatestKeeps ==
    ASSUME EmissionIInv, NEW c \in Emits, AppendLatest(c)
    PROVE  EmissionIInv'
<1>1. /\ EmissionTyped /\ calls[c].pc = "append" /\ calls[c].pc \in Running
      /\ calls[c].keys \in SUBSET FanKeys /\ calls[c].wire \in Nat
      /\ UNCHANGED <<wiring, waiters, reached>>
    BY DEF AppendLatest, AtStep, Running, EmissionIInv, EmissionTyped, CallStates
<1>2. CASE persisted' = persisted \cup {c} /\ Is(c, [pc |-> "wire"]) /\ UNCHANGED incidents
  <2>1. Moves(c, "wire", calls[c].wire, calls[c].keys)
      BY <1>1, <1>2, MoveEffects DEF Steps, Running
  <2>2. ASSUME NEW i \in 1 .. Len(wiring.wires), i = calls[c].wire PROVE HandsOn(c, i)'
    <3>1. i \in Nat /\ HandsOn(c, i)
        BY <1>1, <2>2 DEF EmissionIInv, InOrder
    <3>2. Handed(c, i)' = {}
        BY <1>1, <2>2, <3>1, ReachesNothing DEF HandsOn, Over
    <3>3. calls'[c].wire = i /\ calls'[c].pc = "wire"
        BY <2>1, <2>2 DEF Moves
    <3> QED BY <3>1, <3>2, <3>3 DEF HandsOn
  <2>3. /\ persisted \subseteq persisted' /\ persisted' \subseteq Emits /\ c \in persisted'
        /\ incidents' \in [EmitEvents -> Nat]
      BY <1>1, <1>2 DEF EmissionTyped
  <2> QED BY <1>1, <2>1, <2>2, <2>3, MovesOn DEF Running
<1>3. CASE Incident("raise") /\ Is(c, [pc |-> "raised"]) /\ UNCHANGED persisted
    BY <1>1, <1>3, MoveEffects, LeavesKeeps, IncidentTyped DEF Steps, Over, EmitEvents
<1> QED BY <1>2, <1>3 DEF AppendLatest

--------------------------------------------------------------------------------
\* An emit that is begun, put off, cancelled or left where it is, with nothing handed on.
LEMMA StaysInOrder ==
    ASSUME EmissionTyped, NEW d \in Emits, InOrder(d), UNCHANGED <<wiring, reached, persisted>>,
           calls'[d].wire = calls[d].wire, calls'[d].keys = calls[d].keys,
           \/ calls'[d].pc = calls[d].pc
           \/ calls'[d].pc \in Over
           \/ /\ calls[d].pc \in {"idle", "asleep", "held"}
              /\ calls'[d].pc \in {"append", "asleep", "held"} \/ (calls'[d].pc = "wire" /\ ~wiring.latest)
    PROVE  InOrder(d)'
<1>1. Len(wiring.wires) \in Nat /\ wiring' = wiring /\ persisted' = persisted
    BY EmissionAssumption DEF EmissionTyped, Wired
<1>2. ASSUME NEW i \in 1 .. Len(wiring.wires) PROVE HandsOn(d, i)'
  <2>1. HandsOn(d, i) /\ i \in Nat
      BY <1>1 DEF InOrder
  <2>2. Handed(d, i)' = Handed(d, i) /\ Keys(d, i)' = Keys(d, i)
      BY <2>1, ReachesNothing
  <2>3. CASE calls'[d].pc = calls[d].pc
      BY <1>1, <2>1, <2>2, <2>3 DEF HandsOn
  <2>4. CASE calls'[d].pc \in Over
      BY <1>1, <2>1, <2>2, <2>4 DEF HandsOn, Over
  <2>5. CASE /\ calls[d].pc \in {"idle", "asleep", "held"}
             /\ calls'[d].pc \in {"append", "asleep", "held", "wire"}
      BY <1>1, <2>1, <2>2, <2>5 DEF HandsOn, Over
  <2> QED BY <2>3, <2>4, <2>5
<1> QED BY <1>1, <1>2 DEF InOrder, Over

\* A call that was not begun has nobody waiting for it.
LEMMA NotBegun ==
    ASSUME EmissionIInv, NEW c \in Emits, calls[c].pc \in {"idle", "asleep", "held"}
    PROVE  calls[c].wait = "no" /\ calls[c].key = NoCall /\ calls[c].reply = NoCall /\ calls[c].out # "reply"
<1>1. WaitsFor(c) /\ calls[c].wait \in {"no", "over"} \cup Waits
    BY DEF EmissionIInv, EmissionTyped, CallStates
<1> QED BY <1>1 DEF WaitsFor, Running, Over

Begins(p) == p \in {"append", "asleep", "held", "done"} \/ (p = "wire" /\ ~wiring.latest)

\* An awaited or put off emit: no waiter is touched.
LEMMA BegunKeeps ==
    ASSUME EmissionIInv, NEW c \in Emits, NEW p, calls[c].pc \in {"idle", "asleep", "held"},
           Begins(p), Is(c, [pc |-> p]) \/ Is(c, [pc |-> p, out |-> "raised"]),
           UNCHANGED <<wiring, waiters, reached, persisted>>, incidents' \in [EmitEvents -> Nat]
    PROVE  EmissionIInv'
<1>1. calls[c] \in CallStates /\ p \in Steps /\ EmissionTyped
    BY DEF EmissionIInv, EmissionTyped, Steps, Running, Over, Begins
<1>2. /\ \A d \in Emits \ {c} : calls'[d] = calls[d]
      /\ calls' \in [Emits -> CallStates]
      /\ calls'[c].pc = p /\ calls'[c].wire = calls[c].wire /\ calls'[c].keys = calls[c].keys
      /\ calls'[c].wait = calls[c].wait /\ calls'[c].key = calls[c].key
      /\ calls'[c].reply = calls[c].reply /\ calls'[c].out \in {calls[c].out, "raised"}
  <2>1. CASE Is(c, [pc |-> p])
    <3>1. Moves(c, p, calls[c].wire, calls[c].keys)
        BY <1>1, <2>1, MoveEffects DEF CallStates
    <3>2. calls'[c] = [f \in CallFields |-> IF f \in {"pc"} THEN [pc |-> p][f] ELSE calls[c][f]]
        BY <1>1, <2>1, IsEffect
    <3>3. calls'[c].reply = calls[c].reply
        BY <3>2 DEF CallFields
    <3> QED BY <3>1, <3>3 DEF Moves
  <2>2. CASE Is(c, [pc |-> p, out |-> "raised"])
    <3>1. calls'[c] = [f \in CallFields |-> IF f \in {"pc", "out"} THEN [pc |-> p, out |-> "raised"][f]
                                        ELSE calls[c][f]]
        BY <1>1, <2>2, IsEffect
    <3>2. calls'[c] \in CallStates
        BY <1>1, <3>1 DEF CallStates, CallFields, Outs
    <3> QED BY <1>1, <2>2, <3>1, <3>2, IsEffect DEF CallFields, CallStates
  <2> QED BY <2>1, <2>2
<1>3. EmissionTyped'
    BY <1>1, <1>2 DEF EmissionTyped
<1>4. ASSUME NEW d \in Emits PROVE WaitsFor(d)'
  <2>1. WaitsFor(d)
      BY DEF EmissionIInv
  <2>2. CASE d # c
      BY <1>2, <2>1, <2>2 DEF WaitsFor
  <2>3. CASE d = c
      BY <1>2, <2>1, <2>3, NotBegun DEF WaitsFor, Waits
  <2> QED BY <2>2, <2>3
<1>5. ASSUME NEW d \in Emits PROVE InOrder(d)'
  <2>1. InOrder(d) /\ calls'[d].wire = calls[d].wire /\ calls'[d].keys = calls[d].keys
      BY <1>2 DEF EmissionIInv
  <2>2. CASE d # c
      BY <1>1, <1>2, <2>1, <2>2, StaysInOrder
  <2>3. CASE d = c
      BY <1>1, <1>2, <2>1, <2>3, StaysInOrder DEF Over, Begins
  <2> QED BY <2>2, <2>3
<1> QED BY <1>3, <1>4, <1>5 DEF EmissionIInv

LEMMA EmitKeeps ==
    ASSUME EmissionIInv, NEW c \in Emits, Emit(c) \/ EmitDelayed(c) \/ DelayOver(c)
    PROVE  EmissionIInv'
<1>1. PICK p : p = Started /\ Begins(p)
  <2>1. wiring.latest \in BOOLEAN
      BY EmissionAssumption DEF EmissionIInv, EmissionTyped, Wired
  <2>2. Begins(Started)
      BY <2>1 DEF Started, Begins
  <2> QED BY <2>2
<1>2. Begins("asleep") /\ Begins("held") /\ Begins("done")
    BY DEF Begins
<1>3. EmissionTyped /\ UNCHANGED <<wiring, waiters, reached, persisted>>
    BY DEF EmissionIInv, Emit, EmitDelayed, DelayOver
<1>4. calls[c].pc \in {"idle", "asleep", "held"}
    BY DEF Emit, EmitDelayed, DelayOver, AtStep
<1>5. incidents' \in [EmitEvents -> Nat]
  <2>1. UNCHANGED incidents \/ Incident("raise")
      BY DEF Emit, EmitDelayed, DelayOver
  <2> QED BY <1>3, <2>1, IncidentTyped DEF EmitEvents, EmissionTyped
<1>6. \/ Is(c, [pc |-> p]) \/ Is(c, [pc |-> "asleep"]) \/ Is(c, [pc |-> "held"])
      \/ Is(c, [pc |-> "held", out |-> "raised"]) \/ Is(c, [pc |-> "done"])
    BY <1>1 DEF Emit, EmitDelayed, DelayOver
<1> QED
  <2>1. ASSUME NEW q, Begins(q), Is(c, [pc |-> q]) \/ Is(c, [pc |-> q, out |-> "raised"])
        PROVE  EmissionIInv'
      BY <1>3, <1>4, <1>5, <2>1, BegunKeeps
  <2> QED BY <1>1, <1>2, <1>6, <2>1

LEMMA EmitAndWaitKeeps ==
    ASSUME EmissionIInv, NEW c \in Emits, EmitAndWait(c)
    PROVE  EmissionIInv'
<1>1. /\ EmissionTyped /\ calls[c].pc = "idle" /\ calls[c] \in CallStates
      /\ UNCHANGED <<wiring, reached, persisted, incidents>>
    BY DEF EmitAndWait, AtStep, EmissionIInv, EmissionTyped
<1>2. calls[c].wait = "no" /\ calls[c].key = NoCall /\ calls[c].reply = NoCall
    BY <1>1, NotBegun
<1>3. PICK p : p = Started /\ (p = "append" \/ (p = "wire" /\ ~wiring.latest))
  <2>1. wiring.latest \in BOOLEAN
      BY <1>1, EmissionAssumption DEF EmissionTyped, Wired
  <2>2. Started = "append" \/ (Started = "wire" /\ ~wiring.latest)
      BY <2>1 DEF Started
  <2> QED BY <2>2
<1>4. p \in Steps /\ p \in Running
    BY <1>3 DEF Steps, Running
<1>5. PICK k \in Correlations :
        IF waiters[k] # NoCall
          THEN Is(c, [pc |-> "done", wait |-> "over", out |-> "duplicate"]) /\ UNCHANGED waiters
          ELSE /\ waiters' = [waiters EXCEPT ![k] = c]
               /\ Is(c, [pc |-> p, wait |-> "first", key |-> k])
    BY <1>3 DEF EmitAndWait
<1>6. CASE Is(c, [pc |-> "done", wait |-> "over", out |-> "duplicate"]) /\ UNCHANGED waiters
  <2>1. calls'[c] = [f \in CallFields |-> IF f \in {"pc", "wait", "out"}
                      THEN [pc |-> "done", wait |-> "over", out |-> "duplicate"][f] ELSE calls[c][f]]
      BY <1>1, <1>6, IsEffect
  <2>2. /\ calls'[c].pc = "done" /\ calls'[c].wait = "over" /\ calls'[c].out = "duplicate"
        /\ calls'[c].wire = calls[c].wire /\ calls'[c].keys = calls[c].keys
        /\ calls'[c].key = calls[c].key /\ calls'[c].reply = calls[c].reply
      BY <2>1 DEF CallFields
  <2>3. calls'[c] \in CallStates
      BY <1>1, <2>1 DEF CallStates, CallFields, Steps, Over, Outs
  <2>4. calls' \in [Emits -> CallStates] /\ \A d \in Emits \ {c} : calls'[d] = calls[d]
      BY <1>1, <1>6, <2>3, IsEffect
  <2>5. EmissionTyped'
      BY <1>1, <1>6, <2>4 DEF EmissionTyped
  <2>6. ASSUME NEW d \in Emits PROVE WaitsFor(d)'
    <3>1. WaitsFor(d) /\ waiters' = waiters
        BY <1>6 DEF EmissionIInv
    <3>2. CASE d # c
        BY <2>4, <3>1, <3>2 DEF WaitsFor
    <3>3. CASE d = c
        BY <1>2, <2>2, <3>1, <3>3 DEF WaitsFor, Waits, Over
    <3> QED BY <3>2, <3>3
  <2>7. ASSUME NEW d \in Emits PROVE InOrder(d)'
    <3>1. InOrder(d) /\ (calls'[d].pc = calls[d].pc \/ calls'[d].pc \in Over)
        BY <2>2, <2>4 DEF EmissionIInv, Over
    <3>2. calls'[d].wire = calls[d].wire /\ calls'[d].keys = calls[d].keys
        BY <2>2, <2>4
    <3> QED BY <1>1, <3>1, <3>2, StaysInOrder
  <2> QED BY <2>5, <2>6, <2>7 DEF EmissionIInv
<1>7. CASE /\ waiters[k] = NoCall /\ waiters' = [waiters EXCEPT ![k] = c]
           /\ Is(c, [pc |-> p, wait |-> "first", key |-> k])
  <2>1. calls'[c] = [f \in CallFields |-> IF f \in {"pc", "wait", "key"}
                      THEN [pc |-> p, wait |-> "first", key |-> k][f] ELSE calls[c][f]]
      BY <1>1, <1>7, IsEffect
  <2>2. /\ calls'[c].pc = p /\ calls'[c].wait = "first" /\ calls'[c].key = k
        /\ calls'[c].wire = calls[c].wire /\ calls'[c].keys = calls[c].keys
        /\ calls'[c].out = calls[c].out /\ calls'[c].reply = calls[c].reply
      BY <2>1 DEF CallFields
  <2>3. calls'[c] \in CallStates
      BY <1>1, <1>4, <2>1 DEF CallStates, CallFields, Waits
  <2>4. calls' \in [Emits -> CallStates] /\ \A d \in Emits \ {c} : calls'[d] = calls[d]
      BY <1>1, <1>7, <2>3, IsEffect
  <2>5. waiters' \in [Correlations -> Emits \cup {NoCall}]
      BY <1>1, <1>7 DEF EmissionTyped
  <2>6. EmissionTyped'
      BY <1>1, <2>4, <2>5 DEF EmissionTyped
  <2>7. ASSUME NEW d \in Emits PROVE WaitsFor(d)'
    <3>1. WaitsFor(d) /\ d # NoCall /\ NoCall \notin Correlations
        BY EmissionAssumption DEF EmissionIInv
    <3>2. \A j \in Correlations : waiters'[j] = IF j = k THEN c ELSE waiters[j]
        BY <1>1, <1>7 DEF EmissionTyped
    <3>3. CASE d # c
      <4>1. \A j \in Correlations : waiters'[j] = d <=> waiters[j] = d
          BY <1>7, <3>1, <3>2, <3>3
      <4> QED BY <2>4, <3>1, <3>3, <4>1 DEF WaitsFor
    <3>4. CASE d = c
      <4>1. \A j \in Correlations : waiters[j] # c
          BY <1>2, <3>1, <3>4 DEF WaitsFor, Waits
      <4>2. \A j \in Correlations : waiters'[j] = c <=> j = k
          BY <3>2, <4>1
      <4>3. calls[c].out # "reply"
          BY <1>1, NotBegun
      <4> QED BY <1>2, <1>4, <2>2, <3>4, <4>2, <4>3 DEF WaitsFor, Waits
    <3> QED BY <3>3, <3>4
  <2>8. ASSUME NEW d \in Emits PROVE InOrder(d)'
    <3>1. InOrder(d) /\ calls'[d].wire = calls[d].wire /\ calls'[d].keys = calls[d].keys
        BY <2>2, <2>4 DEF EmissionIInv
    <3>2. CASE d # c
        BY <1>1, <2>4, <3>1, <3>2, StaysInOrder
    <3>3. CASE d = c
        BY <1>1, <1>3, <2>2, <3>1, <3>3, StaysInOrder
    <3> QED BY <3>2, <3>3
  <2> QED BY <2>6, <2>7, <2>8 DEF EmissionIInv
<1> QED BY <1>5, <1>6, <1>7

\* A change of what is waited for, with the emit left alone.
LEMMA WaitMoves ==
    ASSUME EmissionIInv, NEW c \in Emits, calls[c].wait \in Waits, NEW w \in Waits,
           w = "join" => calls[c].reply # NoCall,
           Is(c, [wait |-> w]), UNCHANGED <<wiring, waiters, reached, persisted, incidents>>
    PROVE  EmissionIInv'
<1>1. EmissionTyped /\ calls[c] \in CallStates
    BY DEF EmissionIInv, EmissionTyped
<1>2. calls'[c] = [f \in CallFields |-> IF f \in {"wait"} THEN [wait |-> w][f] ELSE calls[c][f]]
    BY <1>1, IsEffect
<1>3. /\ calls'[c].wait = w /\ calls'[c].pc = calls[c].pc /\ calls'[c].out = calls[c].out
      /\ calls'[c].wire = calls[c].wire /\ calls'[c].keys = calls[c].keys
      /\ calls'[c].key = calls[c].key /\ calls'[c].reply = calls[c].reply
    BY <1>2 DEF CallFields
<1>4. calls'[c] \in CallStates
    BY <1>1, <1>2 DEF CallStates, CallFields
<1>5. calls' \in [Emits -> CallStates] /\ \A d \in Emits \ {c} : calls'[d] = calls[d]
    BY <1>1, <1>4, IsEffect
<1>6. EmissionTyped'
    BY <1>1, <1>5 DEF EmissionTyped
<1>7. ASSUME NEW d \in Emits PROVE WaitsFor(d)'
  <2>1. WaitsFor(d) /\ waiters' = waiters
      BY DEF EmissionIInv
  <2>2. CASE d # c
      BY <1>5, <2>1, <2>2 DEF WaitsFor
  <2>3. CASE d = c
      BY <1>3, <2>1, <2>3 DEF WaitsFor, Waits
  <2> QED BY <2>2, <2>3
<1>8. ASSUME NEW d \in Emits PROVE InOrder(d)'
  <2>1. /\ InOrder(d) /\ calls'[d].wire = calls[d].wire /\ calls'[d].keys = calls[d].keys
        /\ calls'[d].pc = calls[d].pc
      BY <1>3, <1>5 DEF EmissionIInv
  <2> QED BY <1>1, <2>1, StaysInOrder
<1> QED BY <1>6, <1>7, <1>8 DEF EmissionIInv

\* The end of an emit_and_wait takes its waiter out of the registry and leaves no emit
\* running.
LEMMA EndsKeeps ==
    ASSUME EmissionIInv, NEW c \in Emits, calls[c].wait \in Waits, NEW out \in Outs,
           out = "reply" => calls[c].reply # NoCall,
           Ends(c, out), UNCHANGED <<wiring, reached, persisted>>, incidents' \in [EmitEvents -> Nat]
    PROVE  EmissionIInv'
<1>1. EmissionTyped /\ calls[c] \in CallStates /\ WaitsFor(c)
    BY DEF EmissionIInv, EmissionTyped
<1>2. PICK p : p = IF calls[c].pc \in Running THEN "cancelled" ELSE calls[c].pc
    OBVIOUS
<1>3. p \in Over
    BY <1>1, <1>2 DEF WaitsFor, Running, Over
<1>4. Is(c, [wait |-> "over", out |-> out, pc |-> p]) /\ waiters' = [waiters EXCEPT ![calls[c].key] = NoCall]
    BY <1>2 DEF Ends
<1>5. calls'[c] = [f \in CallFields |-> IF f \in {"pc", "wait", "out"}
                    THEN [wait |-> "over", out |-> out, pc |-> p][f] ELSE calls[c][f]]
    BY <1>1, <1>4, IsEffect
<1>6. /\ calls'[c].pc = p /\ calls'[c].wait = "over" /\ calls'[c].out = out
      /\ calls'[c].wire = calls[c].wire /\ calls'[c].keys = calls[c].keys
      /\ calls'[c].key = calls[c].key /\ calls'[c].reply = calls[c].reply
    BY <1>5 DEF CallFields
<1>7. calls'[c] \in CallStates
    BY <1>1, <1>3, <1>5 DEF CallStates, CallFields, Steps
<1>8. calls' \in [Emits -> CallStates] /\ \A d \in Emits \ {c} : calls'[d] = calls[d]
    BY <1>1, <1>4, <1>7, IsEffect
<1>9. EmissionTyped'
    BY <1>1, <1>4, <1>8 DEF EmissionTyped
<1>10. \A j \in Correlations : waiters'[j] = IF j = calls[c].key THEN NoCall ELSE waiters[j]
    BY <1>1, <1>4 DEF EmissionTyped
<1>11. ASSUME NEW d \in Emits PROVE WaitsFor(d)'
  <2>1. WaitsFor(d) /\ d # NoCall
      BY EmissionAssumption DEF EmissionIInv
  <2>2. CASE d # c
    <3>1. \A j \in Correlations : j = calls[c].key => waiters[j] = c
        BY <1>1 DEF WaitsFor
    <3>2. \A j \in Correlations : waiters'[j] = d <=> waiters[j] = d
        BY <1>10, <2>1, <2>2, <3>1
    <3> QED BY <1>8, <2>1, <2>2, <3>2 DEF WaitsFor
  <2>3. CASE d = c
    <3>1. \A j \in Correlations : waiters'[j] # c
        BY <1>10, <2>1, <2>3 DEF WaitsFor
    <3> QED BY <1>3, <1>6, <2>1, <2>3, <3>1 DEF WaitsFor, Waits
  <2> QED BY <2>2, <2>3
<1>12. ASSUME NEW d \in Emits PROVE InOrder(d)'
  <2>1. /\ InOrder(d) /\ calls'[d].wire = calls[d].wire /\ calls'[d].keys = calls[d].keys
        /\ calls'[d].pc = calls[d].pc \/ calls'[d].pc \in Over
      BY <1>3, <1>6, <1>8 DEF EmissionIInv
  <2> QED BY <1>1, <2>1, StaysInOrder
<1> QED BY <1>9, <1>11, <1>12 DEF EmissionIInv

LEMMA RaceKeeps ==
    ASSUME EmissionIInv, NEW c \in Emits, Race(c) \/ Expires(c)
    PROVE  EmissionIInv'
<1>1. EmissionTyped /\ UNCHANGED <<wiring, reached, persisted>> /\ WaitsFor(c)
    BY DEF EmissionIInv, Race, Expires
<1>2. calls[c].wait \in Waits
    BY DEF Race, Expires, Waits
<1>3. incidents' \in [EmitEvents -> Nat]
  <2>1. UNCHANGED incidents \/ Incident("expire")
      BY DEF Race, Expires
  <2> QED BY <1>1, <2>1, IncidentTyped DEF EmitEvents, EmissionTyped
<1>4. \/ /\ UNCHANGED <<waiters, incidents>>
         /\ Is(c, [wait |-> "second"]) \/ (Is(c, [wait |-> "join"]) /\ calls[c].reply # NoCall)
      \/ Ends(c, "raised") \/ Ends(c, "timeout")
      \/ Ends(c, "reply") /\ calls[c].reply # NoCall
    BY <1>1 DEF Race, Expires, WaitsFor
<1>5. ASSUME NEW w \in Waits, w = "join" => calls[c].reply # NoCall, Is(c, [wait |-> w]),
             UNCHANGED <<waiters, incidents>>
      PROVE  EmissionIInv'
    BY <1>1, <1>2, <1>5, WaitMoves
<1>6. ASSUME NEW out \in Outs, out = "reply" => calls[c].reply # NoCall, Ends(c, out)
      PROVE  EmissionIInv'
    BY <1>1, <1>2, <1>3, <1>6, EndsKeeps
<1> QED BY <1>4, <1>5, <1>6 DEF Waits, Outs

LEMMA LateReplyKeeps ==
    ASSUME EmissionIInv, NEW k \in Correlations, LateReply(k)
    PROVE  EmissionIInv'
<1>1. EmissionTyped /\ UNCHANGED <<wiring, waiters, reached, persisted>> /\ calls' = Notified(k)
    BY DEF EmissionIInv, LateReply
<1>2. incidents' \in [EmitEvents -> Nat]
    BY <1>1, IncidentTyped DEF LateReply, EmitEvents
<1>3. EmissionTyped'
    BY <1>1, <1>2, NotifiedEffect DEF EmissionTyped
<1>4. ASSUME NEW d \in Emits PROVE WaitsFor(d)'
  <2>1. /\ calls'[d].pc = calls[d].pc /\ calls'[d].wait = calls[d].wait
        /\ calls'[d].key = calls[d].key /\ calls'[d].out = calls[d].out
        /\ calls'[d].reply \in {calls[d].reply, calls[d].key}
      BY <1>1, NotifiedEffect
  <2>2. WaitsFor(d) /\ waiters' = waiters
      BY <1>1 DEF EmissionIInv
  <2> QED BY <2>1, <2>2 DEF WaitsFor
<1>5. ASSUME NEW d \in Emits PROVE InOrder(d)'
  <2>1. /\ InOrder(d) /\ calls'[d].pc = calls[d].pc
        /\ calls'[d].wire = calls[d].wire /\ calls'[d].keys = calls[d].keys
      BY <1>1, NotifiedEffect DEF EmissionIInv
  <2> QED BY <1>1, <2>1, StaysInOrder
<1> QED BY <1>3, <1>4, <1>5 DEF EmissionIInv

LEMMA StopEmitsKeeps ==
    ASSUME EmissionIInv, StopEmits
    PROVE  EmissionIInv'
<1>1. /\ EmissionTyped /\ UNCHANGED <<wiring, reached, persisted>>
      /\ waiters' = [k \in Correlations |-> NoCall]
    BY DEF EmissionIInv, StopEmits
<1>2. incidents' \in [EmitEvents -> Nat]
    BY <1>1, IncidentTyped DEF StopEmits, EmitEvents
<1>3. ASSUME NEW d \in Emits
      PROVE  /\ calls'[d] \in CallStates
             /\ calls'[d].wire = calls[d].wire /\ calls'[d].keys = calls[d].keys
             /\ calls'[d].key = calls[d].key /\ calls'[d].reply = calls[d].reply
             /\ calls'[d].pc = calls[d].pc \/ calls'[d].pc \in Over
             /\ calls'[d].wait = calls[d].wait \/ calls'[d].wait = "over"
             /\ calls'[d].out = calls[d].out \/ calls'[d].out = "cancelled"
             /\ calls'[d].wait \notin Waits
             /\ calls'[d].wait = "over" => calls'[d].pc \in Over
             /\ calls'[d].wait = "no" => calls[d].wait = "no" /\ calls'[d].out = calls[d].out
  <2>1. calls[d] \in CallStates /\ WaitsFor(d)
      BY <1>1 DEF EmissionTyped, EmissionIInv
  <2>2. CASE calls'[d] = calls[d] /\ calls[d].wait \notin Waits
      BY <2>1, <2>2 DEF WaitsFor
  <2>3. CASE calls'[d] = [calls[d] EXCEPT
                !.pc = IF @ \in Over THEN @ ELSE "cancelled",
                !.wait = IF @ = "no" THEN @ ELSE "over",
                !.out = IF calls[d].wait = "no" THEN @ ELSE "cancelled"]
    <3>1. /\ calls'[d].wire = calls[d].wire /\ calls'[d].keys = calls[d].keys
          /\ calls'[d].key = calls[d].key /\ calls'[d].reply = calls[d].reply
          /\ calls'[d].pc = IF calls[d].pc \in Over THEN calls[d].pc ELSE "cancelled"
          /\ calls'[d].wait = IF calls[d].wait = "no" THEN "no" ELSE "over"
          /\ calls'[d].out = IF calls[d].wait = "no" THEN calls[d].out ELSE "cancelled"
        BY <2>1, <2>3 DEF CallStates
    <3>2. calls'[d] \in CallStates
        BY <2>1, <2>3 DEF CallStates, Steps, Over, Outs
    <3> QED BY <3>1, <3>2 DEF Waits, Over
  <2> QED BY <2>2, <2>3 DEF StopEmits, Waits
<1>4. calls' \in [Emits -> CallStates]
    BY <1>3 DEF StopEmits
<1>5. EmissionTyped'
    BY <1>1, <1>2, <1>4 DEF EmissionTyped
<1>6. ASSUME NEW d \in Emits PROVE WaitsFor(d)'
  <2>1. WaitsFor(d) /\ \A k \in Correlations : waiters'[k] # d
      BY <1>1, EmissionAssumption DEF EmissionIInv
  <2> QED BY <1>3, <2>1 DEF WaitsFor
<1>7. ASSUME NEW d \in Emits PROVE InOrder(d)'
  <2>1. InOrder(d)
      BY DEF EmissionIInv
  <2> QED BY <1>1, <1>3, <2>1, StaysInOrder
<1> QED BY <1>5, <1>6, <1>7 DEF EmissionIInv

--------------------------------------------------------------------------------
LEMMA EmissionInitHolds == EmissionInit => EmissionIInv
<1> SUFFICES ASSUME EmissionInit PROVE EmissionIInv
    OBVIOUS
<1>1. NoEmit \in CallStates
    BY DEF NoEmit, CallStates, Steps, Outs
<1>2. EmissionTyped
    BY <1>1 DEF EmissionInit, EmissionTyped
<1>3. ASSUME NEW c \in Emits PROVE WaitsFor(c) /\ InOrder(c)
  <2>1. calls[c] = NoEmit /\ \A k \in Correlations : waiters[k] # c
      BY EmissionAssumption DEF EmissionInit
  <2>2. WaitsFor(c)
      BY <2>1 DEF WaitsFor, NoEmit, Waits
  <2>3. \A i \in 1 .. Len(wiring.wires) : HandsOn(c, i)
      BY <2>1 DEF HandsOn, Handed, EmissionInit, NoEmit
  <2> QED BY <2>1, <2>2, <2>3 DEF InOrder, NoEmit
<1> QED BY <1>2, <1>3 DEF EmissionIInv

LEMMA EmissionStep == EmissionIInv /\ [EmissionNext]_emitVars => EmissionIInv'
<1> SUFFICES ASSUME EmissionIInv, [EmissionNext]_emitVars PROVE EmissionIInv'
    OBVIOUS
<1>1. CASE UNCHANGED emitVars
    BY <1>1 DEF emitVars, EmissionIInv, EmissionTyped, WaitsFor, InOrder, HandsOn, Handed, Keys
<1>2. ASSUME NEW c \in Emits, Emit(c) \/ EmitAndWait(c) \/ EmitDelayed(c) \/ DelayOver(c) \/ Expires(c)
      PROVE  EmissionIInv'
    BY <1>2, EmitKeeps, EmitAndWaitKeeps, RaceKeeps
<1>3. ASSUME NEW c \in Emits, CallStep(c) PROVE EmissionIInv'
    BY <1>3, AppendLatestKeeps, SkipWireKeeps, PublishWireKeeps, CallNodeKeeps, ForeignNodeKeeps,
       FanKeeps, FanKeyKeeps, FanEndsKeeps, SinkKeeps, ReturnsKeeps, RaceKeeps DEF CallStep
<1>4. ASSUME NEW k \in Correlations, LateReply(k) PROVE EmissionIInv'
    BY <1>4, LateReplyKeeps
<1>5. CASE StopEmits
    BY <1>5, StopEmitsKeeps
<1> QED BY <1>1, <1>2, <1>3, <1>4, <1>5 DEF EmissionNext

LEMMA EmissionGivesClean == EmissionIInv => EmissionIsClean
<1> SUFFICES ASSUME EmissionIInv PROVE EmissionIsClean
    OBVIOUS
<1>1. WaitersAreClean
  <2>1. \A c \in Emits : WaitsFor(c)
      BY DEF EmissionIInv
  <2> QED BY <2>1 DEF WaitersAreClean, WaitsFor, Waits
<1>2. ASSUME NEW c \in Emits, NEW i \in 1 .. Len(wiring.wires)
      PROVE  /\ Handed(c, i) # {} => \A j \in 1 .. i - 1 :
                  Handed(c, j) # {} \/ wiring.wires[j].when \/ wiring.wires[j].kind = "fan"
             /\ wiring.wires[i].kind = "fan" /\ calls[c].wire > i =>
                  {k \in FanKeys : <<c, i, k>> \in reached} \in {{}, FanKeys}
             /\ wiring.latest /\ Handed(c, i) # {} => c \in persisted
  <2>1. /\ \A j \in 1 .. Len(wiring.wires) : HandsOn(c, j)
        /\ Len(wiring.wires) \in Nat /\ calls[c].wire \in Nat
      BY EmissionAssumption DEF EmissionIInv, InOrder, EmissionTyped, Wired, CallStates
  <2>2. Handed(c, i) # {} => i <= calls[c].wire
      BY <2>1 DEF HandsOn
  <2>3. ASSUME Handed(c, i) # {}, NEW j \in 1 .. i - 1
        PROVE  Handed(c, j) # {} \/ wiring.wires[j].when \/ wiring.wires[j].kind = "fan"
    <3>1. j \in 1 .. Len(wiring.wires) /\ j < calls[c].wire
        BY <2>1, <2>2, <2>3
    <3> QED BY <2>1, <3>1 DEF HandsOn
  <2>4. wiring.wires[i].kind = "fan" /\ calls[c].wire > i => Keys(c, i) \in {{}, FanKeys}
      BY <2>1 DEF HandsOn
  <2>5. wiring.latest /\ Handed(c, i) # {} => c \in persisted
      BY <2>1 DEF HandsOn
  <2> QED BY <2>3, <2>4, <2>5 DEF Keys
<1>3. EmitsInOrder
    BY <1>2 DEF EmitsInOrder
<1> QED BY <1>1, <1>3 DEF EmissionIsClean

\* No waiter outlives its call and a wire is only reached in its order, whatever the
\* graph, the calls and what goes wrong (emit.py, emit_wait.py).
THEOREM EmissionStaysClean == EmissionSpec => []EmissionIsClean
<1>1. EmissionSpec => []EmissionIInv
    BY EmissionInitHolds, EmissionStep, PTL DEF EmissionSpec
<1> QED BY <1>1, EmissionGivesClean, PTL

--------------------------------------------------------------------------------
(***************************************************************************)
(* Wiring                                                                   *)
(***************************************************************************)

\* A graph is compiled when all its wires passed, and nothing is wired afterwards.
WiringIInv == graph = "compiled" => Compiles

LEMMA WiringStep == WiringIInv /\ [WiringNext]_wiringVars => WiringIInv'
<1> SUFFICES ASSUME WiringIInv, [WiringNext]_wiringVars, graph' = "compiled" PROVE Compiles'
    BY DEF WiringIInv
<1>1. wire' = wire /\ Compiles
  <2>1. CASE graph = "open"
    <3>1. Compile
        BY <2>1 DEF WiringNext, wiringVars, To, From, Durable, AsLatest, When, Debounce,
                    WithLatest, FanOutPer, Retry, OnError, Builds
    <3> QED BY <3>1 DEF Compile
  <2>2. CASE graph # "open"
      BY <2>2 DEF WiringNext, wiringVars, To, From, Durable, AsLatest, When, Debounce,
                  WithLatest, FanOutPer, Retry, OnError, Builds, Compile, WiringIInv
  <2> QED BY <2>1, <2>2
<1>2. Wires' = Wires
    BY <1>1 DEF Wires
<1> QED BY <1>1, <1>2 DEF Compiles, LatestIsWritten, KeptAsLatest, DebouncesAlone

LEMMA CompiledGraphsFit == Compiles => CompiledCallsFit /\ CompiledHttpArrives
<1> SUFFICES ASSUME Compiles, NEW w \in Wires
             PROVE  /\ \A c \in w.consumers :
                        /\ Supplied(w, c) = Inputs(c)
                        /\ \A t \in Inputs(c) \ {w.type} :
                              FindsJoin(w, t) <=> ~KeptNowhere(t) /\ ~JoinedInPart(t)
                    /\ Way(w) = "durable" => ~Transient(w.type)
                    /\ w.debounce => \A o \in Wires \ {w} : ~(o.debounce /\ o.type = w.type)
                    /\ "http" \in w.sources => \A c \in w.consumers : AppOf(c) = DefaultApp
    BY DEF CompiledCallsFit, CompiledHttpArrives, Stores, KeptNowhere
<1>1. /\ LatestIsWritten(w) /\ SignatureFits(w) /\ DebouncesAlone(w)
      /\ NoJoinOverQueue(w) /\ DurableIsPersisted(w) /\ JoinsHaveKeys(w) /\ HttpIsAtHome(w)
    BY DEF Compiles
<1>2. ASSUME NEW c \in w.consumers PROVE Supplied(w, c) = Inputs(c)
  <2>1. Inputs(c) = {w.type} \cup w.joins
      BY <1>1 DEF SignatureFits
  <2>2. CASE Way(w) \in {"call", "fan"}
      BY <2>1, <2>2 DEF Supplied
  <2>3. CASE Way(w) \notin {"call", "fan"}
    <3>1. w.debounce \/ w.durable
        BY <2>3 DEF Way
    <3>2. w.joins = {}
        BY <3>1, <1>1 DEF DebouncesAlone, NoJoinOverQueue
    <3> QED BY <2>1, <2>3, <3>2 DEF Supplied
  <2> QED BY <2>2, <2>3
<1>3. ASSUME NEW c \in w.consumers, NEW t \in Inputs(c) \ {w.type}
      PROVE  FindsJoin(w, t) <=> ~KeptNowhere(t) /\ ~JoinedInPart(t)
  <2>1. KeptAsLatest(t) /\ JoinKey(t) \in DataTypes[w.type].fields
      BY <1>1 DEF SignatureFits, JoinsHaveKeys, LatestIsWritten
  <2>2. KeysOf(t) \subseteq {JoinKey(t)} <=> ~JoinedInPart(t)
      BY DEF JoinedInPart
  <2> QED BY <1>3, <2>1, <2>2 DEF FindsJoin, KeptNowhere
<1>4. Way(w) = "durable" => ~Transient(w.type)
    BY <1>1 DEF Way, DurableIsPersisted
<1>5. w.debounce => \A o \in Wires \ {w} : ~(o.debounce /\ o.type = w.type)
    BY <1>1 DEF DebouncesAlone
<1>6. "http" \in w.sources => \A c \in w.consumers : AppOf(c) = DefaultApp
    BY <1>1 DEF HttpIsAtHome
<1> QED BY <1>2, <1>3, <1>4, <1>5, <1>6

\* A graph that compiles calls its consumers with what they declare, finds what they join
\* and stores what it keeps, but for the two gaps that are named, whatever the data classes,
\* the nodes and the wires that are there already (graph.py, emit.py, persist.py).
THEOREM CompiledGraphsAlwaysFit == WiringSpec => [](CompiledCallsFit /\ CompiledHttpArrives)
<1>1. WiringInit => WiringIInv
    BY DEF WiringInit, WiringIInv
<1>2. WiringIInv => CompiledCallsFit /\ CompiledHttpArrives
    BY CompiledGraphsFit DEF WiringIInv, CompiledCallsFit, CompiledHttpArrives
<1> QED BY <1>1, <1>2, WiringStep, PTL DEF WiringSpec

--------------------------------------------------------------------------------
(***************************************************************************)
(* Schema                                                                   *)
(***************************************************************************)

\* A pod is a record of four fields; the columns it saw are any.
IsPod(d) ==
    /\ d \in [at : {"down", "planning", "applying", "running", "failed"},
              release : {d.release}, seen : {d.seen}, raced : BOOLEAN]
    /\ d.at # "down" => d.release \in DOMAIN Releases

\* The table a release declares.
FitsTable(r, live) ==
    \A c \in Columns(r) : c \in DOMAIN live /\ Equivalent(DeclaredType(r, c), live[c])

\* A reserved column is as some release declared it: it is compared by nobody.
ReservedAgree(live) ==
    \A c \in DOMAIN live \cap Reserved :
        \E r \in DOMAIN Releases :
            c \in Columns(r) /\ live[c] = Reported(DeclaredType(r, c))

\* Until another pod migrates, a pod plans from the table as it is.
PodInv(d, live) ==
    /\ IsPod(d)
    /\ d.at \in {"planning", "applying"} /\ ~d.raced => d.seen = live
    /\ d.at = "applying" => ~Refuses(d.release, d.seen)
    /\ d.at = "running" /\ ~d.raced => FitsTable(d.release, live)

\* Before the first migration everybody saw no table; after one release's own, no table or its.
MadeInv(pods, live, releases) ==
    /\ releases = {} =>
        /\ live = NoTable
        /\ \A p \in Pods : pods[p].at \in {"planning", "applying"} => pods[p].seen = NoTable
    /\ \A r \in DOMAIN Releases : releases = {r} =>
        /\ live = FreshTable(r) /\ ~Unmappable(r) /\ Unknown(r) = {}
        /\ \A p \in Pods : pods[p].at \in {"planning", "applying"} =>
              pods[p].seen \in {NoTable, FreshTable(r)}

SchemaIInv ==
    /\ DOMAIN pod = Pods /\ pod = [p \in Pods |-> pod[p]]
    /\ \A p \in Pods : PodInv(pod[p], columns)
    /\ ReservedAgree(columns)
    /\ MadeInv(pod, columns, made)

LEMMA ReportedIsEquivalent == \A x : Equivalent(x, Reported(x))
BY DEF Equivalent, Reported, Aliases

LEMMA ReservedDeclaredOnce ==
    \A r, q \in DOMAIN Releases : \A c \in Columns(r) \cap Columns(q) \cap Reserved :
        DeclaredType(r, c) = DeclaredType(q, c)
BY SchemaAssumption DEF Columns, Fields, DeclaredType

LEMMA FreshTableIsATable ==
    ASSUME NEW r \in DOMAIN Releases
    PROVE  /\ FreshTable(r) # NoTable /\ DOMAIN FreshTable(r) = Columns(r)
           /\ FreshTable(r) = [c \in Columns(r) |-> FreshTable(r)[c]]
           /\ \A c \in Columns(r) : FreshTable(r)[c] = Reported(DeclaredType(r, c))
           /\ FitsTable(r, FreshTable(r)) /\ Drops(r, FreshTable(r)) = {}
           /\ Changes(r, FreshTable(r)) = {} /\ Adds(r, FreshTable(r)) = {}
<1>1. /\ DOMAIN FreshTable(r) = Columns(r)
      /\ FreshTable(r) = [c \in Columns(r) |-> FreshTable(r)[c]]
      /\ \A c \in Columns(r) : FreshTable(r)[c] = Reported(DeclaredType(r, c))
    BY DEF FreshTable
<1>2. FreshTable(r) # NoTable
  <2>1. "dedup_hash" \in DOMAIN FreshTable(r)
      BY <1>1 DEF Columns, Managed
  <2> QED BY <2>1 DEF NoTable
<1>3. FitsTable(r, FreshTable(r))
    BY <1>1, ReportedIsEquivalent DEF FitsTable
<1>4. /\ Drops(r, FreshTable(r)) = {} /\ Changes(r, FreshTable(r)) = {}
      /\ Adds(r, FreshTable(r)) = {}
    BY <1>1, <1>3 DEF Drops, Changes, Adds, FitsTable
<1> QED BY <1>1, <1>2, <1>3, <1>4

\* A table that is migrated keeps what it has.
LEMMA MigratedOnlyAdds ==
    ASSUME NEW r \in DOMAIN Releases, NEW seen
    PROVE  \A c \in DOMAIN columns :
              c \in DOMAIN Migrated(r, seen) /\ Migrated(r, seen)[c] = columns[c]
<1>1. CASE seen = NoTable
    BY <1>1 DEF Migrated, NoTable
<1>2. CASE seen # NoTable
    BY <1>2 DEF Migrated
<1> QED BY <1>1, <1>2

LEMMA MigratedIsDeclared ==
    ASSUME NEW r \in DOMAIN Releases, NEW seen
    PROVE  \A c \in DOMAIN Migrated(r, seen) \ DOMAIN columns :
              c \in Columns(r) /\ Migrated(r, seen)[c] = Reported(DeclaredType(r, c))
<1>1. CASE seen = NoTable
    BY <1>1, FreshTableIsATable DEF Migrated
<1>2. CASE seen # NoTable
    BY <1>2 DEF Migrated, Adds
<1> QED BY <1>1, <1>2

LEMMA MigratedFits ==
    ASSUME NEW r \in DOMAIN Releases, ReservedAgree(columns), ~Refuses(r, columns)
    PROVE  FitsTable(r, Migrated(r, columns))
<1> SUFFICES ASSUME NEW c \in Columns(r)
             PROVE  /\ c \in DOMAIN Migrated(r, columns)
                    /\ Equivalent(DeclaredType(r, c), Migrated(r, columns)[c])
    BY DEF FitsTable
<1>1. CASE c \in DOMAIN columns /\ c \in Reserved
  <2>1. PICK q \in DOMAIN Releases :
            c \in Columns(q) /\ columns[c] = Reported(DeclaredType(q, c))
      BY <1>1 DEF ReservedAgree
  <2>2. columns[c] = Reported(DeclaredType(r, c))
      BY <1>1, <2>1, ReservedDeclaredOnce
  <2> QED BY <1>1, <2>2, MigratedOnlyAdds, ReportedIsEquivalent
<1>2. CASE c \in DOMAIN columns /\ c \notin Reserved
  <2>1. Equivalent(DeclaredType(r, c), columns[c])
      BY <1>2 DEF Refuses, Changes
  <2> QED BY <1>2, <2>1, MigratedOnlyAdds
<1>3. CASE c \notin DOMAIN columns
  <2>1. c \in DOMAIN Migrated(r, columns)
    <3>1. CASE columns = NoTable
        BY <3>1, FreshTableIsATable DEF Migrated
    <3>2. CASE columns # NoTable
        BY <1>3, <3>2 DEF Migrated, Adds
    <3> QED BY <3>1, <3>2
  <2> QED BY <1>3, <2>1, MigratedIsDeclared, ReportedIsEquivalent
<1> QED BY <1>1, <1>2, <1>3

LEMMA ReservedStayAgreed ==
    ASSUME NEW r \in DOMAIN Releases, NEW seen, ReservedAgree(columns)
    PROVE  ReservedAgree(Migrated(r, seen))
<1> SUFFICES ASSUME NEW c \in DOMAIN Migrated(r, seen) \cap Reserved
             PROVE  \E q \in DOMAIN Releases : /\ c \in Columns(q)
                        /\ Migrated(r, seen)[c] = Reported(DeclaredType(q, c))
    BY DEF ReservedAgree
<1>1. CASE c \in DOMAIN columns
    BY <1>1, MigratedOnlyAdds DEF ReservedAgree
<1>2. CASE c \notin DOMAIN columns
    BY <1>2, MigratedIsDeclared
<1> QED BY <1>1, <1>2

\* What fits a table fits one that has more.
LEMMA FitsMore ==
    ASSUME NEW r, NEW live, NEW more, FitsTable(r, live),
           \A c \in DOMAIN live : c \in DOMAIN more /\ more[c] = live[c]
    PROVE  FitsTable(r, more)
BY DEF FitsTable

\* The table of the one release that was made stays: that release adds nothing to it.
LEMMA MigratedAgain ==
    ASSUME NEW r \in DOMAIN Releases, NEW seen \in {NoTable, FreshTable(r)},
           columns = FreshTable(r)
    PROVE  Migrated(r, seen) = columns
<1>1. CASE seen = NoTable
    BY <1>1, FreshTableIsATable DEF Migrated
<1>2. CASE seen = FreshTable(r)
  <2>1. seen # NoTable /\ Adds(r, seen) = {}
      BY <1>2, FreshTableIsATable
  <2>2. Migrated(r, seen) = [c \in DOMAIN columns |-> columns[c]]
      BY <2>1 DEF Migrated
  <2> QED BY <2>2, FreshTableIsATable
<1> QED BY <1>1, <1>2

LEMMA PodBootsKeeps ==
    ASSUME SchemaIInv, NEW p \in Pods, NEW r \in DOMAIN Releases, PodBoots(p, r)
    PROVE  SchemaIInv'
<1> DEFINE d == [at |-> "planning", release |-> r, seen |-> columns, raced |-> FALSE]
<1>1. /\ pod' = [pod EXCEPT ![p] = d] /\ columns' = columns /\ made' = made
      /\ DOMAIN pod = Pods
    BY DEF PodBoots, SchemaIInv
<1>2. \A q \in Pods : pod'[q] = IF q = p THEN d ELSE pod[q]
    BY <1>1
<1>3. PodInv(d, columns)
    BY DEF PodInv, IsPod
<1>4. \A q \in Pods : PodInv(pod'[q], columns)
    BY <1>2, <1>3 DEF SchemaIInv
<1>5. MadeInv(pod', columns, made)
    BY <1>2 DEF SchemaIInv, MadeInv
<1>6. DOMAIN pod' = Pods /\ pod' = [q \in Pods |-> pod'[q]]
    BY <1>1
<1> HIDE DEF d
<1> QED BY <1>1, <1>4, <1>5, <1>6 DEF SchemaIInv

LEMMA PlanMigrationKeeps ==
    ASSUME SchemaIInv, NEW p \in Pods, PlanMigration(p)
    PROVE  SchemaIInv'
<1> DEFINE at == IF Refuses(pod[p].release, pod[p].seen) THEN "failed" ELSE "applying"
<1>1. /\ pod' = [pod EXCEPT ![p].at = at] /\ columns' = columns /\ made' = made
      /\ DOMAIN pod = Pods /\ pod[p].at = "planning" /\ PodInv(pod[p], columns)
    BY DEF PlanMigration, SchemaIInv
<1>2. PICK d : d = [pod[p] EXCEPT !.at = at]
    OBVIOUS
<1>3. \A q \in Pods : pod'[q] = IF q = p THEN d ELSE pod[q]
    BY <1>1, <1>2
<1>4. /\ d.at = at /\ d.release = pod[p].release /\ d.seen = pod[p].seen
      /\ d.raced = pod[p].raced /\ IsPod(d)
    BY <1>1, <1>2 DEF PodInv, IsPod
<1>5. PodInv(d, columns)
    BY <1>1, <1>4 DEF PodInv
<1>6. \A q \in Pods : PodInv(pod'[q], columns)
    BY <1>3, <1>5 DEF SchemaIInv
<1>7. \A q \in Pods : pod'[q].seen = pod[q].seen
           /\ (pod'[q].at \in {"planning", "applying"} => pod[q].at \in {"planning", "applying"})
    BY <1>1, <1>3, <1>4
<1>8. MadeInv(pod', columns, made)
    BY <1>7 DEF SchemaIInv, MadeInv
<1>9. DOMAIN pod' = Pods /\ pod' = [q \in Pods |-> pod'[q]]
    BY <1>1
<1> HIDE DEF at
<1> QED BY <1>1, <1>6, <1>8, <1>9 DEF SchemaIInv

LEMMA ApplyMigrationKeeps ==
    ASSUME SchemaIInv, NEW p \in Pods, ApplyMigration(p)
    PROVE  SchemaIInv'
<1>1. PICK r, seen : r = pod[p].release /\ seen = pod[p].seen
    OBVIOUS
<1>2. PICK after : after = Migrated(r, seen)
    OBVIOUS
<1>3. PICK ok : ok = (UNION Releases[r].indexes \subseteq DOMAIN after)
    OBVIOUS
<1>4. /\ pod[p].at = "applying"
      /\ columns' = IF ok THEN after ELSE columns
      /\ made' = IF ok THEN made \cup {r} ELSE made
      /\ pod' = [q \in Pods |->
                  IF q = p THEN [pod[p] EXCEPT !.at = IF ok THEN "running" ELSE "failed"]
                  ELSE [pod[q] EXCEPT !.raced =
                          @ \/ (ok /\ pod[q].at \in {"planning", "applying"})]]
    BY <1>1, <1>2, <1>3 DEF ApplyMigration
<1>5. /\ \A q \in Pods : PodInv(pod[q], columns) /\ IsPod(pod[q])
      /\ r \in DOMAIN Releases /\ ~Refuses(r, seen)
    BY <1>1, <1>4 DEF SchemaIInv, PodInv, IsPod
<1>6. /\ \A q \in Pods : /\ pod'[q].release = pod[q].release /\ pod'[q].seen = pod[q].seen
                         /\ IsPod(pod'[q])
      /\ pod'[p].at = (IF ok THEN "running" ELSE "failed") /\ pod'[p].raced = pod[p].raced
      /\ \A q \in Pods \ {p} : /\ pod'[q].at = pod[q].at
             /\ pod'[q].raced = (pod[q].raced \/ (ok /\ pod[q].at \in {"planning", "applying"}))
  <2>1. ASSUME NEW q \in Pods
        PROVE  /\ pod'[q].release = pod[q].release /\ pod'[q].seen = pod[q].seen
               /\ IsPod(pod'[q])
               /\ q = p => /\ pod'[p].at = (IF ok THEN "running" ELSE "failed")
                           /\ pod'[p].raced = pod[p].raced
               /\ q # p => /\ pod'[q].at = pod[q].at
                    /\ pod'[q].raced =
                          (pod[q].raced \/ (ok /\ pod[q].at \in {"planning", "applying"}))
    <3>1. CASE q = p
      <4>1. PICK d : d = [pod[p] EXCEPT !.at = IF ok THEN "running" ELSE "failed"]
          OBVIOUS
      <4>2. pod'[q] = d
          BY <1>4, <3>1, <4>1
      <4>3. /\ d.at = (IF ok THEN "running" ELSE "failed") /\ d.release = pod[p].release
            /\ d.seen = pod[p].seen /\ d.raced = pod[p].raced /\ IsPod(d)
          BY <1>4, <1>5, <4>1 DEF IsPod
      <4> QED BY <3>1, <4>2, <4>3
    <3>2. CASE q # p
      <4>1. PICK raced : raced = (pod[q].raced \/ (ok /\ pod[q].at \in {"planning", "applying"}))
          OBVIOUS
      <4>2. raced \in BOOLEAN
          BY <4>1, <1>3, <1>5 DEF IsPod
      <4>3. PICK d : d = [pod[q] EXCEPT !.raced = raced]
          OBVIOUS
      <4>4. pod'[q] = d
          BY <1>4, <3>2, <4>1, <4>3
      <4>5. /\ d.at = pod[q].at /\ d.release = pod[q].release
            /\ d.seen = pod[q].seen /\ d.raced = raced /\ IsPod(d)
          BY <1>5, <4>2, <4>3 DEF IsPod
      <4> QED BY <3>2, <4>1, <4>4, <4>5
    <3> QED BY <3>1, <3>2
  <2> QED BY <2>1
<1>7. DOMAIN pod' = Pods /\ pod' = [q \in Pods |-> pod'[q]]
    BY <1>4
<1>8. PICK live : live = columns'
    OBVIOUS
<1>9. /\ \A c \in DOMAIN columns : c \in DOMAIN live /\ live[c] = columns[c]
      /\ ReservedAgree(live)
  <2>1. CASE ok
      BY <1>2, <1>4, <1>5, <1>8, <2>1, MigratedOnlyAdds, ReservedStayAgreed DEF SchemaIInv
  <2>2. CASE ~ok
      BY <1>4, <1>8, <2>2 DEF SchemaIInv
  <2> QED BY <2>1, <2>2
<1>10. PodInv(pod'[p], live)
  <2>1. ASSUME ok, ~pod[p].raced PROVE FitsTable(r, live)
    <3>1. seen = columns
        BY <1>1, <1>4, <1>5, <2>1 DEF PodInv
    <3> QED BY <1>2, <1>4, <1>5, <1>8, <2>1, <3>1, MigratedFits DEF SchemaIInv
  <2> QED BY <1>1, <1>6, <2>1 DEF PodInv
<1>11. ASSUME NEW q \in Pods \ {p} PROVE PodInv(pod'[q], live)
  <2>1. pod[q].at = "running" /\ ~pod[q].raced => FitsTable(pod[q].release, live)
      BY <1>5, <1>9, FitsMore DEF PodInv
  <2>2. ~ok => live = columns
      BY <1>4, <1>8
  <2>3. pod'[q].at \in {"planning", "applying"} /\ ~pod'[q].raced => pod'[q].seen = live
      BY <1>5, <1>6, <2>2 DEF PodInv
  <2>4. IsPod(pod'[q]) /\ (pod'[q].at = "applying" => ~Refuses(pod'[q].release, pod'[q].seen))
      BY <1>5, <1>6 DEF PodInv
  <2>5. pod'[q].at = "running" /\ ~pod'[q].raced => FitsTable(pod'[q].release, live)
      BY <1>5, <1>6, <2>1 DEF PodInv, IsPod
  <2> QED BY <2>3, <2>4, <2>5 DEF PodInv
<1>12. MadeInv(pod', live, made')
  <2>1. \A q \in Pods : pod'[q].at \in {"planning", "applying"} =>
            pod[q].at \in {"planning", "applying"} /\ pod'[q].seen = pod[q].seen
      BY <1>6
  <2>2. CASE ~ok
      BY <1>4, <1>8, <2>1, <2>2 DEF SchemaIInv, MadeInv
  <2>3. CASE ok
    <3>1. made' = made \cup {r} /\ made' # {} /\ live = after
        BY <1>4, <1>8, <2>3
    <3>2. ASSUME NEW q \in DOMAIN Releases, made' = {q}
          PROVE  /\ live = FreshTable(q) /\ ~Unmappable(q) /\ Unknown(q) = {}
                 /\ \A o \in Pods : pod[o].at \in {"planning", "applying"} =>
                       pod[o].seen \in {NoTable, FreshTable(q)}
      <4>1. q = r /\ (made = {} \/ made = {q})
          BY <3>1, <3>2
      <4>2. CASE made = {}
        <5>1. columns = NoTable /\ seen = NoTable
            BY <1>1, <1>4, <4>2 DEF SchemaIInv, MadeInv
        <5>2. live = FreshTable(q)
            BY <1>2, <3>1, <4>1, <5>1 DEF Migrated
        <5>3. ~Unmappable(q) /\ Unknown(q) = {}
            BY <1>5, <4>1 DEF Refuses
        <5> QED BY <4>2, <5>2, <5>3 DEF SchemaIInv, MadeInv
      <4>3. CASE made = {q}
        <5>1. /\ columns = FreshTable(q) /\ ~Unmappable(q) /\ Unknown(q) = {}
              /\ \A o \in Pods : pod[o].at \in {"planning", "applying"} =>
                    pod[o].seen \in {NoTable, FreshTable(q)}
            BY <4>3 DEF SchemaIInv, MadeInv
        <5>2. Migrated(r, seen) = columns
            BY <1>1, <1>4, <1>5, <4>1, <5>1, MigratedAgain
        <5> QED BY <1>2, <3>1, <5>1, <5>2
      <4> QED BY <4>1, <4>2, <4>3
    <3> QED BY <2>1, <3>1, <3>2 DEF MadeInv
  <2> QED BY <2>2, <2>3
<1> QED BY <1>7, <1>8, <1>9, <1>10, <1>11, <1>12 DEF SchemaIInv

LEMMA PodDiesKeeps ==
    ASSUME SchemaIInv, NEW p \in Pods, PodDies(p)
    PROVE  SchemaIInv'
<1>1. /\ pod' = [pod EXCEPT ![p] = NoPod] /\ columns' = columns /\ made' = made
      /\ DOMAIN pod = Pods
    BY DEF PodDies, SchemaIInv
<1>2. \A q \in Pods : pod'[q] = IF q = p THEN NoPod ELSE pod[q]
    BY <1>1
<1>3. PodInv(NoPod, columns) /\ NoPod.at = "down"
    BY DEF PodInv, IsPod, NoPod
<1>4. \A q \in Pods : PodInv(pod'[q], columns)
    BY <1>2, <1>3 DEF SchemaIInv
<1>5. MadeInv(pod', columns, made)
    BY <1>2, <1>3 DEF SchemaIInv, MadeInv
<1>6. DOMAIN pod' = Pods /\ pod' = [q \in Pods |-> pod'[q]]
    BY <1>1
<1> QED BY <1>1, <1>4, <1>5, <1>6 DEF SchemaIInv

LEMMA SchemaStep == SchemaIInv /\ [SchemaNext]_schemaVars => SchemaIInv'
<1> SUFFICES ASSUME SchemaIInv, [SchemaNext]_schemaVars PROVE SchemaIInv'
    OBVIOUS
<1>1. ASSUME NEW p \in Pods, NEW r \in DOMAIN Releases, PodBoots(p, r) PROVE SchemaIInv'
    BY <1>1, PodBootsKeeps
<1>2. ASSUME NEW p \in Pods, PlanMigration(p) PROVE SchemaIInv'
    BY <1>2, PlanMigrationKeeps
<1>3. ASSUME NEW p \in Pods, ApplyMigration(p) PROVE SchemaIInv'
    BY <1>3, ApplyMigrationKeeps
<1>4. ASSUME NEW p \in Pods, PodDies(p) PROVE SchemaIInv'
    BY <1>4, PodDiesKeeps
<1>5. CASE UNCHANGED schemaVars
    BY <1>5 DEF schemaVars, SchemaIInv
<1> QED BY <1>1, <1>2, <1>3, <1>4, <1>5 DEF SchemaNext

LEMMA SchemaInitHolds == SchemaInit => SchemaIInv
<1> SUFFICES ASSUME SchemaInit PROVE SchemaIInv
    OBVIOUS
<1>1. columns = NoTable /\ pod = [p \in Pods |-> NoPod] /\ made = {}
    BY DEF SchemaInit
<1>2. PodInv(NoPod, columns) /\ NoPod.at = "down"
    BY DEF PodInv, IsPod, NoPod
<1>3. ReservedAgree(columns)
    BY <1>1 DEF ReservedAgree, NoTable
<1>4. MadeInv(pod, columns, made)
    BY <1>1, <1>2 DEF MadeInv
<1> QED BY <1>1, <1>2, <1>3, <1>4 DEF SchemaIInv

LEMMA SchemaFits == SchemaIInv => RunningPodsFit /\ RebootsQuietly
<1> SUFFICES ASSUME SchemaIInv PROVE RunningPodsFit /\ RebootsQuietly
    OBVIOUS
<1>1. RunningPodsFit
    BY DEF SchemaIInv, PodInv, FitsTable, RunningPodsFit
<1>2. RebootsQuietly
    BY FreshTableIsATable DEF SchemaIInv, MadeInv, RebootsQuietly, Refuses
<1> QED BY <1>1, <1>2

\* Pods that run find their columns and a release boots again over its own table, for every
\* set of pods and of releases that agree about the reserved columns (migrator.py).
THEOREM PodsAlwaysFit == SchemaSpec => [](RunningPodsFit /\ RebootsQuietly)
BY SchemaInitHolds, SchemaStep, SchemaFits, PTL DEF SchemaSpec

--------------------------------------------------------------------------------
(***************************************************************************)
(* Snapshots: the dynamic configuration                                     *)
(***************************************************************************)

Asking == [pc : {"idle", "fetch", "store", "done"}, since : Nat, got : Values]

\* A key was so set, or a request for it failed, at some time since the one given.
Told(got, since) == \E t \in since .. clock : got \in answers[t]

\* What a thread brings was the answer at some time since it asked; what it is given, at
\* most TTL before.
Answered(d) ==
    /\ d \in Asking /\ d.since <= clock
    /\ d.pc = "store" => Told(d.got, d.since)
    /\ d.pc = "done" => \E t \in 0 .. clock : t + TTL > d.since /\ d.got \in answers[t]

\* The snapshot expires at most TTL after a time at which it was the answer.
CachedInTime(c) ==
    /\ c \in [value : Values, until : Nat]
    /\ c.until > 0 => \E t \in 0 .. clock : t + TTL >= c.until /\ c.value \in answers[t]

SettingsIInv ==
    /\ clock \in Nat /\ config \in Values
    /\ DOMAIN answers = 0 .. clock /\ answers = [t \in 0 .. clock |-> answers[t]]
    /\ config \in answers[clock]
    /\ CachedInTime(cached)
    /\ DOMAIN thread = Threads /\ \A r \in Threads : Answered(thread[r])

\* Time goes on and nothing that was told is forgotten.
Remembered ==
    /\ clock \in Nat /\ clock' \in Nat /\ clock <= clock'
    /\ \A t \in 0 .. clock : answers[t] \subseteq answers'[t]

LEMMA AnsweredStays ==
    ASSUME Remembered, NEW d, Answered(d)
    PROVE  Answered(d)'
<1>1. d \in Asking /\ d.since \in Nat /\ d.since <= clock
    BY DEF Answered, Asking
<1>2. d.pc = "store" => \E t \in d.since .. clock' : d.got \in answers'[t]
    BY <1>1 DEF Answered, Told, Remembered
<1>3. d.pc = "done" => \E t \in 0 .. clock' : t + TTL > d.since /\ d.got \in answers'[t]
    BY <1>1 DEF Answered, Remembered
<1>4. d.since <= clock'
    BY <1>1 DEF Remembered
<1> QED BY <1>1, <1>2, <1>3, <1>4 DEF Answered, Told

LEMMA CachedStays ==
    ASSUME Remembered, NEW c, CachedInTime(c)
    PROVE  CachedInTime(c)'
BY DEF Remembered, CachedInTime

LEMMA OthersKeep ==
    ASSUME SettingsIInv, Remembered, NEW r \in Threads, NEW d,
           thread' = [thread EXCEPT ![r] = d], Answered(d)'
    PROVE  DOMAIN thread' = Threads /\ \A q \in Threads : Answered(thread[q])'
<1>1. DOMAIN thread' = Threads /\ \A q \in Threads : thread'[q] = IF q = r THEN d ELSE thread[q]
    BY DEF SettingsIInv
<1>2. ASSUME NEW q \in Threads PROVE Answered(thread[q])'
  <2>1. PICK e : e = thread'[q]
      OBVIOUS
  <2>2. Answered(e)'
    <3>1. CASE q = r
        BY <1>1, <2>1, <3>1
    <3>2. CASE q # r
      <4>1. Answered(e)
          BY <1>1, <2>1, <3>2 DEF SettingsIInv
      <4> QED BY <4>1, AnsweredStays
    <3> QED BY <3>1, <3>2
  <2> QED BY <2>1, <2>2
<1> QED BY <1>1, <1>2

LEMMA TickKeeps == ASSUME SettingsIInv, Tick PROVE SettingsIInv'
<1>1. /\ clock' = clock + 1 /\ clock \in Nat /\ clock' \in Nat
      /\ answers' = [t \in 0 .. clock' |-> IF t = clock' THEN {config} ELSE answers[t]]
      /\ config' = config /\ cached' = cached /\ thread' = thread
    BY DEF Tick, SettingsIInv
<1>2. Remembered
    BY <1>1 DEF Remembered
<1>3. DOMAIN answers' = 0 .. clock' /\ answers' = [t \in 0 .. clock' |-> answers'[t]]
    BY <1>1
<1>4. config' \in answers'[clock']
    BY <1>1
<1>5. CachedInTime(cached)'
  <2>1. PICK c : c = cached
      OBVIOUS
  <2> QED BY <1>1, <1>2, <2>1, CachedStays DEF SettingsIInv
<1>6. \A r \in Threads : Answered(thread[r])'
  <2>1. ASSUME NEW r \in Threads PROVE Answered(thread[r])'
    <3>1. PICK d : d = thread[r]
        OBVIOUS
    <3> QED BY <1>1, <1>2, <3>1, AnsweredStays DEF SettingsIInv
  <2> QED BY <2>1
<1> QED BY <1>1, <1>3, <1>4, <1>5, <1>6 DEF SettingsIInv

LEMMA ConfigureKeeps == ASSUME SettingsIInv, Configure PROVE SettingsIInv'
<1>1. /\ clock' = clock /\ clock \in Nat /\ config' \in Values
      /\ answers' = [answers EXCEPT ![clock] = @ \cup {config'}]
      /\ cached' = cached /\ thread' = thread /\ clock \in DOMAIN answers
    BY DEF Configure, SettingsIInv
<1>2. Remembered
    BY <1>1 DEF Remembered, SettingsIInv
<1>3. DOMAIN answers' = 0 .. clock' /\ answers' = [t \in 0 .. clock' |-> answers'[t]]
    BY <1>1 DEF SettingsIInv
<1>4. config' \in answers'[clock']
    BY <1>1
<1>5. CachedInTime(cached)'
  <2>1. PICK c : c = cached
      OBVIOUS
  <2> QED BY <1>1, <1>2, <2>1, CachedStays DEF SettingsIInv
<1>6. \A r \in Threads : Answered(thread[r])'
  <2>1. ASSUME NEW r \in Threads PROVE Answered(thread[r])'
    <3>1. PICK d : d = thread[r]
        OBVIOUS
    <3> QED BY <1>1, <1>2, <3>1, AnsweredStays DEF SettingsIInv
  <2> QED BY <2>1
<1> QED BY <1>1, <1>3, <1>4, <1>5, <1>6 DEF SettingsIInv

\* A step of a thread that leaves the clock, the key and what was told as they are, or adds
\* to what is told now.
LEMMA AskingKeeps ==
    ASSUME SettingsIInv, NEW r \in Threads, NEW d, NEW more \in SUBSET Values,
           UNCHANGED <<clock, config>>,
           answers' = [answers EXCEPT ![clock] = @ \cup more],
           thread' = [thread EXCEPT ![r] = d], Answered(d)', CachedInTime(cached)'
    PROVE  SettingsIInv'
<1>1. /\ clock \in Nat /\ DOMAIN answers = 0 .. clock /\ clock \in DOMAIN answers
    BY DEF SettingsIInv
<1>2. Remembered
    BY <1>1 DEF Remembered
<1>3. DOMAIN answers' = 0 .. clock' /\ answers' = [t \in 0 .. clock' |-> answers'[t]]
    BY <1>1
<1>4. config' \in answers'[clock']
    BY <1>1 DEF SettingsIInv
<1>5. DOMAIN thread' = Threads /\ \A q \in Threads : Answered(thread[q])'
    BY <1>2, OthersKeep
<1> QED BY <1>1, <1>3, <1>4, <1>5 DEF SettingsIInv

LEMMA NothingTold ==
    ASSUME SettingsIInv, answers' = answers
    PROVE  answers' = [answers EXCEPT ![clock] = @ \cup {}]
<1>1. DOMAIN answers = 0 .. clock /\ answers = [t \in 0 .. clock |-> answers[t]]
    BY DEF SettingsIInv
<1> QED BY <1>1

LEMMA AsksKeeps == ASSUME SettingsIInv, NEW r \in Threads, Asks(r) PROVE SettingsIInv'
<1>1. PICK d : d = [pc |-> IF Valid THEN "done" ELSE "fetch", since |-> clock,
                    got |-> IF Valid THEN cached.value ELSE Missing]
    OBVIOUS
<1>2. /\ thread' = [thread EXCEPT ![r] = d] /\ clock' = clock /\ config' = config
      /\ answers' = answers /\ cached' = cached
    BY <1>1 DEF Asks
<1>3. clock \in Nat /\ CachedInTime(cached)
    BY DEF SettingsIInv
<1>4. d \in Asking /\ d.since = clock /\ d.pc \in {"done", "fetch"}
    BY <1>1, <1>3 DEF Asking, CachedInTime, Values
<1>5. ASSUME d.pc = "done"
      PROVE  \E t \in 0 .. clock : t + TTL > d.since /\ d.got \in answers[t]
  <2>1. clock < cached.until /\ d.got = cached.value /\ cached.until \in Nat
      BY <1>1, <1>3, <1>5 DEF Valid, CachedInTime
  <2>2. PICK t \in 0 .. clock : t + TTL >= cached.until /\ cached.value \in answers[t]
      BY <1>3, <2>1 DEF CachedInTime
  <2>3. t + TTL > d.since
      BY <1>3, <1>4, <2>1, <2>2, SnapshotsAssumption
  <2> QED BY <2>1, <2>2, <2>3
<1>6. Answered(d)'
    BY <1>2, <1>3, <1>4, <1>5 DEF Answered
<1>7. CachedInTime(cached)'
    BY <1>2, <1>3 DEF CachedInTime
<1>8. answers' = [answers EXCEPT ![clock] = @ \cup {}] /\ {} \in SUBSET Values
    BY <1>2, NothingTold
<1> QED BY <1>2, <1>6, <1>7, <1>8, AskingKeeps

LEMMA FetchKeeps == ASSUME SettingsIInv, NEW r \in Threads, Fetch(r) PROVE SettingsIInv'
<1>1. PICK got \in {config, Missing} :
          /\ thread' = [thread EXCEPT ![r] = [thread[r] EXCEPT !.pc = "store", !.got = got]]
          /\ \/ got = config /\ answers' = answers
             \/ got = Missing /\ answers' = [answers EXCEPT ![clock] = @ \cup {Missing}]
    BY DEF Fetch
<1>2. clock' = clock /\ config' = config /\ cached' = cached /\ thread[r].pc = "fetch"
    BY DEF Fetch
<1>3. /\ clock \in Nat /\ CachedInTime(cached) /\ config \in Values /\ Missing \in Values
      /\ DOMAIN answers = 0 .. clock /\ config \in answers[clock] /\ Answered(thread[r])
    BY DEF SettingsIInv, Values
<1>4. PICK d : d = [thread[r] EXCEPT !.pc = "store", !.got = got]
    OBVIOUS
<1>5. d \in Asking /\ d.since = thread[r].since /\ d.pc = "store" /\ d.got = got
    BY <1>1, <1>3, <1>4 DEF Asking, Answered
<1>6. PICK more \in {{}, {Missing}} :
          /\ answers' = [answers EXCEPT ![clock] = @ \cup more]
          /\ got = config \/ got \in more
    BY <1>1, NothingTold
<1>7. got \in answers'[clock]
    BY <1>3, <1>6
<1>8. Remembered
    BY <1>2, <1>3, <1>6 DEF Remembered
<1>9. d.since \in Nat /\ d.since <= clock
    BY <1>3, <1>5 DEF Answered, Asking
<1>10. Answered(d)'
  <2>1. \E t \in d.since .. clock' : d.got \in answers'[t]
      BY <1>2, <1>3, <1>5, <1>7, <1>9
  <2> QED BY <1>2, <1>5, <1>9, <2>1 DEF Answered, Told
<1>11. CachedInTime(cached)'
  <2>1. PICK c : c = cached
      OBVIOUS
  <2> QED BY <1>2, <1>3, <1>8, <2>1, CachedStays
<1>12. more \in SUBSET Values
    BY <1>3
<1> QED BY <1>1, <1>2, <1>4, <1>6, <1>10, <1>11, <1>12, AskingKeeps

LEMMA StoreKeeps == ASSUME SettingsIInv, NEW r \in Threads, Store(r) PROVE SettingsIInv'
<1>1. PICK d : d = [thread[r] EXCEPT !.pc = "done"]
    OBVIOUS
<1>2. /\ thread[r].pc = "store" /\ thread' = [thread EXCEPT ![r] = d]
      /\ cached' = [value |-> thread[r].got, until |-> thread[r].since + TTL]
      /\ clock' = clock /\ config' = config /\ answers' = answers
      /\ r \in DOMAIN thread
    BY <1>1 DEF Store, Expiry, SettingsIInv
<1>3. clock \in Nat /\ Answered(thread[r])
    BY DEF SettingsIInv
<1>4. /\ d \in Asking /\ d.since = thread[r].since /\ d.pc = "done" /\ d.got = thread[r].got
      /\ d.since \in Nat /\ d.since <= clock /\ d.got \in Values
    BY <1>1, <1>3 DEF Asking, Answered
<1>5. PICK t \in d.since .. clock : d.got \in answers[t]
    BY <1>2, <1>3, <1>4 DEF Answered, Told
<1>6. t \in 0 .. clock /\ t + TTL > d.since /\ t + TTL >= d.since + TTL /\ d.since + TTL \in Nat
    BY <1>3, <1>4, <1>5, SnapshotsAssumption
<1>7. Answered(d)'
    BY <1>2, <1>4, <1>5, <1>6 DEF Answered
<1>8. CachedInTime(cached)'
    BY <1>2, <1>4, <1>5, <1>6 DEF CachedInTime
<1>9. answers' = [answers EXCEPT ![clock] = @ \cup {}] /\ {} \in SUBSET Values
    BY <1>2, NothingTold
<1> QED BY <1>2, <1>7, <1>8, <1>9, AskingKeeps

LEMMA AnswerKeeps == ASSUME SettingsIInv, NEW r \in Threads, Answer(r) PROVE SettingsIInv'
<1>1. /\ thread' = [thread EXCEPT ![r] = Calm]
      /\ clock' = clock /\ config' = config /\ answers' = answers /\ cached' = cached
    BY DEF Answer
<1>2. clock \in Nat /\ CachedInTime(cached)
    BY DEF SettingsIInv
<1>3. Answered(Calm)'
    BY <1>1, <1>2 DEF Answered, Calm, Asking, Values
<1>4. CachedInTime(cached)'
    BY <1>1, <1>2 DEF CachedInTime
<1>5. answers' = [answers EXCEPT ![clock] = @ \cup {}] /\ {} \in SUBSET Values
    BY <1>1, NothingTold
<1> QED BY <1>1, <1>3, <1>4, <1>5, AskingKeeps

LEMMA SettingsIdle == ASSUME SettingsIInv, UNCHANGED configVars PROVE SettingsIInv'
<1>1. /\ clock' = clock /\ config' = config /\ answers' = answers /\ cached' = cached
      /\ thread' = thread
    BY DEF configVars
<1> QED BY <1>1 DEF SettingsIInv, CachedInTime, Answered, Told

LEMMA SettingsStep == SettingsIInv /\ [SnapshotsNext]_snapshotVars => SettingsIInv'
<1> SUFFICES ASSUME SettingsIInv, [SnapshotsNext]_snapshotVars PROVE SettingsIInv'
    OBVIOUS
<1>1. CASE SettingsNext
    BY <1>1, TickKeeps, ConfigureKeeps, AsksKeeps, FetchKeeps, StoreKeeps, AnswerKeeps
       DEF SettingsNext
<1>2. CASE SkillsNext
  <2>1. UNCHANGED configVars
      BY <1>2 DEF SkillsNext, Boots, FirstSnapshot, Differs, Reloads, Remembers, Edit
  <2> QED BY <2>1, SettingsIdle
<1>3. CASE UNCHANGED snapshotVars
    BY <1>3, SettingsIdle DEF snapshotVars
<1> QED BY <1>1, <1>2, <1>3 DEF SnapshotsNext

LEMMA SettingsInitHolds == SnapshotsInit => SettingsIInv
<1> SUFFICES ASSUME SnapshotsInit PROVE SettingsIInv
    OBVIOUS
<1>1. /\ clock = 0 /\ config \in Values /\ answers = [t \in {0} |-> {config}]
      /\ cached = [value |-> Missing, until |-> 0] /\ thread = [r \in Threads |-> Calm]
    BY DEF SnapshotsInit
<1>2. 0 .. clock = {0}
    BY <1>1
<1>3. DOMAIN answers = 0 .. clock /\ answers = [t \in 0 .. clock |-> answers[t]]
    BY <1>1, <1>2
<1>4. CachedInTime(cached)
    BY <1>1 DEF CachedInTime, Values
<1>5. Answered(Calm)
    BY <1>1 DEF Answered, Calm, Asking, Values
<1> QED BY <1>1, <1>3, <1>4, <1>5 DEF SettingsIInv

LEMMA SettingsAreFresh == SettingsIInv => ConfigIsFresh
BY DEF SettingsIInv, Answered, ConfigIsFresh

--------------------------------------------------------------------------------
(***************************************************************************)
(* Snapshots: the skills                                                    *)
(***************************************************************************)

Places == ToSet(Dirs)

\* The files as somebody saw them: written by then.
Written(fs) ==
    /\ DOMAIN fs = Places
    /\ \A d \in Places : fs[d].mtime \in Nat /\ fs[d].mtime <= edits

\* A file of the snapshot is no longer what it was, and never will be again.
Gone(fs) == \E d \in Places : fs[d] # NoFile /\ files[d] # fs[d]

\* The registry is of the files, or of a snapshot the next look will find different.
SkillsIInv ==
    /\ edits \in Nat
    /\ Written(files) /\ Written(reload.last) /\ Written(reload.now)
    /\ reload \in [pc : {"boot", "first", "sleep", "load", "loaded"},
                   last : {reload.last}, now : {reload.now}]
    /\ ~unseen =>
        /\ reload.pc = "first" => registry = Loaded(files)
        /\ reload.pc = "load" => reload.now = files \/ Gone(reload.now)
        /\ reload.pc = "loaded" => registry = Loaded(reload.now) \/ Gone(reload.now)
        /\ reload.pc = "sleep" => registry = Loaded(reload.last) \/ Gone(reload.last)

LEMMA EditKeeps == ASSUME SkillsIInv, NEW d \in Places, Edit(d) PROVE SkillsIInv'
<1>1. /\ edits' = edits + 1 /\ edits \in Nat /\ DOMAIN files = Places
      /\ registry' = registry /\ reload' = reload
      /\ unseen' = (unseen \/ reload.pc = "first"
                      \/ (reload.pc = "load" /\ reload.now[d] = NoFile))
    BY DEF Edit, SkillsIInv, Written
<1>2. PICK file : /\ files' = [files EXCEPT ![d] = file]
                  /\ file = NoFile \/ file.mtime = edits'
    BY DEF Edit
<1>3. file.mtime \in Nat /\ file.mtime <= edits'
    BY <1>1, <1>2 DEF NoFile
<1>4. DOMAIN files' = Places /\ \A p \in Places : files'[p] = IF p = d THEN file ELSE files[p]
    BY <1>1, <1>2
<1>5. PICK last, now : last = reload.last /\ now = reload.now
    OBVIOUS
<1>6. Written(last) /\ Written(now) /\ Written(files)
    BY <1>5 DEF SkillsIInv
<1>7. Written(last)' /\ Written(now)'
    BY <1>1, <1>6 DEF Written
<1>8. Written(files)'
    BY <1>1, <1>3, <1>4, <1>6 DEF Written
<1>9. ASSUME NEW fs, Written(fs), fs[d] # NoFile PROVE files'[d] # fs[d]
    BY <1>1, <1>2, <1>4, <1>9 DEF Written
<1>10. ASSUME NEW fs, Written(fs), Gone(fs) PROVE Gone(fs)'
  <2>1. PICK p \in Places : fs[p] # NoFile /\ files[p] # fs[p]
      BY <1>10 DEF Gone
  <2>2. files'[p] # fs[p]
      BY <1>4, <1>9, <1>10, <2>1
  <2> QED BY <2>1, <2>2 DEF Gone
<1>11. ASSUME ~unseen', reload.pc = "load" PROVE Gone(now)'
  <2>1. now = files \/ Gone(now)
      BY <1>1, <1>5, <1>11 DEF SkillsIInv
  <2>2. CASE Gone(now)
      BY <1>6, <1>10, <2>2
  <2>3. CASE now = files
    <3>1. now[d] # NoFile
        BY <1>1, <1>5, <1>11
    <3> QED BY <1>6, <1>9, <3>1 DEF Gone
  <2> QED BY <2>1, <2>2, <2>3
<1>12. ASSUME ~unseen', reload.pc = "loaded" PROVE registry = Loaded(now) \/ Gone(now)'
    BY <1>1, <1>5, <1>6, <1>10, <1>12 DEF SkillsIInv
<1>13. ASSUME ~unseen', reload.pc = "sleep" PROVE registry = Loaded(last) \/ Gone(last)'
    BY <1>1, <1>5, <1>6, <1>10, <1>13 DEF SkillsIInv
<1>14. ~unseen' => reload.pc # "first"
    BY <1>1
<1>15. reload'.last = last /\ reload'.now = now /\ reload'.pc = reload.pc
    BY <1>1, <1>5
<1>16. reload' \in [pc : {"boot", "first", "sleep", "load", "loaded"},
                    last : {reload'.last}, now : {reload'.now}]
    BY <1>1 DEF SkillsIInv
<1>17. edits' \in Nat
    BY <1>1
<1> QED BY <1>1, <1>7, <1>8, <1>11, <1>12, <1>13, <1>14, <1>15, <1>16, <1>17 DEF SkillsIInv

\* A step of the loop: the files stay, and what it saw of them is as it was or is them.
LEMMA LoopKeeps ==
    ASSUME SkillsIInv, NEW fs, fs = files, NEW d, reload' = d,
           UNCHANGED <<files, edits, unseen>>,
           d \in [pc : {"boot", "first", "sleep", "load", "loaded"},
                  last : {fs, reload.last, reload.now}, now : {fs, reload.now}],
           ~unseen =>
               /\ d.pc = "first" => registry' = Loaded(fs)
               /\ d.pc = "load" => d.now = fs \/ Gone(d.now)
               /\ d.pc = "loaded" => registry' = Loaded(d.now) \/ Gone(d.now)
               /\ d.pc = "sleep" => registry' = Loaded(d.last) \/ Gone(d.last)
    PROVE  SkillsIInv'
<1>1. /\ Written(fs) /\ Written(reload.last) /\ Written(reload.now) /\ edits \in Nat
      /\ files' = fs /\ edits' = edits /\ unseen' = unseen
    BY DEF SkillsIInv
<1>2. Written(d.last) /\ Written(d.now)
    BY <1>1
<1>3. PICK last, now : last = d.last /\ now = d.now
    OBVIOUS
<1>4. Written(fs)' /\ Written(last)' /\ Written(now)'
    BY <1>1, <1>2, <1>3 DEF Written
<1>5. (Gone(last)' <=> Gone(last)) /\ (Gone(now)' <=> Gone(now))
    BY <1>1 DEF Gone
<1>6. d \in [pc : {"boot", "first", "sleep", "load", "loaded"}, last : {d.last}, now : {d.now}]
    OBVIOUS
<1> QED BY <1>1, <1>3, <1>4, <1>5, <1>6 DEF SkillsIInv

LEMMA BootsKeeps == ASSUME SkillsIInv, Boots PROVE SkillsIInv'
<1>1. PICK fs, d : fs = files /\ d = [reload EXCEPT !.pc = "first"]
    OBVIOUS
<1>2. /\ reload' = d /\ registry' = Loaded(fs) /\ UNCHANGED <<files, edits, unseen>>
    BY <1>1 DEF Boots
<1>3. /\ d.pc = "first"
      /\ d \in [pc : {"boot", "first", "sleep", "load", "loaded"},
                last : {fs, reload.last, reload.now}, now : {fs, reload.now}]
    BY <1>1 DEF SkillsIInv
<1> QED BY <1>1, <1>2, <1>3, LoopKeeps

LEMMA FirstSnapshotKeeps == ASSUME SkillsIInv, FirstSnapshot PROVE SkillsIInv'
<1>1. PICK fs : fs = files
    OBVIOUS
<1>2. PICK d : d = [pc |-> "sleep", last |-> fs, now |-> fs]
    OBVIOUS
<1>3. /\ reload' = d /\ registry' = registry /\ UNCHANGED <<files, edits, unseen>>
      /\ reload.pc = "first"
    BY <1>1, <1>2 DEF FirstSnapshot
<1>4. ~unseen => registry = Loaded(fs)
    BY <1>1, <1>3 DEF SkillsIInv
<1>5. /\ d.pc = "sleep" /\ d.last = fs
      /\ d \in [pc : {"boot", "first", "sleep", "load", "loaded"},
                last : {fs, reload.last, reload.now}, now : {fs, reload.now}]
    BY <1>2
<1> QED BY <1>1, <1>3, <1>4, <1>5, LoopKeeps

LEMMA DiffersKeeps == ASSUME SkillsIInv, Differs PROVE SkillsIInv'
<1>1. PICK fs : fs = files
    OBVIOUS
<1>2. PICK d : d = [reload EXCEPT !.pc = "load", !.now = fs]
    OBVIOUS
<1>3. /\ reload' = d /\ UNCHANGED <<files, edits, unseen>>
    BY <1>1, <1>2 DEF Differs
<1>4. /\ d.pc = "load" /\ d.now = fs
      /\ d \in [pc : {"boot", "first", "sleep", "load", "loaded"},
                last : {fs, reload.last, reload.now}, now : {fs, reload.now}]
    BY <1>2 DEF SkillsIInv
<1> QED BY <1>1, <1>3, <1>4, LoopKeeps

LEMMA ReloadsKeeps == ASSUME SkillsIInv, Reloads PROVE SkillsIInv'
<1>1. PICK fs, now : fs = files /\ now = reload.now
    OBVIOUS
<1>2. PICK d : d = [reload EXCEPT !.pc = "loaded"]
    OBVIOUS
<1>3. /\ reload' = d /\ registry' = Loaded(fs) /\ UNCHANGED <<files, edits, unseen>>
      /\ reload.pc = "load"
    BY <1>1, <1>2 DEF Reloads
<1>4. /\ d.pc = "loaded" /\ d.now = now
      /\ d \in [pc : {"boot", "first", "sleep", "load", "loaded"},
                last : {fs, reload.last, reload.now}, now : {fs, reload.now}]
    BY <1>1, <1>2 DEF SkillsIInv
<1>5. ~unseen => registry' = Loaded(d.now) \/ Gone(d.now)
    BY <1>1, <1>3, <1>4 DEF SkillsIInv
<1> QED BY <1>1, <1>3, <1>4, <1>5, LoopKeeps

LEMMA RemembersKeeps == ASSUME SkillsIInv, Remembers PROVE SkillsIInv'
<1>1. PICK fs, now : fs = files /\ now = reload.now
    OBVIOUS
<1>2. PICK d : d = [reload EXCEPT !.pc = "sleep", !.last = now]
    OBVIOUS
<1>3. /\ reload' = d /\ registry' = registry /\ UNCHANGED <<files, edits, unseen>>
      /\ reload.pc = "loaded"
    BY <1>1, <1>2 DEF Remembers, Seen
<1>4. /\ d.pc = "sleep" /\ d.last = now
      /\ d \in [pc : {"boot", "first", "sleep", "load", "loaded"},
                last : {fs, reload.last, reload.now}, now : {fs, reload.now}]
    BY <1>1, <1>2 DEF SkillsIInv
<1>5. ~unseen => registry = Loaded(d.last) \/ Gone(d.last)
    BY <1>1, <1>3, <1>4 DEF SkillsIInv
<1> QED BY <1>1, <1>3, <1>4, <1>5, LoopKeeps

LEMMA SkillsIdle == ASSUME SkillsIInv, UNCHANGED skillVars PROVE SkillsIInv'
<1>1. PICK fs, d : fs = files /\ d = reload
    OBVIOUS
<1>2. reload' = d /\ registry' = registry /\ UNCHANGED <<files, edits, unseen>>
    BY <1>1 DEF skillVars
<1>3. d \in [pc : {"boot", "first", "sleep", "load", "loaded"},
             last : {fs, reload.last, reload.now}, now : {fs, reload.now}]
    BY <1>1 DEF SkillsIInv
<1>4. ~unseen =>
          /\ d.pc = "first" => registry = Loaded(fs)
          /\ d.pc = "load" => d.now = fs \/ Gone(d.now)
          /\ d.pc = "loaded" => registry = Loaded(d.now) \/ Gone(d.now)
          /\ d.pc = "sleep" => registry = Loaded(d.last) \/ Gone(d.last)
    BY <1>1 DEF SkillsIInv
<1> QED BY <1>1, <1>2, <1>3, <1>4, LoopKeeps

LEMMA SkillsStep == SkillsIInv /\ [SnapshotsNext]_snapshotVars => SkillsIInv'
<1> SUFFICES ASSUME SkillsIInv, [SnapshotsNext]_snapshotVars PROVE SkillsIInv'
    OBVIOUS
<1>1. CASE SkillsNext
    BY <1>1, EditKeeps, BootsKeeps, FirstSnapshotKeeps, DiffersKeeps, ReloadsKeeps,
       RemembersKeeps DEF SkillsNext, Places
<1>2. CASE SettingsNext
  <2>1. UNCHANGED skillVars
      BY <1>2 DEF SettingsNext, Tick, Configure, Asks, Fetch, Store, Answer
  <2> QED BY <2>1, SkillsIdle
<1>3. CASE UNCHANGED snapshotVars
    BY <1>3, SkillsIdle DEF snapshotVars
<1> QED BY <1>1, <1>2, <1>3 DEF SnapshotsNext

LEMMA SkillsInitHolds == SnapshotsInit => SkillsIInv
<1> SUFFICES ASSUME SnapshotsInit PROVE SkillsIInv
    OBVIOUS
<1>1. /\ files = [d \in Places |-> NoFile] /\ edits = 0
      /\ reload = [pc |-> "boot", last |-> files, now |-> files]
    BY DEF SnapshotsInit, Places
<1>2. Written(files)
    BY <1>1 DEF Written, NoFile
<1> QED BY <1>1, <1>2 DEF SkillsIInv

LEMMA SkillsFit == SkillsIInv => SkillsAreCurrent
<1> SUFFICES ASSUME SkillsIInv, reload.pc = "sleep", files = reload.last, ~unseen
             PROVE  registry = Loaded(files)
    BY DEF SkillsAreCurrent
<1>1. PICK fs : fs = files
    OBVIOUS
<1>2. ~Gone(fs)
    BY <1>1 DEF Gone
<1>3. registry = Loaded(fs)
    BY <1>1, <1>2 DEF SkillsIInv
<1> QED BY <1>1, <1>3

\* What a process is told of its configuration is not out of date, and its skills are those
\* of the files, for every time to table, all threads and all directories (dynamic_config.py,
\* registry.py).
THEOREM SnapshotsAlwaysFit == SnapshotsSpec => [](ConfigIsFresh /\ SkillsAreCurrent)
<1>1. SnapshotsSpec => []SettingsIInv
    BY SettingsInitHolds, SettingsStep, PTL DEF SnapshotsSpec
<1>2. SnapshotsSpec => []SkillsIInv
    BY SkillsInitHolds, SkillsStep, PTL DEF SnapshotsSpec
<1> QED BY <1>1, <1>2, SettingsAreFresh, SkillsFit, PTL

--------------------------------------------------------------------------------
\* The process and its surroundings fit together, for every graph, every set of releases and
\* every time to table (graph.py, migrator.py, dynamic_config.py, registry.py).
THEOREM ProcessesAlwaysFit == ProcessesSpec => []ProcessesFit
<1>1. (CompiledCallsFit /\ CompiledHttpArrives) /\ (RunningPodsFit /\ RebootsQuietly)
        /\ (ConfigIsFresh /\ SkillsAreCurrent) => ProcessesFit
    BY DEF ProcessesFit
<1> QED BY <1>1, CompiledGraphsAlwaysFit, PodsAlwaysFit, SnapshotsAlwaysFit, PTL
        DEF ProcessesSpec

--------------------------------------------------------------------------------
(***************************************************************************)
(* Types of the parts above                                                *)
(***************************************************************************)

\* The builder's setters keep a WireSpec.
WireSpecs ==
    [type : Types, consumers : SUBSET DOMAIN Nodes, sinks : SUBSET Sinks, sources : SUBSET WireSources,
     durable : BOOLEAN, latest : BOOLEAN, when : BOOLEAN, debounce : BOOLEAN, joins : SUBSET Types,
     retry : BOOLEAN, on_error : {"dlq", "swallow_and_log"}, fan : BOOLEAN]

WiringTyped == wire \in WireSpecs /\ built \in 0 .. MaxCalls /\ graph \in {"open", "refused", "compiled"}

LEMMA WiringTypedStep == WiringTyped /\ [WiringNext]_wiringVars => WiringTyped'
<1> SUFFICES ASSUME WiringTyped, [WiringNext]_wiringVars PROVE WiringTyped'
    OBVIOUS
<1>1. ASSUME NEW new \in WireSpecs, Builds(new) PROVE WiringTyped'
    BY <1>1, WiringAssumption DEF WiringTyped, Builds
<1>2. CASE To
  <2>1. ASSUME NEW c \in DOMAIN Nodes PROVE [wire EXCEPT !.consumers = @ \cup {c}] \in WireSpecs
      BY DEF WiringTyped, WireSpecs
  <2>2. ASSUME NEW s \in Sinks PROVE [wire EXCEPT !.sinks = @ \cup {s}] \in WireSpecs
      BY DEF WiringTyped, WireSpecs
  <2> QED BY <1>1, <1>2, <2>1, <2>2 DEF To
<1>3. CASE From
  <2>1. ASSUME NEW s \in WireSources PROVE [wire EXCEPT !.sources = @ \cup {s}] \in WireSpecs
      BY DEF WiringTyped, WireSpecs
  <2> QED BY <1>1, <1>3, <2>1 DEF From
<1>4. CASE WithLatest
  <2>1. ASSUME NEW ts \in SUBSET Types PROVE [wire EXCEPT !.joins = ts] \in WireSpecs
      BY DEF WiringTyped, WireSpecs
  <2> QED BY <1>1, <1>4, <2>1 DEF WithLatest
<1>5. CASE Durable \/ AsLatest \/ When \/ Debounce \/ FanOutPer \/ Retry \/ OnError
  <2>1. /\ [wire EXCEPT !.durable = TRUE] \in WireSpecs /\ [wire EXCEPT !.latest = TRUE] \in WireSpecs
        /\ [wire EXCEPT !.when = TRUE] \in WireSpecs /\ [wire EXCEPT !.debounce = TRUE] \in WireSpecs
        /\ [wire EXCEPT !.fan = TRUE] \in WireSpecs /\ [wire EXCEPT !.retry = TRUE] \in WireSpecs
        /\ [wire EXCEPT !.on_error = "swallow_and_log"] \in WireSpecs
      BY DEF WiringTyped, WireSpecs
  <2> QED BY <1>1, <1>5, <2>1 DEF Durable, AsLatest, When, Debounce, FanOutPer, Retry, OnError
<1>6. CASE Compile
    BY <1>6 DEF Compile, WiringTyped
<1>7. CASE UNCHANGED wiringVars
    BY <1>7 DEF wiringVars, WiringTyped
<1> QED BY <1>2, <1>3, <1>4, <1>5, <1>6, <1>7 DEF WiringNext

\* Whatever is called on it, a wire under construction is a WireSpec of data classes and
\* functions there are (wire.py, graph.py).
THEOREM WiringStaysTyped == WiringSpec => []WiringTypeOK
<1>1. WiringInit => WiringTyped
  <2> SUFFICES ASSUME WiringInit PROVE WiringTyped
      OBVIOUS
  <2>1. PICK t \in Types : wire = NewWire(t)
      BY DEF WiringInit
  <2> QED BY <2>1, WiringAssumption DEF WiringInit, NewWire, WiringTyped, WireSpecs
<1>2. WiringTyped => WiringTypeOK
    BY DEF WiringTyped, WiringTypeOK, WireSpecs
<1> QED BY <1>1, <1>2, WiringTypedStep, PTL DEF WiringSpec

BootsTyped == boots \in 0 .. MaxBoots /\ made \subseteq DOMAIN Releases

LEMMA BootsTypedStep == SchemaIInv /\ BootsTyped /\ [SchemaNext]_schemaVars => BootsTyped'
<1> SUFFICES ASSUME SchemaIInv, BootsTyped, [SchemaNext]_schemaVars PROVE BootsTyped'
    OBVIOUS
<1>1. ASSUME NEW p \in Pods, NEW r \in DOMAIN Releases, PodBoots(p, r) PROVE BootsTyped'
    BY <1>1, SchemaAssumption DEF PodBoots, BootsTyped
<1>2. ASSUME NEW p \in Pods, PlanMigration(p) \/ PodDies(p) PROVE BootsTyped'
    BY <1>2 DEF PlanMigration, PodDies, BootsTyped
<1>3. ASSUME NEW p \in Pods, ApplyMigration(p) PROVE BootsTyped'
  <2>1. pod[p].release \in DOMAIN Releases
      BY <1>3 DEF ApplyMigration, SchemaIInv, PodInv, IsPod
  <2> QED BY <1>3, <2>1 DEF ApplyMigration, BootsTyped
<1>4. CASE UNCHANGED schemaVars
    BY <1>4 DEF schemaVars, BootsTyped
<1> QED BY <1>1, <1>2, <1>3, <1>4 DEF SchemaNext

\* A pod is at a step of its migration, and only releases there are have migrated
\* (migrator.py).
THEOREM SchemaStaysTyped == SchemaSpec => []SchemaTypeOK
<1>1. SchemaInit => BootsTyped
    BY SchemaAssumption DEF SchemaInit, BootsTyped
<1>2. SchemaIInv /\ BootsTyped => SchemaTypeOK
    BY DEF SchemaIInv, PodInv, IsPod, BootsTyped, SchemaTypeOK
<1> QED BY <1>1, <1>2, BootsTypedStep, SchemaInitHolds, SchemaStep, PTL DEF SchemaSpec

\* An emit is at one of its wires or past the last.
InRange(c) == calls[c].wire \in 1 .. Len(wiring.wires) + 1

LEMMA InRangeStays ==
    ASSUME EmissionTyped, \A c \in Emits : InRange(c), wiring' = wiring, NEW d \in Emits, NEW new, Is(d, new),
           "wire" \in DOMAIN new => new["wire"] \in {calls[d].wire, calls[d].wire + 1} /\ calls[d].wire <= Len(wiring.wires)
    PROVE  \A c \in Emits : InRange(c)'
<1>1. /\ \A c \in Emits \ {d} : calls'[c] = calls[c]
      /\ calls'[d] = [f \in CallFields |-> IF f \in DOMAIN new THEN new[f] ELSE calls[d][f]]
    BY IsEffect
<1>2. calls'[d].wire = IF "wire" \in DOMAIN new THEN new["wire"] ELSE calls[d].wire
    BY <1>1 DEF CallFields
<1>3. Len(wiring.wires) \in Nat /\ calls[d].wire \in Nat
    BY EmissionAssumption DEF EmissionTyped, Wired, CallStates
<1>4. InRange(d)'
    BY <1>2, <1>3 DEF InRange
<1> QED BY <1>1, <1>4 DEF InRange

LEMMA InRangeStep ==
    EmissionIInv /\ (\A c \in Emits : InRange(c)) /\ [EmissionNext]_emitVars => (\A c \in Emits : InRange(c))'
<1> SUFFICES ASSUME EmissionIInv, \A c \in Emits : InRange(c), [EmissionNext]_emitVars
             PROVE  \A c \in Emits : InRange(c)'
    OBVIOUS
<1> DEFINE Same(d, new) == Is(d, new) /\ "wire" \notin DOMAIN new /\ wiring' = wiring
           Advances(d, new) == Is(d, new) /\ new["wire"] \in {calls[d].wire, calls[d].wire + 1}
                            /\ calls[d].wire <= Len(wiring.wires) /\ wiring' = wiring
<1>0. EmissionTyped
    BY DEF EmissionIInv
<1>1. ASSUME NEW d \in Emits, NEW new, Same(d, new) \/ Advances(d, new) PROVE \A c \in Emits : InRange(c)'
    BY <1>0, <1>1, InRangeStays
<1>2. ASSUME NEW d \in Emits, wiring' = wiring,
             \/ \E pc : Is(d, [pc |-> pc])
             \/ \E pc, x : Is(d, [pc |-> pc, out |-> x]) \/ Is(d, [pc |-> pc, keys |-> x])
             \/ \E x : Is(d, [keys |-> x]) \/ Is(d, [wait |-> x])
             \/ \E x, y, z : Is(d, [pc |-> x, wait |-> y, out |-> z]) \/ Is(d, [wait |-> x, out |-> y, pc |-> z])
             \/ \E x, y, z : Is(d, [pc |-> x, wait |-> y, key |-> z])
      PROVE  \A c \in Emits : InRange(c)'
  <2>1. \E new : Same(d, new)
      BY <1>2
  <2> QED BY <1>1, <2>1
<1>3. ASSUME NEW d \in Emits, wiring' = wiring, calls[d].wire <= Len(wiring.wires), Is(d, NextWire(d))
      PROVE  \A c \in Emits : InRange(c)'
  <2>1. NextWire(d)["wire"] = calls[d].wire + 1
      BY DEF NextWire
  <2> QED BY <1>1, <1>3, <2>1
<1> HIDE DEF Same, Advances
<1>4. ASSUME NEW d \in Emits, Emit(d) \/ EmitAndWait(d) \/ EmitDelayed(d) \/ DelayOver(d)
      PROVE  \A c \in Emits : InRange(c)'
    BY <1>2, <1>4 DEF Emit, EmitAndWait, EmitDelayed, DelayOver
<1>5. ASSUME NEW d \in Emits, AppendLatest(d) \/ ForeignNode(d) \/ Fan(d) \/ FanKey(d) \/ Returns(d)
      PROVE  \A c \in Emits : InRange(c)'
    BY <1>2, <1>5 DEF AppendLatest, ForeignNode, Fan, FanKey, Returns
<1>6. ASSUME NEW d \in Emits, SkipWire(d) \/ PublishWire(d)
      PROVE  \A c \in Emits : InRange(c)'
    BY <1>2, <1>3, <1>6 DEF SkipWire, PublishWire, AtWire
<1>7. ASSUME NEW d \in Emits, FanEnds(d) \/ Sink(d)
      PROVE  \A c \in Emits : InRange(c)'
  <2>1. calls[d].wire <= Len(wiring.wires)
      BY <1>7 DEF FanEnds, Sink, AtStep, EmissionIInv, InOrder
  <2> QED BY <1>2, <1>3, <1>7, <2>1 DEF FanEnds, Sink
<1>8. ASSUME NEW d \in Emits, Race(d) \/ Expires(d)
      PROVE  \A c \in Emits : InRange(c)'
    BY <1>2, <1>8 DEF Race, Expires, Ends
\* A reply that is noted moves nobody.
<1>9. ASSUME NEW k \in Correlations, NEW said, said = Notified(k) \/ said = calls
      PROVE  DOMAIN said = Emits /\ \A c \in Emits : said[c].wire = calls[c].wire /\ DOMAIN said[c] = CallFields
    BY <1>0, <1>9 DEF Notified, EmissionTyped, CallStates, CallFields
<1>10. ASSUME NEW d \in Emits, CallNode(d) PROVE \A c \in Emits : InRange(c)'
  <2>1. wiring' = wiring /\ calls[d].wire <= Len(wiring.wires)
      BY <1>10 DEF CallNode, AtWire
  <2>2. \/ \E pc : Is(d, [pc |-> pc])
        \/ \E said \in {calls} \cup {Notified(k) : k \in Replies(d)} : \E p :
              \E w \in {calls[d].wire, calls[d].wire + 1} : calls' = [said EXCEPT ![d].pc = p, ![d].wire = w]
    <3>1. CASE ~Resolves(d)
        BY <1>10, <3>1 DEF CallNode
    <3>2. CASE Resolves(d) /\ Wire(d).sink
        BY <1>10, <3>2 DEF CallNode
    <3>3. CASE Resolves(d) /\ ~Wire(d).sink
        BY <1>10, <3>3 DEF CallNode, NextWire
    <3> QED BY <3>1, <3>2, <3>3
  <2>3. ASSUME NEW said \in {calls} \cup {Notified(k) : k \in Replies(d)}, NEW p,
               NEW w \in {calls[d].wire, calls[d].wire + 1}, calls' = [said EXCEPT ![d].pc = p, ![d].wire = w]
        PROVE  \A c \in Emits : InRange(c)'
    <3>1. DOMAIN said = Emits /\ \A c \in Emits : said[c].wire = calls[c].wire /\ DOMAIN said[c] = CallFields
      <4>1. CASE said = calls
          BY <1>0, <4>1 DEF EmissionTyped, CallStates, CallFields
      <4>2. CASE \E k \in Replies(d) : said = Notified(k)
          BY <1>9, <4>2 DEF Replies
      <4> QED BY <4>1, <4>2
    <3>2. calls'[d].wire = w /\ \A c \in Emits \ {d} : calls'[c] = said[c]
        BY <2>3, <3>1 DEF CallFields
    <3>3. Len(wiring.wires) \in Nat /\ calls[d].wire \in Nat
        BY <1>0, EmissionAssumption DEF EmissionTyped, Wired, CallStates
    <3>4. InRange(d)'
        BY <2>1, <3>2, <3>3 DEF InRange
    <3> QED BY <2>1, <3>1, <3>2, <3>4 DEF InRange
  <2> QED BY <1>2, <2>1, <2>2, <2>3
<1>11. ASSUME NEW k \in Correlations, LateReply(k) PROVE \A c \in Emits : InRange(c)'
  <2>1. calls' = Notified(k) /\ wiring' = wiring
      BY <1>11 DEF LateReply
  <2> QED BY <1>9, <2>1 DEF InRange
<1>12. CASE StopEmits
  <2>1. ASSUME NEW c \in Emits PROVE calls'[c].wire = calls[c].wire
      BY <1>0, <1>12, ZenonT(40) DEF StopEmits, EmissionTyped, CallStates
  <2> QED BY <1>12, <2>1 DEF StopEmits, InRange
<1>13. CASE UNCHANGED emitVars
    BY <1>13 DEF emitVars, InRange
<1> QED BY <1>4, <1>5, <1>6, <1>7, <1>8, <1>10, <1>11, <1>12, <1>13 DEF EmissionNext, CallStep

\* An emit stays within its wires, a waiter is a call, a row is of an emit (emit.py,
\* emit_wait.py).
THEOREM EmissionStaysTyped == EmissionSpec => []EmissionTypeOK
<1>1. EmissionInit => \A c \in Emits : InRange(c)
  <2> SUFFICES ASSUME EmissionInit, NEW c \in Emits PROVE InRange(c)
      OBVIOUS
  <2>1. calls[c].wire = 1 /\ Len(wiring.wires) \in Nat
      BY EmissionAssumption DEF EmissionInit, NoEmit, Wired
  <2> QED BY <2>1 DEF InRange
<1>2. EmissionIInv /\ (\A c \in Emits : InRange(c)) => EmissionTypeOK
  <2> SUFFICES ASSUME EmissionTyped, \A c \in Emits : InRange(c) PROVE EmissionTypeOK
      BY DEF EmissionIInv
  <2>1. ASSUME NEW c \in Emits
        PROVE  /\ calls[c].pc \in Steps /\ calls[c].keys \subseteq FanKeys
               /\ calls[c].wait \in {"no", "over"} \cup Waits /\ calls[c].out \in Outs
      BY DEF EmissionTyped, CallStates
  <2> QED BY <2>1 DEF EmissionTyped, EmissionTypeOK, InRange, Steps, Waits
<1> QED BY <1>1, <1>2, InRangeStep, EmissionInitHolds, EmissionStep, PTL DEF EmissionSpec
================================================================================
