--------------------------- MODULE WorldRound_proofs ---------------------------
(***************************************************************************)
(* Proofs about WorldRound, for every number of runners, acts, days and    *)
(* failures, and every limit of a pull.                                    *)
(***************************************************************************)
EXTENDS WorldRound, TLAPS, FiniteSetTheorems, WellFoundedInduction

--------------------------------------------------------------------------------
\* The inductive invariant.

Finished == [act : SUBSET (Days \X Acts), briefing : SUBSET Days, roster : SUBSET Days,
             reflection : SUBSET Days, digest : SUBSET Days, unrecorded : SUBSET Days]

Failed == \E e \in Events \ {"tell", "arc"} : used[e] > 0

Accounted == overtaken \cup Deliberated

\* A round holds the lock until it is idle again.
Locked == \A r \in Runners : at[r] # "idle" => worldLock = r

\* Only a row that exists has marks, none of a day to come; what was digested was
\* reflected on; the wake time is one that was used.
RowIsSound ==
    /\ \A k \in Marks : row[k] <= today /\ (row[k] # 0 => row.exists)
    /\ row.digested <= row.reflected
    /\ row.next <= wakes

\* A marker names acts that were accounted for; a day has one under a name, and only
\* one that ends behind the cursor: that of the round which did not move it.
MarkersAreSound ==
    /\ \A d \in Days : \A m \in markers[d] :
           /\ m.rid < m.end
           /\ 1 .. m.end \subseteq Accounted
           /\ \A n \in markers[d] : m.rid = n.rid => m = n
    /\ \A d \in Days : d > today => markers[d] = {}
    /\ \A m \in markers[today] : m.end > row.cursor => m.rid = row.cursor

\* What was deliberated has a marker of its day, unless the day has lost one or the
\* round is about to write it.
Remembered(d, a) ==
    \/ d \in done.unrecorded
    \/ \E m \in markers[d] : a <= m.end
    \/ \E r \in Runners : at[r] = "persist" /\ rnd[r].day = d /\ a \in rnd[r].batch

DeliberatedIsRemembered ==
    \A d \in Days, a \in Acts : <<d, a>> \in done.act => Remembered(d, a)

Reflecting == {"reflect", "mark"}
Closing == {"persist", "close"}
Running == {"run", "deliver"}
Opened == Reflecting \cup Running \cup Closing

\* The day of a round is the newest one that has marks or markers.
DayIsNewest(r) ==
    /\ rnd[r].day <= today
    /\ \A k \in Marks : row[k] <= rnd[r].day
    /\ \A d \in Days : d > rnd[r].day => markers[d] = {}

\* The batch of a round starts at the cursor and has all behind it up to its end
\* that could be read; until it is recorded no marker reaches into it.
BatchIsNext(r) ==
    LET x == rnd[r] IN
    /\ x.batch # {} => x.rid = row.cursor
    /\ \A a \in x.batch : a > row.cursor
    /\ \A a \in 1 .. Latest(x.batch) : a <= row.cursor \/ a \in x.batch \/ a \in overtaken
    /\ x.batch # {} => \A m \in markers[x.day] :
           m.end <= row.cursor \/ (at[r] = "close" /\ m.end = Latest(x.batch))

\* A mark the round read as owed still is, and where it is now it has done what it
\* is about to mark.
StepIsEarned(r) ==
    LET x == rnd[r] IN
    /\ Briefed(r) => row.materials # x.day
    /\ Introduced(r) => row.roster # x.day
    /\ at[r] \in Reflecting => row.reflected # x.day \/ (x.briefing /\ row.digested # x.day)
    /\ at[r] = "mark" => /\ x.day \in done.reflection
                         /\ x.briefing => x.day \in done.digest
    /\ at[r] \in Running => x.arc = arc
    /\ at[r] = "deliver" => x.visit \in narrated
    /\ at[r] \in Closing => /\ {x.day} \X x.batch \subseteq done.act
                            /\ Briefed(r) => x.day \in done.briefing
                            /\ Introduced(r) => x.day \in done.roster

\* A round that sleeps has a target left, and one that emits has taken it.
SleepIsBounded(r) ==
    /\ at[r] # "emit" /\ rnd[r].sleeps => wakes < MaxWakes
    /\ at[r] = "wake" => rnd[r].sleeps
    /\ at[r] = "emit" => wakes > 0

RoundIsSound(r) ==
    at[r] # "idle" =>
        /\ DayIsNewest(r)
        /\ at[r] \in Opened => BatchIsNext(r) /\ StepIsEarned(r)
        /\ SleepIsBounded(r)

\* As long as nothing fails, a day has no input twice: the marks cover all that was
\* input, but for what a round in flight is about to mark.
NothingTwice ==
    ~Failed =>
        /\ twice = {} /\ done.unrecorded = {}
        /\ \A r \in Runners : at[r] \notin Reflecting \cup {"idle"} => row.exists
        /\ \A d \in done.briefing : d <= row.materials
               \/ \E r \in Runners : at[r] \in Closing /\ Briefed(r) /\ rnd[r].day = d
        /\ \A d \in done.roster : d <= row.roster
               \/ \E r \in Runners : at[r] \in Closing /\ Introduced(r) /\ rnd[r].day = d
        /\ \A d \in done.reflection : d <= row.reflected
               \/ \E r \in Runners : at[r] = "mark" /\ rnd[r].day = d
        /\ \A d \in done.digest : d <= row.digested
               \/ \E r \in Runners : at[r] = "mark" /\ rnd[r].briefing /\ rnd[r].day = d

MailIsSound == \A e \in mailed : e.kind = e.id.kind

WorldIInv ==
    /\ WorldTypeOK /\ done \in Finished
    /\ Locked
    /\ RowIsSound /\ MarkersAreSound /\ DeliberatedIsRemembered
    /\ \A r \in Runners : RoundIsSound(r)
    /\ NothingTwice
    /\ WorldCanBeTrusted /\ MailIsSound

--------------------------------------------------------------------------------
\* The operators of the round.

\* The last act of a batch is in it, and behind all others.
LEMMA LastOf ==
    ASSUME WorldAssumption, NEW S \in SUBSET Acts, S # {}
    PROVE  Latest(S) \in S /\ \A b \in S : b <= Latest(S)
<1> DEFINE below == {MaxActs - a : a \in S}
<1>0. MaxActs \in Nat /\ \A a \in S : a \in 1 .. MaxActs
    BY DEF WorldAssumption, Acts
<1>1. below \subseteq Nat /\ below # {}
    BY <1>0
<1>2. \E x \in below : \A y \in below : ~ (<<y, x>> \in OpToRel(<, Nat))
    BY <1>1, NatLessThanWellFounded, WFMin
<1>3. PICK x \in below : \A y \in below : ~ (y < x)
    BY <1>1, <1>2 DEF OpToRel
<1>4. PICK a \in S : x = MaxActs - a
    OBVIOUS
<1>5. \A b \in S : b <= a
  <2>1. SUFFICES ASSUME NEW b \in S PROVE b <= a
      OBVIOUS
  <2>2. MaxActs - b \in below
      OBVIOUS
  <2> QED BY <1>0, <1>3, <1>4, <2>2
<1> QED BY <1>4, <1>5 DEF Latest

LEMMA NoneIsLast == Latest({}) = 0
BY DEF Latest

\* What list_recent_acts leaves out, up to the end of what it returns, was consumed or
\* cannot be read.
LEMMA PullHasNoGaps ==
    ASSUME WorldAssumption, WorldTypeOK
    PROVE  /\ Batch \in SUBSET Acts
           /\ \A a \in Batch : a > row.cursor
           /\ Latest(Batch) \in 0 .. MaxActs
           /\ \A a \in 1 .. Latest(Batch) : a <= row.cursor \/ a \in Batch \/ a \notin committed
<1> DEFINE behind == {a \in committed : a > row.cursor}
           before(a) == {b \in behind : b < a}
<1>1. MaxActs \in Nat /\ begun \in 0 .. MaxActs /\ committed \subseteq 1 .. begun
      /\ row.cursor \in 0 .. MaxActs /\ PullLimit \in Nat
    BY DEF WorldAssumption, WorldTypeOK, Rows
<1>2. behind \subseteq Acts
  <2>1. ASSUME NEW a \in committed PROVE a \in 1 .. MaxActs
      BY <1>1
  <2> QED BY <2>1 DEF Acts
<1>3. Batch = {a \in behind : Cardinality(before(a)) < PullLimit}
    BY DEF Batch
<1>4. IsFiniteSet(Acts)
    BY <1>1, FS_Interval DEF Acts
<1>5. Batch \in SUBSET Acts /\ \A a \in Batch : a > row.cursor
    BY <1>2, <1>3
<1>6. CASE Batch = {}
    BY <1>1, <1>5, <1>6, NoneIsLast
<1>7. CASE Batch # {}
  <2>1. Latest(Batch) \in Batch
      BY <1>5, <1>7, LastOf
  <2>0. Latest(Batch) \in 1 .. MaxActs /\ Latest(Batch) \in Nat
    <3>1. Latest(Batch) \in 1 .. MaxActs
        BY <1>5, <2>1 DEF Acts
    <3> QED BY <1>1, <3>1
  <2>2. ASSUME NEW a \in 1 .. Latest(Batch), a > row.cursor, a \in committed
        PROVE  a \in Batch
    <3>1. a \in behind
        BY <2>2
    <3>2. before(a) \subseteq before(Latest(Batch)) /\ before(Latest(Batch)) \subseteq Acts
      <4>1. Latest(Batch) \in Nat /\ behind \subseteq Nat
          BY <1>1, <1>2, <2>0 DEF Acts
      <4>2. a \in Nat /\ a <= Latest(Batch)
          BY <2>0
      <4>3. \A b \in behind : b < a => b < Latest(Batch)
          BY <4>1, <4>2
      <4> QED BY <1>2, <4>3
    <3>3. IsFiniteSet(before(Latest(Batch)))
        BY <1>4, <3>2, FS_Subset
    <3>4. /\ IsFiniteSet(before(a))
          /\ Cardinality(before(a)) <= Cardinality(before(Latest(Batch)))
        BY <3>2, <3>3, FS_Subset
    <3>5. Cardinality(before(a)) \in Nat /\ Cardinality(before(Latest(Batch))) \in Nat
        BY <3>3, <3>4, FS_CardinalityType
    <3>6. Cardinality(before(Latest(Batch))) < PullLimit
        BY <1>3, <2>1
    <3>7. Cardinality(before(a)) < PullLimit
        BY <1>1, <3>4, <3>5, <3>6
    <3> QED BY <1>3, <3>1, <3>7
  <2>3. \A a \in 1 .. Latest(Batch) : a <= row.cursor \/ a \in Batch \/ a \notin committed
    <3>1. SUFFICES ASSUME NEW a \in 1 .. Latest(Batch), ~(a <= row.cursor), a \in committed
                   PROVE  a \in Batch
        OBVIOUS
    <3>2. a > row.cursor
        BY <1>1, <2>0, <3>1
    <3> QED BY <2>2, <3>1, <3>2
  <2>4. Latest(Batch) \in 0 .. MaxActs
      BY <1>1, <2>0
  <2> QED BY <1>5, <2>3, <2>4
<1> QED BY <1>6, <1>7

Fields == {"exists", "detail", "next", "cursor", "materials", "roster", "reflected", "digested"}

\* A version keeps every field but those it was given, and there is a row from then on.
LEMMA Appended ==
    ASSUME row \in Rows, NEW new, DOMAIN new \subseteq Fields \ {"exists"}, AppendRow(new)
    PROVE  /\ DOMAIN row' = Fields
           /\ row' = [f \in Fields |-> row'[f]]
           /\ row'.exists = TRUE
           /\ \A f \in Fields \ {"exists"} :
                  row'[f] = IF f \in DOMAIN new THEN new[f] ELSE row[f]
<1>1. DOMAIN row = Fields
    BY DEF Rows, Fields
<1>2. row' = [f \in Fields |-> IF f \in DOMAIN new THEN new[f]
                               ELSE IF f = "exists" THEN TRUE ELSE row[f]]
    BY <1>1 DEF AppendRow
<1> HIDE DEF AppendRow
<1>3. "exists" \in Fields
    BY DEF Fields
<1> QED BY <1>2, <1>3

LEMMA RowType ==
    ASSUME NEW x, x = [f \in Fields |-> x[f]], x.exists \in BOOLEAN, x.detail \in BOOLEAN,
           x.next \in 0 .. MaxWakes, x.cursor \in 0 .. MaxActs,
           x.materials \in 0 .. MaxDay, x.roster \in 0 .. MaxDay,
           x.reflected \in 0 .. MaxDay, x.digested \in 0 .. MaxDay
    PROVE  x \in Rows
BY DEF Rows, Fields

--------------------------------------------------------------------------------
\* What is outside the rounds.

LEMMA NobodyIsUp ==
    ASSUME WorldAssumption, Locked, worldLock \in {Free, Orphan}
    PROVE  \A r \in Runners : at[r] = "idle"
BY DEF WorldAssumption, Locked

LEMMA OneIsUp ==
    ASSUME Locked, NEW r \in Runners, at[r] # "idle"
    PROVE  \A q \in Runners : q # r => at[q] = "idle"
BY DEF Locked

\* Numbers a proof about days and acts needs.
LEMMA Numbers ==
    ASSUME WorldAssumption
    PROVE  /\ MaxActs \in Nat /\ MaxDay \in Nat /\ MaxWakes \in Nat
           /\ Acts \subseteq Nat /\ Days \subseteq Nat /\ 0 \notin Days
BY DEF WorldAssumption, Acts, Days

\* Time, commits and wakes to come leave what the rounds hold true as it is.
LEMMA Around ==
    ASSUME WorldAssumption, WorldIInv, WorldTypeOK', Locked', today <= today',
           UNCHANGED <<row, markers, at, rnd, told, history, used, wakes>>
    PROVE  WorldIInv'
<1>1. /\ today \in Days /\ today' \in Days /\ today \in Nat /\ today' \in Nat
      /\ \A k \in Marks : row[k] \in 0 .. MaxDay
      /\ \A r \in Runners : rnd[r].day \in Days
      /\ Days \subseteq Nat
    BY Numbers DEF WorldIInv, WorldTypeOK, Rows, Marks, Rounds, Days
<1>2. done' \in Finished
    BY DEF WorldIInv, history, Finished
<1>3. RowIsSound'
  <2>1. \A k \in Marks : row[k] <= today'
    <3>1. SUFFICES ASSUME NEW k \in Marks PROVE row[k] <= today'
        OBVIOUS
    <3>2. row[k] <= today /\ row[k] \in Nat
        BY <1>1 DEF WorldIInv, RowIsSound
    <3> QED BY <1>1, <3>2
  <2> QED BY <2>1 DEF WorldIInv, RowIsSound
<1>4. MarkersAreSound'
  <2>1. \A d \in Days : d > today' => markers[d] = {}
      BY <1>1 DEF WorldIInv, MarkersAreSound
  <2>2. \A m \in markers[today'] : m.end > row.cursor => m.rid = row.cursor
    <3>1. CASE today' = today
        BY <3>1 DEF WorldIInv, MarkersAreSound
    <3>2. CASE today' # today
        BY <1>1, <3>2 DEF WorldIInv, MarkersAreSound
    <3> QED BY <3>1, <3>2
  <2> QED BY <2>1, <2>2 DEF WorldIInv, MarkersAreSound, Accounted, Deliberated, history
<1>5. DeliberatedIsRemembered'
    BY DEF WorldIInv, DeliberatedIsRemembered, Remembered, history
<1>6. \A r \in Runners : RoundIsSound(r)'
  <2>1. SUFFICES ASSUME NEW r \in Runners, at[r] # "idle" PROVE RoundIsSound(r)'
      BY DEF RoundIsSound
  <2>2. RoundIsSound(r)
      BY DEF WorldIInv
  <2>3. DayIsNewest(r)'
    <3>1. DayIsNewest(r)
        BY <2>1, <2>2 DEF RoundIsSound
    <3>2. rnd[r].day <= today'
      <4>1. rnd[r].day \in Nat /\ rnd[r].day <= today
          BY <1>1, <3>1 DEF DayIsNewest
      <4> QED BY <1>1, <4>1
    <3> QED BY <3>1, <3>2 DEF DayIsNewest
  <2>4. BatchIsNext(r) => BatchIsNext(r)'
      BY DEF BatchIsNext, history
  <2>5. StepIsEarned(r) => StepIsEarned(r)'
      BY DEF StepIsEarned, Briefed, Introduced, Stimulus, history, told
  <2>6. SleepIsBounded(r)'
      BY <2>1, <2>2 DEF RoundIsSound, SleepIsBounded
  <2> QED BY <2>1, <2>2, <2>3, <2>4, <2>5, <2>6 DEF RoundIsSound
<1>7. NothingTwice'
    BY DEF WorldIInv, NothingTwice, Failed, Briefed, Introduced, Stimulus, history
<1>8. WorldCanBeTrusted' /\ MailIsSound'
    BY DEF WorldIInv, WorldCanBeTrusted, MarksAreEarned, Deliberated, InputsComeOnce,
           ToldIsKept, RunsOnTheNewestArc, Stimulus, MailIsSound, history, told
<1> QED BY <1>2, <1>3, <1>4, <1>5, <1>6, <1>7, <1>8 DEF WorldIInv

LEMMA BeginActStep ==
    ASSUME WorldAssumption, WorldIInv, BeginAct
    PROVE  WorldIInv'
<1>1. begun' \in 0 .. MaxActs /\ committed \subseteq 1 .. begun'
  <2>1. begun \in 0 .. MaxActs /\ committed \subseteq 1 .. begun /\ MaxActs \in Nat
      BY Numbers DEF WorldIInv, WorldTypeOK
  <2>2. begun' = begun + 1 /\ begun < MaxActs
      BY DEF BeginAct
  <2>3. 1 .. begun \subseteq 1 .. begun'
      BY <2>1, <2>2
  <2> QED BY <2>1, <2>2, <2>3
<1>2. UNCHANGED <<committed, row, markers, clock, wake, runner, told, history, used>>
    BY DEF BeginAct
<1>3. WorldTypeOK' /\ Locked'
    BY <1>1, <1>2 DEF WorldIInv, WorldTypeOK, Locked, clock, wake, runner, told, history
<1>4. today <= today'
    BY <1>2, Numbers DEF WorldIInv, WorldTypeOK, clock, Days
<1> QED BY <1>2, <1>3, <1>4, Around DEF clock, wake, runner

LEMMA CommitActStep ==
    ASSUME WorldAssumption, WorldIInv, NEW a \in Acts, CommitAct(a)
    PROVE  WorldIInv'
<1>2. UNCHANGED <<begun, row, markers, clock, wake, runner, told, history, used>>
    BY DEF CommitAct
<1>3. WorldTypeOK' /\ Locked'
    BY <1>2 DEF CommitAct, WorldIInv, WorldTypeOK, Locked, clock, wake, runner, told, history
<1>4. today <= today'
    BY <1>2, Numbers DEF WorldIInv, WorldTypeOK, clock, Days
<1> QED BY <1>2, <1>3, <1>4, Around DEF clock, wake, runner

LEMMA MaterialsStep ==
    ASSUME WorldAssumption, WorldIInv, MaterialsLand
    PROVE  WorldIInv'
<1>2. UNCHANGED <<acts, row, markers, today, wake, runner, told, history, used>>
    BY DEF MaterialsLand
<1>1. landed' \subseteq 1 .. today
  <2>1. today \in 1 .. today
      BY Numbers DEF WorldIInv, WorldTypeOK, Days
  <2> QED BY <2>1 DEF WorldIInv, WorldTypeOK, MaterialsLand
<1>3. WorldTypeOK' /\ Locked'
    BY <1>1, <1>2 DEF WorldIInv, WorldTypeOK, Locked, acts, wake, runner, told, history
<1>4. today <= today'
    BY <1>2, Numbers DEF WorldIInv, WorldTypeOK, Days
<1> QED BY <1>2, <1>3, <1>4, Around DEF wake, runner

LEMMA MidnightStep ==
    ASSUME WorldAssumption, WorldIInv, Midnight
    PROVE  WorldIInv'
<1>2. UNCHANGED <<acts, row, markers, landed, wake, runner, told, history, used>>
    BY DEF Midnight
<1>1. today' \in Days /\ landed \subseteq 1 .. today' /\ today <= today'
  <2>1. today \in 1 .. MaxDay /\ landed \subseteq 1 .. today /\ MaxDay \in Nat
      BY Numbers DEF WorldIInv, WorldTypeOK, Days
  <2>2. today' = today + 1 /\ today < MaxDay
      BY DEF Midnight
  <2>3. 1 .. today \subseteq 1 .. today'
      BY <2>1, <2>2
  <2> QED BY <2>1, <2>2, <2>3 DEF Days
<1>3. WorldTypeOK' /\ Locked'
    BY <1>1, <1>2 DEF WorldIInv, WorldTypeOK, Locked, acts, wake, runner, told, history
<1> QED BY <1>1, <1>2, <1>3, Around DEF wake, runner

LEMMA WakeTimeStep ==
    ASSUME WorldAssumption, WorldIInv, WakeTimeComes
    PROVE  WorldIInv'
<1>2. UNCHANGED <<acts, row, markers, clock, selfTicks, wakes, runner, told, history, used>>
    BY DEF WakeTimeComes
<1>3. WorldTypeOK' /\ Locked'
    BY <1>2 DEF WakeTimeComes, WorldIInv, WorldTypeOK, Locked, acts, clock, runner, told, history
<1>4. today <= today'
    BY <1>2, Numbers DEF WorldIInv, WorldTypeOK, clock, Days
<1> QED BY <1>2, <1>3, <1>4, Around DEF clock, runner

LEMMA LockExpiresStep ==
    ASSUME WorldAssumption, WorldIInv, WorldLockExpires
    PROVE  WorldIInv'
<1>2. UNCHANGED <<acts, row, markers, clock, wake, at, rnd, told, history, used>>
    BY DEF WorldLockExpires
<1>1. Locked'
    BY <1>2, NobodyIsUp DEF WorldIInv, WorldLockExpires, Locked
<1>3. WorldTypeOK'
    BY <1>2 DEF WorldLockExpires, WorldIInv, WorldTypeOK, acts, clock, wake, told, history
<1>4. today <= today'
    BY <1>2, Numbers DEF WorldIInv, WorldTypeOK, clock, Days
<1> QED BY <1>1, <1>2, <1>3, <1>4, Around DEF clock, wake

--------------------------------------------------------------------------------
\* A wake.

\* The cursor goes to the end a marker under the name of the cursor has.
LEMMA SkipStep ==
    ASSUME WorldAssumption, WorldIInv, SkipRecorded, row.exists,
           worldLock = Free, selfTicks' \subseteq 1 .. wakes,
           UNCHANGED <<acts, markers, clock, reached, wakes, told, done, twice, used>>
    PROVE  WorldIInv'
<1>1. PICK m \in Recorded : AppendIfRow([cursor |-> m.end])
    BY DEF SkipRecorded
<1>2. m \in markers[today] /\ m.rid = RoundId
    BY <1>1 DEF Recorded
<1>3. /\ row \in Rows /\ today \in Days /\ m \in Marker /\ used["tell"] \in Nat
      /\ \A n \in markers[today] : n.end \in Nat
    <2>1. \A n \in markers[today] : n \in Marker
        BY DEF WorldIInv, WorldTypeOK
    <2>2. \A n \in Marker : n.end \in Nat
        BY Numbers DEF Marker
    <2> QED BY <1>2, <2>1, <2>2 DEF WorldIInv, WorldTypeOK, Events
<1>4. m.rid = row.cursor
  <2>1. m.rid >= 0
      BY <1>3 DEF Marker
  <2> QED BY <1>2, <1>3, <2>1 DEF RoundId
<1>5. /\ DOMAIN row' = Fields /\ row' = [f \in Fields |-> row'[f]] /\ row'.exists = TRUE
      /\ \A f \in Fields \ {"exists"} :
             row'[f] = IF f \in DOMAIN [cursor |-> m.end] THEN [cursor |-> m.end][f] ELSE row[f]
    BY <1>1, <1>3, Appended DEF AppendIfRow, Fields
<1>6. /\ row'.cursor = m.end /\ row'.detail = row.detail /\ row'.next = row.next
      /\ row'.materials = row.materials /\ row'.roster = row.roster
      /\ row'.reflected = row.reflected /\ row'.digested = row.digested
    BY <1>5 DEF Fields
<1>7. row' \in Rows
  <2>1. m.end \in 0 .. MaxActs
      BY <1>3, Numbers DEF Marker, Acts
  <2> QED BY <1>3, <1>5, <1>6, <2>1, RowType DEF Rows
<1>8. \A q \in Runners : at[q] = "idle" /\ at'[q] = "idle"
    BY NobodyIsUp DEF WorldIInv, SkipRecorded, runner
<1>9. WorldTypeOK' /\ done' \in Finished /\ Locked'
    BY <1>7 DEF SkipRecorded, WorldIInv, WorldTypeOK, Locked, Finished, acts, clock, runner, told
<1>10. \A k \in Marks : row'[k] = row[k]
    BY <1>6 DEF Marks
<1>11. RowIsSound'
    BY <1>5, <1>6, <1>10 DEF WorldIInv, RowIsSound, clock
<1>12. MarkersAreSound'
  <2>1. ASSUME NEW n \in markers[today], n.end > row'.cursor PROVE n.rid = row'.cursor
    <3>1. m.rid < m.end /\ m.end \in Nat /\ n.end \in Nat /\ row.cursor \in Nat
        BY <1>2, <1>3, Numbers DEF WorldIInv, MarkersAreSound, Rows
    <3>2. n.end > row.cursor
        BY <1>4, <1>6, <2>1, <3>1
    <3>3. n.rid = m.rid
        BY <1>4, <3>2 DEF WorldIInv, MarkersAreSound
    <3>4. n = m
        BY <1>2, <1>3, <3>3 DEF WorldIInv, MarkersAreSound
    <3> QED BY <1>6, <2>1, <3>1, <3>4
  <2> QED BY <2>1 DEF SkipRecorded, WorldIInv, MarkersAreSound, Accounted, Deliberated, clock
<1>13. DeliberatedIsRemembered'
    BY <1>8 DEF SkipRecorded, WorldIInv, DeliberatedIsRemembered, Remembered
<1>14. \A q \in Runners : RoundIsSound(q)'
    BY <1>8 DEF RoundIsSound
<1>15. NothingTwice'
    BY <1>6, <1>8 DEF WorldIInv, NothingTwice, Failed, Reflecting, Closing
<1>16. WorldCanBeTrusted' /\ MailIsSound'
  <2>1. 1 .. row'.cursor \subseteq overtaken \cup Deliberated
      BY <1>2, <1>3, <1>6 DEF WorldIInv, MarkersAreSound, Accounted
  <2>2. MarksAreEarned'
      BY <1>6, <2>1 DEF SkipRecorded, WorldIInv, WorldCanBeTrusted, MarksAreEarned, Deliberated
  <2> QED BY <1>8, <2>2 DEF SkipRecorded, WorldIInv, WorldCanBeTrusted, InputsComeOnce, ToldIsKept,
             RunsOnTheNewestArc, MailIsSound, told
<1> QED BY <1>9, <1>11, <1>12, <1>13, <1>14, <1>15, <1>16 DEF WorldIInv

\* The round is not in the transcript of today: no marker reaches into its batch.
LEMMA PrepareStep ==
    ASSUME WorldAssumption, WorldIInv, NEW r \in Runners, Prepared(r), Recorded = {},
           worldLock = Free, selfTicks' \subseteq 1 .. wakes,
           UNCHANGED <<acts, markers, clock, reached, wakes, told, done, twice, used>>
    PROVE  WorldIInv'
<1> DEFINE x == [day |-> today, batch |-> Batch, rid |-> RoundId, briefing |-> today \in landed,
                 arc |-> arc, owed |-> Owed, sleeps |-> FALSE, visit |-> 0]
           first == IF Owed \cap {"reflected", "digested"} # {} THEN "reflect" ELSE "run"
<1>1. /\ rnd' = [rnd EXCEPT ![r] = x] /\ at' = [at EXCEPT ![r] = first]
      /\ worldLock' = r /\ row' = row
      /\ overtaken' = overtaken \cup ((1 .. Latest(Batch)) \ committed)
    BY DEF Prepared, Goto
<1>2. /\ row \in Rows /\ today \in Days /\ used["tell"] \in Nat /\ today \in Nat
      /\ arc \in 0 .. Limit["arc"] /\ Limit["tell"] \in Nat
      /\ at \in [Runners -> At] /\ rnd \in [Runners -> Rounds]
    BY Numbers DEF WorldIInv, WorldTypeOK, Events, WorldAssumption
<1>3. /\ Batch \in SUBSET Acts
      /\ \A a \in Batch : a > row.cursor
      /\ Latest(Batch) \in 0 .. MaxActs
      /\ \A a \in 1 .. Latest(Batch) : a <= row.cursor \/ a \in Batch \/ a \notin committed
    BY PullHasNoGaps DEF WorldIInv
<1>4. RoundId \in Int /\ (Batch # {} => RoundId = row.cursor)
    BY <1>2, Numbers DEF RoundId, Rows
<1>5. Owed \in SUBSET Marks
    BY DEF Owed
<1>6. x \in Rounds /\ x.day = today /\ x.batch = Batch /\ x.rid = RoundId
      /\ x.briefing = (today \in landed) /\ x.arc = arc /\ x.owed = Owed
      /\ x.sleeps = FALSE
  <2> HIDE DEF Batch, RoundId, Owed
  <2>2. (today \in landed) \in BOOLEAN /\ 0 \in 0 .. Limit["tell"]
      BY <1>2
  <2>3. x \in Rounds
      BY <1>2, <1>3, <1>4, <1>5, <2>2 DEF Rounds
  <2> QED BY <2>3
<1> HIDE DEF x, first
<1>7. rnd'[r] = x /\ at'[r] = first /\ first \in {"reflect", "run"}
    BY <1>1, <1>2 DEF first
<1>8. \A q \in Runners : at[q] = "idle"
    BY NobodyIsUp DEF WorldIInv
<1>9. \A q \in Runners : q # r => at'[q] = "idle" /\ rnd'[q] = rnd[q]
    BY <1>1, <1>2, <1>8
<1>10. (1 .. Latest(Batch)) \ committed \subseteq Acts
    BY <1>3, Numbers DEF Acts
<1>11. WorldTypeOK' /\ done' \in Finished /\ Locked'
  <2>1. at' \in [Runners -> At] /\ rnd' \in [Runners -> Rounds]
      BY <1>1, <1>2, <1>6, <1>7 DEF At
  <2>2. overtaken' \subseteq Acts
      BY <1>1, <1>10 DEF WorldIInv, WorldTypeOK
  <2> QED BY <1>1, <1>9, <2>1, <2>2 DEF WorldIInv, WorldTypeOK, Locked, Finished, acts, clock, told
<1>12. Accounted \subseteq Accounted' /\ Deliberated' = Deliberated
    BY <1>1 DEF Accounted, Deliberated
<1>13. RowIsSound' /\ MarkersAreSound'
    BY <1>1, <1>12 DEF WorldIInv, RowIsSound, MarkersAreSound, clock
<1>14. DeliberatedIsRemembered'
    BY <1>8 DEF WorldIInv, DeliberatedIsRemembered, Remembered
<1>15. RoundIsSound(r)'
  <2>1. DayIsNewest(r)'
      BY <1>1, <1>2, <1>6, <1>7 DEF WorldIInv, RowIsSound, MarkersAreSound, DayIsNewest, clock
  <2>2. BatchIsNext(r)'
    <3>1. ASSUME NEW m \in markers[today], Batch # {} PROVE m.end <= row.cursor
      <4>1. m \in Marker /\ m.end \in Nat /\ row.cursor \in Nat
          BY <1>2, Numbers DEF WorldIInv, WorldTypeOK, Marker, Rows
      <4>2. m.rid # row.cursor
          BY <1>4, <3>1 DEF Recorded
      <4> QED BY <4>1, <4>2 DEF WorldIInv, MarkersAreSound
    <3>2. markers' = markers
        OBVIOUS
    <3> HIDE DEF Batch, RoundId, Owed
    <3> QED BY <1>1, <1>3, <1>4, <1>6, <1>7, <3>1, <3>2 DEF BatchIsNext
  <2>3. StepIsEarned(r)'
    <3>1. Owed = {k \in Marks : row[k] # today /\ (k \in {"materials", "digested"} => today \in landed)}
        BY DEF Owed
    <3>2. /\ "materials" \in Owed => row.materials # today
          /\ "roster" \in Owed => row.roster # today
        BY <3>1
    <3>3. first = "reflect" => row.reflected # today \/ (today \in landed /\ row.digested # today)
        BY <3>1 DEF first
    <3>4. arc' = arc
        BY DEF told
    <3> HIDE DEF Owed
    <3> QED BY <1>1, <1>6, <1>7, <3>2, <3>3, <3>4
            DEF StepIsEarned, Briefed, Introduced, Stimulus, Reflecting, Running, Closing
  <2>4. SleepIsBounded(r)'
      BY <1>6, <1>7 DEF SleepIsBounded
  <2> QED BY <2>1, <2>2, <2>3, <2>4 DEF RoundIsSound
<1>16. \A q \in Runners : RoundIsSound(q)'
  <2>1. SUFFICES ASSUME NEW q \in Runners, q # r PROVE RoundIsSound(q)'
      BY <1>15
  <2> QED BY <1>9, <2>1 DEF RoundIsSound
<1>17. NothingTwice'
  <2>1. first = "run" => row.exists
    <3>1. Owed = {k \in Marks : row[k] # today /\ (k \in {"materials", "digested"} => today \in landed)}
        BY DEF Owed
    <3>2. first = "run" => row.reflected = today
        BY <3>1 DEF first, Marks
    <3>3. today # 0
        BY <1>2, Numbers
    <3> QED BY <3>2, <3>3 DEF WorldIInv, RowIsSound, Marks
  <2>2. \A q \in Runners : at'[q] \notin Reflecting \cup {"idle"} => row'.exists
      BY <1>1, <1>7, <1>9, <2>1 DEF Reflecting
  <2> QED BY <1>1, <1>8, <2>2 DEF WorldIInv, NothingTwice, Failed, Closing
<1>18. WorldCanBeTrusted' /\ MailIsSound'
  <2>1. MarksAreEarned'
      BY <1>1, <1>12 DEF WorldIInv, WorldCanBeTrusted, MarksAreEarned, Accounted
  <2>2. RunsOnTheNewestArc'
      BY <1>6, <1>7, <1>9 DEF RunsOnTheNewestArc, Stimulus, told
  <2> QED BY <2>1, <2>2 DEF WorldIInv, WorldCanBeTrusted, InputsComeOnce, ToldIsKept, MailIsSound, told
<1> QED BY <1>11, <1>13, <1>14, <1>16, <1>17, <1>18 DEF WorldIInv

LEMMA WakeStep ==
    ASSUME WorldAssumption, WorldIInv, NEW r \in Runners, NEW target, Wake(r, target),
           worldLock = Free, selfTicks' \subseteq 1 .. wakes,
           UNCHANGED <<acts, markers, clock, reached, wakes, told, done, twice, used>>
    PROVE  WorldIInv'
<1>1. today <= today'
    BY Numbers DEF WorldIInv, WorldTypeOK, clock, Days
<1>2. CASE UNCHANGED <<row, runner, overtaken>>
  <2>1. WorldTypeOK' /\ Locked'
      BY <1>2 DEF WorldIInv, WorldTypeOK, Locked, acts, clock, runner, told
  <2> QED BY <1>1, <1>2, <2>1, Around DEF runner, history
<1>3. CASE GatePasses(target) /\ Recorded # {} /\ ~row.exists
    BY <1>2, <1>3 DEF Wake, SkipRecorded, AppendIfRow
<1>4. CASE GatePasses(target) /\ Recorded # {} /\ row.exists
    BY <1>4, SkipStep DEF Wake
<1>5. CASE GatePasses(target) /\ Recorded = {}
    BY <1>5, PrepareStep DEF Wake
<1> QED BY <1>2, <1>3, <1>4, <1>5 DEF Wake

LEMMA HeartbeatStep ==
    ASSUME WorldAssumption, WorldIInv, NEW r \in Runners, Heartbeat(r)
    PROVE  WorldIInv'
<1>1. selfTicks' \subseteq 1 .. wakes
    BY DEF Heartbeat, WorldIInv, WorldTypeOK, wake
<1> QED BY <1>1, WakeStep DEF Heartbeat, wake

LEMMA SelfTickStep ==
    ASSUME WorldAssumption, WorldIInv, NEW r \in Runners, NEW t \in 1 .. MaxWakes, SelfTick(r, t)
    PROVE  WorldIInv'
<1>1. selfTicks' \subseteq 1 .. wakes
    BY DEF SelfTick, WorldIInv, WorldTypeOK
<1>2. CASE worldLock = Free
    BY <1>1, <1>2, WakeStep DEF SelfTick
<1>3. CASE worldLock # Free
  <2>1. UNCHANGED <<acts, row, markers, clock, reached, wakes, runner, told, history, used>>
      BY <1>3 DEF SelfTick, history
  <2>2. WorldTypeOK' /\ Locked'
      BY <1>1, <2>1 DEF WorldIInv, WorldTypeOK, Locked, acts, clock, runner, told, history
  <2>3. today <= today'
      BY <2>1, Numbers DEF WorldIInv, WorldTypeOK, clock, Days
  <2> QED BY <2>1, <2>2, <2>3, Around DEF runner
<1> QED BY <1>2, <1>3

--------------------------------------------------------------------------------
\* The run and its tools.

LEMMA UseCounts ==
    ASSUME WorldAssumption, WorldIInv, NEW e \in Events, Use(e)
    PROVE  /\ used' \in [Events -> Nat]
           /\ used'[e] \in 1 .. Limit[e]
           /\ Failed => Failed'
           /\ e \notin {"tell", "arc"} => Failed'
<1>1. used \in [Events -> Nat] /\ Limit[e] \in Nat
    BY DEF WorldIInv, WorldTypeOK, WorldAssumption
<1>2. used' = [used EXCEPT ![e] = used[e] + 1] /\ used[e] < Limit[e]
    BY DEF Use
<1>3. used' \in [Events -> Nat] /\ used'[e] = used[e] + 1 /\ used[e] \in Nat
    BY <1>1, <1>2
<1>4. \A k \in Events : used'[k] >= used[k] /\ used[k] \in Nat /\ used'[k] \in Nat
  <2>1. SUFFICES ASSUME NEW k \in Events
                 PROVE used'[k] >= used[k] /\ used[k] \in Nat /\ used'[k] \in Nat
      OBVIOUS
  <2>2. CASE k = e
      BY <1>3, <2>2
  <2>3. CASE k # e
      BY <1>1, <1>2, <2>3
  <2> QED BY <2>2, <2>3
<1>5. Failed => Failed'
    BY <1>4 DEF Failed
<1>6. used'[e] \in 1 .. Limit[e] /\ used'[e] > 0
    BY <1>1, <1>2, <1>3
<1> QED BY <1>3, <1>5, <1>6 DEF Failed

\* Between the wake and the end of the run a round changes neither cursor nor marks,
\* markers or history; it leaves a reflection unmarked only when it failed.
LEMMA RunGoesOn ==
    ASSUME WorldAssumption, WorldIInv, WorldTypeOK', NEW r \in Runners,
           at[r] \in Reflecting \cup Running,
           \/ at'[r] \in Running /\ (at[r] \in Running \/ Failed')
           \/ at'[r] = at[r],
           \A q \in Runners : q # r => at'[q] = at[q],
           worldLock' = worldLock,
           rnd'[r].day = rnd[r].day, rnd'[r].batch = rnd[r].batch,
           rnd'[r].rid = rnd[r].rid, rnd'[r].briefing = rnd[r].briefing,
           rnd'[r].owed = rnd[r].owed,
           row'.cursor = row.cursor, row'.next = row.next, row.exists => row'.exists,
           \A k \in Marks : row'[k] = row[k],
           UNCHANGED <<markers, today, wakes, history>>,
           Failed => Failed',
           at'[r] \in Running => rnd'[r].arc = arc',
           at'[r] = "deliver" => rnd'[r].visit \in narrated',
           rnd'[r].sleeps => wakes < MaxWakes,
           ToldIsKept', MailIsSound'
    PROVE  WorldIInv'
<1>1. \A q \in Runners : q # r => at[q] = "idle" /\ at'[q] = "idle"
    BY OneIsUp DEF WorldIInv, Reflecting, Running
<1>2. at[r] \in {"reflect", "mark", "run", "deliver"} /\ at'[r] \in {"reflect", "mark", "run", "deliver"}
    BY DEF Reflecting, Running
<1>3. done' \in Finished /\ Locked'
    BY <1>1, <1>2 DEF WorldIInv, Locked, history, Finished
<1>4. /\ row'.materials = row.materials /\ row'.roster = row.roster
      /\ row'.reflected = row.reflected /\ row'.digested = row.digested
    BY DEF Marks
<1>5. RowIsSound'
    BY <1>4 DEF WorldIInv, RowIsSound
<1>6. MarkersAreSound'
    BY DEF WorldIInv, MarkersAreSound, Accounted, Deliberated, history
<1>7. DeliberatedIsRemembered'
    BY <1>1, <1>2 DEF WorldIInv, DeliberatedIsRemembered, Remembered, history
<1>8. RoundIsSound(r)'
  <2>1. DayIsNewest(r) /\ BatchIsNext(r) /\ StepIsEarned(r)
      BY <1>2 DEF WorldIInv, RoundIsSound, Opened, Reflecting, Running
  <2>2. DayIsNewest(r)'
      BY <2>1 DEF DayIsNewest
  <2>3. BatchIsNext(r)'
      BY <1>2, <2>1 DEF BatchIsNext, history
  <2>4. StepIsEarned(r)'
    <3>1. Briefed(r)' = Briefed(r) /\ Introduced(r)' = Introduced(r)
        BY DEF Briefed, Introduced, Stimulus
    <3>2. at'[r] \in Reflecting => at'[r] = at[r]
        BY DEF Reflecting, Running
    <3>3. at'[r] \notin Closing
        BY <1>2 DEF Closing
    <3>4. /\ Briefed(r) => row'.materials # rnd'[r].day
          /\ Introduced(r) => row'.roster # rnd'[r].day
        BY <1>4, <2>1 DEF StepIsEarned
    <3>5. /\ at'[r] \in Reflecting => row'.reflected # rnd'[r].day
                 \/ (rnd'[r].briefing /\ row'.digested # rnd'[r].day)
          /\ at'[r] = "mark" => /\ rnd'[r].day \in done'.reflection
                                /\ rnd'[r].briefing => rnd'[r].day \in done'.digest
        BY <1>4, <2>1, <3>2 DEF StepIsEarned, Reflecting, history
    <3> QED BY <3>1, <3>3, <3>4, <3>5 DEF StepIsEarned
  <2>5. SleepIsBounded(r)'
      BY <1>2 DEF SleepIsBounded
  <2> QED BY <2>2, <2>3, <2>4, <2>5 DEF RoundIsSound
<1>9. \A q \in Runners : RoundIsSound(q)'
  <2>1. SUFFICES ASSUME NEW q \in Runners, q # r PROVE RoundIsSound(q)'
      BY <1>8
  <2> QED BY <1>1, <2>1 DEF RoundIsSound
<1>10. NothingTwice'
  <2>1. SUFFICES ASSUME ~Failed' PROVE NothingTwice'
      BY DEF NothingTwice
  <2>2. ~Failed /\ (at'[r] = at[r] \/ (at[r] \in Running /\ at'[r] \in Running))
      BY <2>1
  <2>3. twice' = {} /\ done'.unrecorded = {}
      BY <2>2 DEF WorldIInv, NothingTwice, history
  <2>4. \A q \in Runners : at'[q] \notin Reflecting \cup {"idle"} => row'.exists
    <3>1. at'[r] \notin Reflecting => at[r] \notin Reflecting \cup {"idle"}
        BY <1>2, <2>2 DEF Reflecting, Running
    <3>2. \A q \in Runners : at[q] \notin Reflecting \cup {"idle"} => row.exists
        BY <2>2 DEF WorldIInv, NothingTwice
    <3> QED BY <1>1, <3>1, <3>2
  <2>5. \A d \in done'.briefing : d <= row'.materials
      BY <1>1, <1>2, <1>4, <2>2 DEF WorldIInv, NothingTwice, history, Closing
  <2>6. \A d \in done'.roster : d <= row'.roster
      BY <1>1, <1>2, <1>4, <2>2 DEF WorldIInv, NothingTwice, history, Closing
  <2>7. at[r] = "mark" => at'[r] = "mark"
      BY <2>2 DEF Running
  <2>8. \A d \in done'.reflection : d <= row'.reflected
               \/ \E q \in Runners : at'[q] = "mark" /\ rnd'[q].day = d
      BY <1>1, <1>4, <2>2, <2>7 DEF WorldIInv, NothingTwice, history
  <2>9. \A d \in done'.digest : d <= row'.digested
               \/ \E q \in Runners : at'[q] = "mark" /\ rnd'[q].briefing /\ rnd'[q].day = d
      BY <1>1, <1>4, <2>2, <2>7 DEF WorldIInv, NothingTwice, history
  <2> QED BY <2>3, <2>4, <2>5, <2>6, <2>8, <2>9 DEF NothingTwice
<1>11. WorldCanBeTrusted'
  <2>1. MarksAreEarned'
      BY <1>4 DEF WorldIInv, WorldCanBeTrusted, MarksAreEarned, Deliberated, history
  <2>2. InputsComeOnce'
      BY DEF WorldIInv, WorldCanBeTrusted, InputsComeOnce, Failed, history
  <2>3. RunsOnTheNewestArc'
      BY <1>1 DEF RunsOnTheNewestArc, Stimulus, Running
  <2> QED BY <2>1, <2>2, <2>3 DEF WorldCanBeTrusted
<1> QED BY <1>3, <1>5, <1>6, <1>7, <1>9, <1>10, <1>11 DEF WorldIInv

\* What a round that has not ended its run knows.
LEMMA RunFacts ==
    ASSUME WorldAssumption, WorldIInv, NEW r \in Runners, at[r] \in Reflecting \cup Running
    PROVE  /\ at \in [Runners -> At] /\ rnd \in [Runners -> Rounds] /\ row \in Rows
           /\ at[r] \in Running => rnd[r].arc = arc
           /\ at[r] = "deliver" => rnd[r].visit \in narrated
           /\ rnd[r].sleeps => wakes < MaxWakes
           /\ rnd[r] \in Rounds
           /\ ToldIsKept /\ MailIsSound
<1>1. at[r] \in Opened /\ at[r] # "idle" /\ at[r] # "emit"
    BY DEF Opened, Reflecting, Running
<1>2. StepIsEarned(r) /\ SleepIsBounded(r)
    BY <1>1 DEF WorldIInv, RoundIsSound
<1> QED BY <1>1, <1>2 DEF WorldIInv, WorldTypeOK, WorldCanBeTrusted, StepIsEarned, SleepIsBounded

LEMMA DetailKeepsTheRest ==
    ASSUME row \in Rows, AppendRow([detail |-> TRUE])
    PROVE  /\ row' \in Rows /\ row'.exists /\ row'.detail
           /\ row'.cursor = row.cursor /\ row'.next = row.next
           /\ \A k \in Marks : row'[k] = row[k]
<1>1. /\ row' = [f \in Fields |-> row'[f]] /\ row'.exists = TRUE
      /\ \A f \in Fields \ {"exists"} :
             row'[f] = IF f \in DOMAIN [detail |-> TRUE] THEN [detail |-> TRUE][f] ELSE row[f]
    BY Appended DEF Fields
<1>2. /\ row'.cursor = row.cursor /\ row'.detail = TRUE /\ row'.next = row.next
      /\ row'.materials = row.materials /\ row'.roster = row.roster
      /\ row'.reflected = row.reflected /\ row'.digested = row.digested
    BY <1>1 DEF Fields
<1>3. row' \in Rows
    BY <1>1, <1>2, RowType DEF Rows
<1> QED BY <1>1, <1>2, <1>3 DEF Marks

LEMMA UpdateWorldStep ==
    ASSUME WorldAssumption, WorldIInv, NEW r \in Runners, UpdateWorld(r)
    PROVE  WorldIInv'
<1>1. at[r] \in Running /\ UNCHANGED <<acts, markers, clock, wake, runner, told, history, used>>
    BY DEF UpdateWorld, Running
<1>2. /\ row' \in Rows /\ row'.exists
      /\ row'.cursor = row.cursor /\ row'.next = row.next
      /\ \A k \in Marks : row'[k] = row[k]
    BY DetailKeepsTheRest DEF UpdateWorld, WorldIInv, WorldTypeOK
<1>3. WorldTypeOK'
    BY <1>1, <1>2 DEF WorldIInv, WorldTypeOK, acts, clock, wake, runner, told, history
<1>4. ToldIsKept' /\ MailIsSound'
    BY <1>1, RunFacts DEF ToldIsKept, MailIsSound, told
<1>5. UNCHANGED <<markers, today, wakes, at, rnd, worldLock, arc, narrated>> /\ Failed' = Failed
    BY <1>1 DEF clock, wake, runner, told, Failed
<1> QED BY <1>1, <1>2, <1>3, <1>4, <1>5, RunFacts, RunGoesOn

LEMMA UpdateArcStep ==
    ASSUME WorldAssumption, WorldIInv, NEW r \in Runners, UpdateArc(r)
    PROVE  WorldIInv'
<1>1. /\ at[r] = "reflect" /\ Use("arc") /\ arc' = used'["arc"]
      /\ UNCHANGED <<acts, row, markers, clock, wake, runner, mailed, reports, narrated, history>>
    BY DEF UpdateArc
<1>2. used' \in [Events -> Nat] /\ arc' \in 0 .. Limit["arc"] /\ (Failed => Failed')
  <2>1. "arc" \in Events
      BY DEF Events
  <2> QED BY <1>1, <2>1, UseCounts
<1>3. WorldTypeOK'
    BY <1>1, <1>2 DEF WorldIInv, WorldTypeOK, acts, clock, wake, runner, history
<1>4. at[r] \in Reflecting \cup Running /\ at[r] \notin Running
    BY <1>1 DEF Reflecting, Running
<1>5. ToldIsKept' /\ MailIsSound'
    BY <1>1, <1>4, RunFacts DEF ToldIsKept, MailIsSound
<1>6. UNCHANGED <<markers, today, wakes, at, rnd, worldLock, narrated, row>>
    BY <1>1 DEF clock, wake, runner
<1> QED BY <1>1, <1>2, <1>3, <1>4, <1>5, <1>6, RunFacts, RunGoesOn

LEMMA TellStep ==
    ASSUME WorldAssumption, WorldIInv, NEW r \in Runners,
           NEW kind \in Kinds \ {"speech"}, NEW to \in {1, 2}, Tell(r, kind, to)
    PROVE  WorldIInv'
<1> DEFINE rid == rnd[r].rid
           env == Envelope(kind, to, 0, rid)
<1>1. /\ at[r] = "run" /\ Use("tell") /\ DeliverEvent(env) /\ Report(kind, to, 0, rid)
      /\ UNCHANGED <<acts, row, markers, clock, wake, runner, narrated, arc, history>>
    BY DEF Tell
<1>2. used' \in [Events -> Nat] /\ (Failed => Failed')
  <2>1. "tell" \in Events
      BY DEF Events
  <2> QED BY <1>1, <2>1, UseCounts
<1>3. WorldTypeOK'
    BY <1>1, <1>2 DEF WorldIInv, WorldTypeOK, acts, clock, wake, runner, history
<1>4. at[r] \in Running
    BY <1>1 DEF Running
<1>5. /\ env.kind = kind /\ env.to = to /\ env.id.kind = kind /\ env.id.fact = 0 /\ env.id.rid = rid
    BY DEF Envelope, EventId
<1> HIDE DEF env
<1>6. MailIsSound'
    BY <1>1, <1>4, <1>5, RunFacts DEF MailIsSound, DeliverEvent
<1>7. mailed \subseteq mailed' /\ \E e \in mailed' : e.id = env.id /\ e.to = env.to
    BY <1>1 DEF DeliverEvent
<1>8. ToldIsKept'
  <2>1. ASSUME NEW p \in reports'
        PROVE  \E e \in mailed' : e.kind = p.kind /\ e.to = p.to
                                  /\ e.id.fact = p.fact /\ e.id.rid = p.rid
    <3>1. CASE p \in reports
        BY <1>4, <1>7, <3>1, RunFacts DEF ToldIsKept
    <3>2. CASE p \notin reports
      <4>1. p = [kind |-> kind, to |-> to, fact |-> 0, rid |-> rid]
          BY <1>1, <3>2 DEF Report
      <4>2. PICK e \in mailed' : e.id = env.id /\ e.to = env.to
          BY <1>7
      <4>3. e.kind = e.id.kind
          BY <1>6 DEF MailIsSound
      <4> QED BY <1>5, <4>1, <4>2, <4>3
    <3> QED BY <3>1, <3>2
  <2>2. ASSUME NEW e \in mailed', e.kind = "speech" PROVE e.id.fact \in narrated'
    <3>1. e \in mailed
        BY <1>1, <1>5, <2>2 DEF DeliverEvent
    <3> QED BY <1>1, <1>4, <2>2, <3>1, RunFacts DEF ToldIsKept
  <2> QED BY <2>1, <2>2 DEF ToldIsKept
<1>9. UNCHANGED <<markers, today, wakes, at, rnd, worldLock, narrated, arc, row>>
    BY <1>1 DEF clock, wake, runner
<1> QED BY <1>1, <1>2, <1>3, <1>4, <1>6, <1>8, <1>9, RunFacts, RunGoesOn

LEMMA VisitBeginsStep ==
    ASSUME WorldAssumption, WorldIInv, NEW r \in Runners, VisitBegins(r)
    PROVE  WorldIInv'
<1>1. /\ at[r] = "run" /\ Use("tell") /\ AppendRow([detail |-> TRUE])
      /\ narrated' = narrated \cup {used'["tell"]}
      /\ rnd' = [rnd EXCEPT ![r].visit = used'["tell"]]
      /\ at' = [at EXCEPT ![r] = "deliver"]
      /\ UNCHANGED <<acts, markers, clock, wake, worldLock, mailed, reports, arc, history>>
    BY DEF VisitBegins, Goto
<1>2. used' \in [Events -> Nat] /\ used'["tell"] \in 0 .. Limit["tell"] /\ (Failed => Failed')
  <2>1. "tell" \in Events
      BY DEF Events
  <2> QED BY <1>1, <2>1, UseCounts
<1>3. at[r] \in Running /\ at'[r] = "deliver" /\ "deliver" \in Running
      /\ \A q \in Runners : q # r => at'[q] = at[q]
    BY <1>1 DEF Running, WorldIInv, WorldTypeOK
<1>4. /\ row' \in Rows /\ row'.exists
      /\ row'.cursor = row.cursor /\ row'.next = row.next
      /\ \A k \in Marks : row'[k] = row[k]
    BY <1>1, DetailKeepsTheRest DEF WorldIInv, WorldTypeOK
<1>5. /\ rnd' = [rnd EXCEPT ![r] = [rnd[r] EXCEPT !.visit = used'["tell"]]]
      /\ rnd' \in [Runners -> Rounds]
  <2>1. [rnd[r] EXCEPT !.visit = used'["tell"]] \in Rounds
      BY <1>2, <1>3, RunFacts DEF Rounds
  <2> QED BY <1>1, <1>3, <2>1, RunFacts
<1>6. /\ rnd'[r].day = rnd[r].day /\ rnd'[r].batch = rnd[r].batch
      /\ rnd'[r].rid = rnd[r].rid /\ rnd'[r].briefing = rnd[r].briefing
      /\ rnd'[r].owed = rnd[r].owed /\ rnd'[r].arc = rnd[r].arc
      /\ rnd'[r].sleeps = rnd[r].sleeps /\ rnd'[r].visit = used'["tell"]
    BY <1>3, <1>5, RunFacts DEF Rounds
<1>7. at' \in [Runners -> At]
    BY <1>1, <1>3, RunFacts DEF At
<1>8. WorldTypeOK'
    BY <1>1, <1>2, <1>4, <1>5, <1>7 DEF WorldIInv, WorldTypeOK, acts, clock, wake, history
<1>9. ToldIsKept' /\ MailIsSound'
    BY <1>1, <1>3, RunFacts DEF ToldIsKept, MailIsSound
<1>10. UNCHANGED <<markers, today, wakes, worldLock, arc>> /\ rnd'[r].visit \in narrated'
    BY <1>1, <1>6 DEF clock, wake
<1> QED BY <1>1, <1>2, <1>3, <1>4, <1>6, <1>8, <1>9, <1>10, RunFacts, RunGoesOn

LEMMA VisitDeliveredStep ==
    ASSUME WorldAssumption, WorldIInv, NEW r \in Runners, NEW to \in {1, 2}, VisitDelivered(r, to)
    PROVE  WorldIInv'
<1> DEFINE rid == rnd[r].rid
           fact == rnd[r].visit
           env == Envelope("speech", to, fact, rid)
<1>1. /\ at[r] = "deliver" /\ DeliverEvent(env) /\ Report("speech", to, fact, rid)
      /\ at' = [at EXCEPT ![r] = "run"]
      /\ UNCHANGED <<acts, row, markers, clock, wake, worldLock, rnd, narrated, arc, history, used>>
    BY DEF VisitDelivered, Goto
<1>2. at[r] \in Running /\ at'[r] = "run" /\ "run" \in Running
      /\ \A q \in Runners : q # r => at'[q] = at[q]
    BY <1>1 DEF Running, WorldIInv, WorldTypeOK
<1>3. at' \in [Runners -> At]
    BY <1>1, <1>2, RunFacts DEF At
<1>4. WorldTypeOK'
    BY <1>1, <1>3 DEF WorldIInv, WorldTypeOK, acts, clock, wake, history
<1>5. /\ env.kind = "speech" /\ env.to = to /\ env.id.kind = "speech"
      /\ env.id.fact = fact /\ env.id.rid = rid
    BY DEF Envelope, EventId
<1> HIDE DEF env
<1>6. MailIsSound'
    BY <1>1, <1>2, <1>5, RunFacts DEF MailIsSound, DeliverEvent
<1>7. mailed \subseteq mailed' /\ \E e \in mailed' : e.id = env.id /\ e.to = env.to
    BY <1>1 DEF DeliverEvent
<1>8. ToldIsKept'
  <2>1. ASSUME NEW p \in reports'
        PROVE  \E e \in mailed' : e.kind = p.kind /\ e.to = p.to
                                  /\ e.id.fact = p.fact /\ e.id.rid = p.rid
    <3>1. CASE p \in reports
        BY <1>2, <1>7, <3>1, RunFacts DEF ToldIsKept
    <3>2. CASE p \notin reports
      <4>1. p = [kind |-> "speech", to |-> to, fact |-> fact, rid |-> rid]
          BY <1>1, <3>2 DEF Report
      <4>2. PICK e \in mailed' : e.id = env.id /\ e.to = env.to
          BY <1>7
      <4>3. e.kind = e.id.kind
          BY <1>6 DEF MailIsSound
      <4> QED BY <1>5, <4>1, <4>2, <4>3
    <3> QED BY <3>1, <3>2
  <2>2. ASSUME NEW e \in mailed', e.kind = "speech" PROVE e.id.fact \in narrated'
    <3>1. CASE e \in mailed
        BY <1>1, <1>2, <2>2, <3>1, RunFacts DEF ToldIsKept
    <3>2. CASE e \notin mailed
        BY <1>1, <1>2, <1>5, <3>2, RunFacts DEF DeliverEvent
    <3> QED BY <3>1, <3>2
  <2> QED BY <2>1, <2>2 DEF ToldIsKept
<1>9. UNCHANGED <<markers, today, wakes, rnd, worldLock, narrated, arc, row>> /\ Failed' = Failed
    BY <1>1 DEF clock, wake, Failed
<1> QED BY <1>1, <1>2, <1>4, <1>6, <1>8, <1>9, RunFacts, RunGoesOn

LEMMA VisitFailsStep ==
    ASSUME WorldAssumption, WorldIInv, NEW r \in Runners, VisitFails(r)
    PROVE  WorldIInv'
<1>1. /\ at[r] = "deliver" /\ Use("fail") /\ at' = [at EXCEPT ![r] = "run"]
      /\ UNCHANGED <<acts, row, markers, clock, wake, worldLock, rnd, told, history>>
    BY DEF VisitFails, Goto
<1>2. at[r] \in Running /\ at'[r] = "run" /\ "run" \in Running
      /\ \A q \in Runners : q # r => at'[q] = at[q]
    BY <1>1 DEF Running, WorldIInv, WorldTypeOK
<1>3. used' \in [Events -> Nat] /\ (Failed => Failed')
  <2>1. "fail" \in Events
      BY DEF Events
  <2> QED BY <1>1, <2>1, UseCounts
<1>4. at' \in [Runners -> At]
    BY <1>1, <1>2, RunFacts DEF At
<1>5. WorldTypeOK'
    BY <1>1, <1>3, <1>4 DEF WorldIInv, WorldTypeOK, acts, clock, wake, told, history
<1>6. ToldIsKept' /\ MailIsSound'
    BY <1>1, <1>2, RunFacts DEF ToldIsKept, MailIsSound, told
<1>7. UNCHANGED <<markers, today, wakes, rnd, worldLock, narrated, arc, row>>
    BY <1>1 DEF clock, wake, told
<1> QED BY <1>1, <1>2, <1>3, <1>5, <1>6, <1>7, RunFacts, RunGoesOn

LEMMA SleepStep ==
    ASSUME WorldAssumption, WorldIInv, NEW r \in Runners, Sleep(r)
    PROVE  WorldIInv'
<1>1. /\ at[r] = "run" /\ wakes < MaxWakes /\ rnd' = [rnd EXCEPT ![r].sleeps = TRUE]
      /\ UNCHANGED <<acts, row, markers, clock, wake, worldLock, at, told, history, used>>
    BY DEF Sleep
<1>2. at[r] \in Running
    BY <1>1 DEF Running
<1>3. /\ rnd' = [rnd EXCEPT ![r] = [rnd[r] EXCEPT !.sleeps = TRUE]]
      /\ rnd' \in [Runners -> Rounds]
  <2>1. [rnd[r] EXCEPT !.sleeps = TRUE] \in Rounds
      BY <1>2, RunFacts DEF Rounds
  <2> QED BY <1>1, <1>2, <2>1, RunFacts
<1>4. /\ rnd'[r].day = rnd[r].day /\ rnd'[r].batch = rnd[r].batch
      /\ rnd'[r].rid = rnd[r].rid /\ rnd'[r].briefing = rnd[r].briefing
      /\ rnd'[r].owed = rnd[r].owed /\ rnd'[r].arc = rnd[r].arc
      /\ rnd'[r].visit = rnd[r].visit
    BY <1>2, <1>3, RunFacts DEF Rounds
<1>5. WorldTypeOK'
    BY <1>1, <1>3 DEF WorldIInv, WorldTypeOK, acts, clock, wake, told, history
<1>6. ToldIsKept' /\ MailIsSound'
    BY <1>1, <1>2, RunFacts DEF ToldIsKept, MailIsSound, told
<1>7. UNCHANGED <<markers, today, wakes, at, worldLock, narrated, arc, row>> /\ Failed' = Failed
    BY <1>1 DEF clock, wake, told, Failed
<1> QED BY <1>1, <1>2, <1>4, <1>5, <1>6, <1>7, RunFacts, RunGoesOn

\* The run that follows reads the arc anew.
LEMMA ReflectFailsStep ==
    ASSUME WorldAssumption, WorldIInv, NEW r \in Runners, ReflectFails(r)
    PROVE  WorldIInv'
<1>1. /\ at[r] \in Reflecting /\ Use("reflect") /\ at' = [at EXCEPT ![r] = "run"]
      /\ rnd' = [rnd EXCEPT ![r].arc = arc]
      /\ UNCHANGED <<acts, row, markers, clock, wake, worldLock, told, history>>
    BY DEF ReflectFails, StartRun, Goto, Reflecting
<1>2. /\ at'[r] = "run" /\ "run" \in Running
      /\ \A q \in Runners : q # r => at'[q] = at[q]
    BY <1>1 DEF Running, WorldIInv, WorldTypeOK
<1>3. used' \in [Events -> Nat] /\ Failed'
  <2>1. "reflect" \in Events
      BY DEF Events
  <2> QED BY <1>1, <2>1, UseCounts
<1>4. at' \in [Runners -> At]
    BY <1>1, <1>2, RunFacts DEF At
<1>5. /\ rnd' = [rnd EXCEPT ![r] = [rnd[r] EXCEPT !.arc = arc]]
      /\ rnd' \in [Runners -> Rounds]
  <2>1. [rnd[r] EXCEPT !.arc = arc] \in Rounds
      BY <1>1, RunFacts DEF Rounds, WorldIInv, WorldTypeOK
  <2> QED BY <1>1, <2>1, RunFacts
<1>6. /\ rnd'[r].day = rnd[r].day /\ rnd'[r].batch = rnd[r].batch
      /\ rnd'[r].rid = rnd[r].rid /\ rnd'[r].briefing = rnd[r].briefing
      /\ rnd'[r].owed = rnd[r].owed /\ rnd'[r].arc = arc
      /\ rnd'[r].sleeps = rnd[r].sleeps
    BY <1>1, <1>5, RunFacts DEF Rounds
<1>7. WorldTypeOK'
    BY <1>1, <1>3, <1>4, <1>5 DEF WorldIInv, WorldTypeOK, acts, clock, wake, told, history
<1>8. ToldIsKept' /\ MailIsSound'
    BY <1>1, RunFacts DEF ToldIsKept, MailIsSound, told
<1>9. UNCHANGED <<markers, today, wakes, worldLock, narrated, arc, row>>
    BY <1>1 DEF clock, wake, told
<1> QED BY <1>1, <1>2, <1>3, <1>6, <1>7, <1>8, <1>9, RunFacts, RunGoesOn

--------------------------------------------------------------------------------
\* A round that ends, as it should or not.

\* It leaves cursor, marks and markers as they are, and a run it does not record is
\* a failure.
LEMMA RoundWindsDown ==
    ASSUME WorldAssumption, WorldIInv, WorldTypeOK', NEW r \in Runners,
           at[r] # "idle", at'[r] \notin Opened, at[r] \notin Opened \/ Failed',
           \A q \in Runners : q # r => at'[q] = at[q],
           at'[r] # "idle" => worldLock' = worldLock /\ rnd'[r] = rnd[r] /\ at[r] \notin Opened,
           row'.cursor = row.cursor, row'.next <= wakes', row.exists => row'.exists,
           \A k \in Marks : row'[k] = row[k],
           UNCHANGED <<markers, today, told, twice, overtaken>>,
           done' \in Finished, done.unrecorded \subseteq done'.unrecorded,
           done'.act = done.act, done'.briefing = done.briefing, done'.roster = done.roster,
           done'.reflection = done.reflection, done'.digest = done.digest,
           Failed' \/ done'.unrecorded = done.unrecorded,
           at[r] = "persist" => rnd[r].day \in done'.unrecorded,
           Failed => Failed', SleepIsBounded(r)'
    PROVE  WorldIInv'
<1>1. \A q \in Runners : q # r => at[q] = "idle" /\ at'[q] = "idle"
    BY OneIsUp DEF WorldIInv
<1>2. Locked'
    BY <1>1 DEF WorldIInv, Locked
<1>3. /\ row'.materials = row.materials /\ row'.roster = row.roster
      /\ row'.reflected = row.reflected /\ row'.digested = row.digested
    BY DEF Marks
<1>4. RowIsSound'
    BY <1>3 DEF WorldIInv, RowIsSound
<1>5. Deliberated' = Deliberated /\ Accounted' = Accounted
    BY DEF Accounted, Deliberated
<1>6. MarkersAreSound'
    BY <1>5 DEF WorldIInv, MarkersAreSound
<1>7. DeliberatedIsRemembered'
  <2>1. SUFFICES ASSUME NEW d \in Days, NEW a \in Acts, <<d, a>> \in done.act
                 PROVE  d \in done'.unrecorded \/ \E m \in markers'[d] : a <= m.end
      BY DEF DeliberatedIsRemembered, Remembered
  <2>2. Remembered(d, a)
      BY <2>1 DEF WorldIInv, DeliberatedIsRemembered
  <2> QED BY <1>1, <2>2 DEF Remembered
<1>8. RoundIsSound(r)'
  <2>1. DayIsNewest(r)
      BY DEF WorldIInv, RoundIsSound
  <2>2. at'[r] # "idle" => DayIsNewest(r)'
      BY <2>1 DEF DayIsNewest
  <2> QED BY <2>2 DEF RoundIsSound
<1>9. \A q \in Runners : RoundIsSound(q)'
  <2>1. SUFFICES ASSUME NEW q \in Runners, q # r PROVE RoundIsSound(q)'
      BY <1>8
  <2> QED BY <1>1, <2>1 DEF RoundIsSound
<1>10. NothingTwice'
  <2>1. SUFFICES ASSUME ~Failed' PROVE NothingTwice'
      BY DEF NothingTwice
  <2>2. ~Failed /\ at[r] \notin Opened \cup {"idle"}
      BY <2>1
  <2>3. twice' = {} /\ done'.unrecorded = {}
      BY <2>1, <2>2 DEF WorldIInv, NothingTwice
  <2>4. row'.exists
      BY <2>2 DEF WorldIInv, NothingTwice, Opened
  <2>5. \A q \in Runners : at[q] \notin Closing /\ at[q] # "mark"
      BY <1>1, <2>2 DEF Opened, Closing, Reflecting
  <2>6. /\ \A d \in done'.briefing : d <= row'.materials
        /\ \A d \in done'.roster : d <= row'.roster
        /\ \A d \in done'.reflection : d <= row'.reflected
        /\ \A d \in done'.digest : d <= row'.digested
      BY <1>3, <2>2, <2>5 DEF WorldIInv, NothingTwice
  <2> QED BY <2>3, <2>4, <2>6 DEF NothingTwice
<1>11. WorldCanBeTrusted' /\ MailIsSound'
  <2>1. MarksAreEarned'
      BY <1>3, <1>5 DEF WorldIInv, WorldCanBeTrusted, MarksAreEarned
  <2>2. InputsComeOnce'
      BY DEF WorldIInv, WorldCanBeTrusted, InputsComeOnce, Failed
  <2>3. RunsOnTheNewestArc'
      BY <1>1 DEF RunsOnTheNewestArc, Opened, Running
  <2> QED BY <2>1, <2>2, <2>3
          DEF WorldIInv, WorldCanBeTrusted, ToldIsKept, MailIsSound, told
<1> QED BY <1>2, <1>4, <1>6, <1>7, <1>9, <1>10, <1>11 DEF WorldIInv

\* What a round that is up knows of the state's shape.
LEMMA UpFacts ==
    ASSUME WorldAssumption, WorldIInv, NEW r \in Runners
    PROVE  /\ at \in [Runners -> At] /\ rnd \in [Runners -> Rounds] /\ row \in Rows
           /\ rnd[r] \in Rounds /\ rnd[r].day \in Days /\ NoRound \in Rounds
           /\ done \in Finished /\ markers \in [Days -> SUBSET Marker]
           /\ row.next <= wakes /\ wakes \in 0 .. MaxWakes /\ wakes \in Nat /\ row.next \in Nat
<1>1. 1 \in Days /\ 0 \in 0 .. Limit["arc"] /\ 0 \in 0 .. Limit["tell"]
  <2>1. today \in Days /\ MaxDay \in Nat /\ Limit["arc"] \in Nat /\ Limit["tell"] \in Nat
      BY Numbers DEF WorldIInv, WorldTypeOK, WorldAssumption, Events
  <2> QED BY <2>1 DEF Days
<1>2. NoRound \in Rounds
    BY <1>1 DEF NoRound, Rounds
<1>3. row.next \in Nat /\ wakes \in Nat
    BY Numbers DEF WorldIInv, WorldTypeOK, Rows
<1>4. rnd[r] \in Rounds /\ rnd[r].day \in Days
    BY DEF WorldIInv, WorldTypeOK, Rounds
<1> QED BY <1>2, <1>3, <1>4 DEF WorldIInv, WorldTypeOK, RowIsSound

LEMMA FinishFacts ==
    ASSUME WorldAssumption, WorldIInv, NEW r \in Runners,
           rnd' = [rnd EXCEPT ![r] = NoRound], at' = [at EXCEPT ![r] = "idle"]
    PROVE  /\ at' \in [Runners -> At] /\ rnd' \in [Runners -> Rounds]
           /\ at'[r] = "idle" /\ \A q \in Runners : q # r => at'[q] = at[q]
           /\ SleepIsBounded(r)' /\ at'[r] \notin Opened
<1>1. /\ at' \in [Runners -> At] /\ rnd' \in [Runners -> Rounds]
      /\ at'[r] = "idle" /\ rnd'[r] = NoRound /\ \A q \in Runners : q # r => at'[q] = at[q]
    BY UpFacts DEF At
<1>2. SleepIsBounded(r)'
    BY <1>1 DEF SleepIsBounded, NoRound
<1> QED BY <1>1, <1>2 DEF Opened, Reflecting, Running, Closing

LEMMA UnrecordedFacts ==
    ASSUME WorldAssumption, WorldIInv, NEW r \in Runners, Unrecorded(r)
    PROVE  /\ done' \in Finished /\ done.unrecorded \subseteq done'.unrecorded
           /\ done'.act = done.act /\ done'.briefing = done.briefing
           /\ done'.roster = done.roster /\ done'.reflection = done.reflection
           /\ done'.digest = done.digest
           /\ at[r] = "persist" => rnd[r].day \in done'.unrecorded
           /\ UNCHANGED <<twice, overtaken>>
<1>1. CASE at[r] = "persist"
  <2>1. done' = [done EXCEPT !.unrecorded = done.unrecorded \cup {rnd[r].day}]
      BY <1>1 DEF Unrecorded
  <2> QED BY <2>1, UpFacts DEF Finished, Unrecorded
<1>2. CASE at[r] # "persist"
    BY <1>2, UpFacts DEF Unrecorded
<1> QED BY <1>1, <1>2

LEMMA AbortStep ==
    ASSUME WorldAssumption, WorldIInv, NEW r \in Runners, Abort(r)
    PROVE  WorldIInv'
<1>1. /\ at[r] # "idle" /\ Use("fail") /\ Unrecorded(r)
      /\ worldLock' = Free
      /\ rnd' = [rnd EXCEPT ![r] = NoRound] /\ at' = [at EXCEPT ![r] = "idle"]
      /\ UNCHANGED <<acts, row, markers, clock, wake, told>>
    BY DEF Abort, Finish, Goto
<1>2. used' \in [Events -> Nat] /\ Failed'
  <2>1. "fail" \in Events
      BY DEF Events
  <2> QED BY <1>1, <2>1, UseCounts
<1>3. WorldTypeOK'
    BY <1>1, <1>2, FinishFacts, UnrecordedFacts
       DEF WorldIInv, WorldTypeOK, acts, clock, wake, told
<1>4. UNCHANGED <<markers, today, told, row, wakes>>
    BY <1>1 DEF clock, wake
<1> QED BY <1>1, <1>2, <1>3, <1>4, FinishFacts, UnrecordedFacts, UpFacts, RoundWindsDown

LEMMA CrashStep ==
    ASSUME WorldAssumption, WorldIInv, NEW r \in Runners, Crash(r)
    PROVE  WorldIInv'
<1>1. /\ at[r] # "idle" /\ Use("crash") /\ Unrecorded(r)
      /\ worldLock' = Orphan
      /\ rnd' = [rnd EXCEPT ![r] = NoRound] /\ at' = [at EXCEPT ![r] = "idle"]
      /\ UNCHANGED <<acts, row, markers, clock, wake, told>>
    BY DEF Crash, Goto
<1>2. used' \in [Events -> Nat] /\ Failed'
  <2>1. "crash" \in Events
      BY DEF Events
  <2> QED BY <1>1, <2>1, UseCounts
<1>3. WorldTypeOK'
    BY <1>1, <1>2, FinishFacts, UnrecordedFacts
       DEF WorldIInv, WorldTypeOK, acts, clock, wake, told
<1>4. UNCHANGED <<markers, today, told, row, wakes>>
    BY <1>1 DEF clock, wake
<1> QED BY <1>1, <1>2, <1>3, <1>4, FinishFacts, UnrecordedFacts, UpFacts, RoundWindsDown

LEMMA EmitSelfStep ==
    ASSUME WorldAssumption, WorldIInv, NEW r \in Runners, EmitSelf(r)
    PROVE  WorldIInv'
<1>1. /\ at[r] = "emit" /\ selfTicks' = selfTicks \cup {wakes} /\ worldLock' = Free
      /\ rnd' = [rnd EXCEPT ![r] = NoRound] /\ at' = [at EXCEPT ![r] = "idle"]
      /\ UNCHANGED <<acts, row, markers, clock, reached, wakes, told, history, used>>
    BY DEF EmitSelf, Finish, Goto
<1>2. selfTicks' \subseteq 1 .. wakes
  <2>1. wakes > 0
      BY <1>1 DEF WorldIInv, RoundIsSound, SleepIsBounded
  <2>2. wakes \in 1 .. wakes /\ selfTicks \subseteq 1 .. wakes
      BY <2>1, UpFacts DEF WorldIInv, WorldTypeOK
  <2> QED BY <1>1, <2>2
<1>3. WorldTypeOK'
    BY <1>1, <1>2, FinishFacts DEF WorldIInv, WorldTypeOK, acts, clock, told, history
<1>4. at[r] \notin Opened
    BY <1>1 DEF Opened, Reflecting, Running, Closing
<1>5. UNCHANGED <<markers, today, told, row, wakes, done, twice, overtaken>> /\ Failed' = Failed
    BY <1>1 DEF clock, history, Failed
<1> QED BY <1>1, <1>3, <1>4, <1>5, FinishFacts, UpFacts, RoundWindsDown

LEMMA FoldStep ==
    ASSUME WorldAssumption, WorldIInv, NEW r \in Runners, Fold(r)
    PROVE  WorldIInv'
<1>1. /\ at[r] = "fold" /\ markers' = [markers EXCEPT ![rnd[r].day] = markers[rnd[r].day]]
      /\ UNCHANGED <<acts, row, clock, wake, told, history, used>>
    BY DEF Fold, Kept
<1>2. markers' = markers
    BY <1>1, UpFacts
<1>3. at[r] \notin Opened
    BY <1>1 DEF Opened, Reflecting, Running, Closing
<1>4. UNCHANGED <<markers, today, told, row, wakes, done, twice, overtaken>> /\ Failed' = Failed
    BY <1>1, <1>2 DEF clock, wake, history, Failed
<1>5. CASE rnd[r].sleeps
  <2>1. at' = [at EXCEPT ![r] = "wake"] /\ UNCHANGED <<worldLock, rnd>>
      BY <1>5 DEF Fold, Goto
  <2>2. /\ at' \in [Runners -> At] /\ at'[r] = "wake"
        /\ \A q \in Runners : q # r => at'[q] = at[q]
      BY <2>1, UpFacts DEF At
  <2>3. WorldTypeOK'
      BY <1>1, <1>2, <2>1, <2>2 DEF WorldIInv, WorldTypeOK, acts, clock, wake, told, history
  <2>4. SleepIsBounded(r)
      BY <1>1 DEF WorldIInv, RoundIsSound
  <2>5. SleepIsBounded(r)' /\ at'[r] \notin Opened
      BY <1>1, <1>4, <1>5, <2>1, <2>2, <2>4
         DEF SleepIsBounded, Opened, Reflecting, Running, Closing
  <2> QED BY <1>1, <1>3, <1>4, <2>1, <2>2, <2>3, <2>5, UpFacts, RoundWindsDown
<1>6. CASE ~rnd[r].sleeps
  <2>1. /\ worldLock' = Free
        /\ rnd' = [rnd EXCEPT ![r] = NoRound] /\ at' = [at EXCEPT ![r] = "idle"]
      BY <1>6 DEF Fold, Finish, Goto
  <2>2. WorldTypeOK'
      BY <1>1, <1>2, <2>1, FinishFacts
         DEF WorldIInv, WorldTypeOK, acts, clock, wake, told, history
  <2> QED BY <1>1, <1>3, <1>4, <2>1, <2>2, FinishFacts, UpFacts, RoundWindsDown
<1> QED BY <1>5, <1>6

LEMMA SetNextWakeStep ==
    ASSUME WorldAssumption, WorldIInv, NEW r \in Runners, SetNextWake(r)
    PROVE  WorldIInv'
<1>1. /\ at[r] = "wake" /\ wakes' = wakes + 1 /\ AppendIfRow([next |-> wakes'])
      /\ reached' = (reached /\ ~row.exists)
      /\ at' = [at EXCEPT ![r] = "emit"]
      /\ UNCHANGED <<acts, markers, clock, selfTicks, worldLock, rnd, told, history, used>>
    BY DEF SetNextWake, Goto
<1>2. wakes < MaxWakes
    BY <1>1 DEF WorldIInv, RoundIsSound, SleepIsBounded
<1>3. wakes' \in 0 .. MaxWakes /\ wakes' > 0 /\ wakes' >= wakes /\ wakes' \in Nat
    BY <1>1, <1>2, UpFacts, Numbers
<1>4. /\ row' \in Rows /\ row'.cursor = row.cursor /\ row'.next <= wakes'
      /\ row.exists => row'.exists
      /\ \A k \in Marks : row'[k] = row[k]
  <2>1. CASE ~row.exists
    <3>1. row' = row /\ row.next <= wakes /\ row.next \in Nat /\ wakes \in Nat
        BY <1>1, <2>1, UpFacts DEF AppendIfRow
    <3> QED BY <1>3, <3>1, UpFacts
  <2>2. CASE row.exists
    <3>1. /\ row' = [f \in Fields |-> row'[f]] /\ row'.exists = TRUE
          /\ \A f \in Fields \ {"exists"} :
                 row'[f] = IF f \in DOMAIN [next |-> wakes'] THEN [next |-> wakes'][f] ELSE row[f]
        BY <1>1, <2>2, UpFacts, Appended DEF AppendIfRow, Fields
    <3>2. /\ row'.cursor = row.cursor /\ row'.detail = row.detail /\ row'.next = wakes'
          /\ row'.materials = row.materials /\ row'.roster = row.roster
          /\ row'.reflected = row.reflected /\ row'.digested = row.digested
        BY <3>1 DEF Fields
    <3>3. row' \in Rows
        BY <1>3, <3>1, <3>2, UpFacts, RowType DEF Rows
    <3> QED BY <1>3, <3>1, <3>2, <3>3 DEF Marks
  <2> QED BY <2>1, <2>2
<1>5. /\ at' \in [Runners -> At] /\ at'[r] = "emit"
      /\ \A q \in Runners : q # r => at'[q] = at[q]
    BY <1>1, UpFacts DEF At
<1>6. selfTicks' \subseteq 1 .. wakes'
  <2>1. selfTicks \subseteq 1 .. wakes /\ 1 .. wakes \subseteq 1 .. wakes'
      BY <1>1, UpFacts DEF WorldIInv, WorldTypeOK
  <2> QED BY <1>1, <2>1
<1>7. WorldTypeOK'
  <2>1. reached' \in BOOLEAN
      BY <1>1
  <2> QED BY <1>1, <1>3, <1>4, <1>5, <1>6, <2>1
          DEF WorldIInv, WorldTypeOK, acts, clock, told, history
<1>8. at[r] \notin Opened /\ at'[r] \notin Opened /\ SleepIsBounded(r)'
    BY <1>1, <1>3, <1>5 DEF Opened, Reflecting, Running, Closing, SleepIsBounded
<1>9. UNCHANGED <<markers, today, told, done, twice, overtaken>> /\ Failed' = Failed
    BY <1>1 DEF clock, history, Failed
<1> QED BY <1>1, <1>4, <1>5, <1>7, <1>8, <1>9, UpFacts, RoundWindsDown

--------------------------------------------------------------------------------
\* The reflection.

\* It is the first of the day, or the first with the day's materials, unless
\* something has failed.
LEMMA ReflectStep ==
    ASSUME WorldAssumption, WorldIInv, NEW r \in Runners, Reflect(r)
    PROVE  WorldIInv'
<1> DEFINE day == rnd[r].day
           fed == rnd[r].briefing
           again == IF fed THEN day \in done.digest ELSE day \in done.reflection
<1>1. /\ at[r] = "reflect"
      /\ done' = [done EXCEPT !.reflection = done.reflection \cup {day},
                              !.digest = IF fed THEN done.digest \cup {day} ELSE done.digest]
      /\ twice' = IF again THEN twice \cup {<<"reflection", day>>} ELSE twice
      /\ at' = [at EXCEPT ![r] = "mark"]
      /\ UNCHANGED <<acts, row, markers, clock, wake, worldLock, rnd, told, overtaken, used>>
    BY DEF Reflect, Goto
<1>2. day \in Days /\ fed \in BOOLEAN
    BY UpFacts DEF Rounds
<1>3. /\ at'[r] = "mark" /\ at' \in [Runners -> At]
      /\ \A q \in Runners : q # r => at'[q] = at[q] /\ at[q] = "idle"
    BY <1>1, UpFacts, OneIsUp DEF At, WorldIInv
<1>4. /\ done'.reflection = done.reflection \cup {day}
      /\ done'.digest = IF fed THEN done.digest \cup {day} ELSE done.digest
      /\ done'.act = done.act /\ done'.briefing = done.briefing /\ done'.roster = done.roster
      /\ done'.unrecorded = done.unrecorded
      /\ done' \in Finished
    BY <1>1, <1>2, UpFacts DEF Finished
<1>5. UNCHANGED <<row, markers, today, wakes, worldLock, rnd, told, overtaken, used>>
    BY <1>1 DEF clock, wake
<1>6. WorldTypeOK' /\ Locked'
  <2>1. twice' \subseteq {"act", "briefing", "roster", "reflection"} \X Days
      BY <1>1, <1>2 DEF WorldIInv, WorldTypeOK
  <2> QED BY <1>1, <1>3, <2>1 DEF WorldIInv, WorldTypeOK, Locked, acts, clock, wake, told
<1>7. Deliberated' = Deliberated /\ Accounted' = Accounted
    BY <1>4, <1>5 DEF Deliberated, Accounted
<1>8. RowIsSound' /\ MarkersAreSound'
    BY <1>5, <1>7 DEF WorldIInv, RowIsSound, MarkersAreSound
<1>9. DeliberatedIsRemembered'
    BY <1>1, <1>3, <1>4, <1>5 DEF WorldIInv, DeliberatedIsRemembered, Remembered
<1>10. DayIsNewest(r) /\ BatchIsNext(r) /\ StepIsEarned(r) /\ SleepIsBounded(r)
    BY <1>1 DEF WorldIInv, RoundIsSound, Opened, Reflecting
<1>11. RoundIsSound(r)'
  <2>1. DayIsNewest(r)' /\ BatchIsNext(r)' /\ SleepIsBounded(r)'
      BY <1>1, <1>3, <1>5, <1>10 DEF DayIsNewest, BatchIsNext, SleepIsBounded
  <2>2. StepIsEarned(r)'
    <3>1. Briefed(r)' = Briefed(r) /\ Introduced(r)' = Introduced(r)
        BY <1>5 DEF Briefed, Introduced, Stimulus
    <3> QED BY <1>1, <1>3, <1>4, <1>5, <1>10, <3>1
            DEF StepIsEarned, Reflecting, Running, Closing
  <2> QED BY <2>1, <2>2 DEF RoundIsSound
<1>12. \A q \in Runners : RoundIsSound(q)'
  <2>1. SUFFICES ASSUME NEW q \in Runners, q # r PROVE RoundIsSound(q)'
      BY <1>11
  <2> QED BY <1>3, <2>1 DEF RoundIsSound
<1>13. NothingTwice'
  <2>1. SUFFICES ASSUME ~Failed' PROVE NothingTwice'
      BY DEF NothingTwice
  <2>2. ~Failed
      BY <1>5, <2>1 DEF Failed
  <2>3. /\ \A d \in done.briefing : d <= row.materials
        /\ \A d \in done.roster : d <= row.roster
        /\ \A d \in done.reflection : d <= row.reflected
        /\ \A d \in done.digest : d <= row.digested
      BY <1>1, <1>3, <2>2 DEF WorldIInv, NothingTwice, Closing
  <2>4. ~again
    <3>1. row.reflected # day \/ (fed /\ row.digested # day)
        BY <1>1, <1>10 DEF StepIsEarned, Reflecting
    <3>2. /\ row.reflected <= day /\ row.digested <= row.reflected
          /\ row.reflected \in Nat /\ row.digested \in Nat /\ day \in Nat
        BY <1>2, <1>10, UpFacts, Numbers DEF DayIsNewest, Marks, Rows, WorldIInv, RowIsSound
    <3>3. day \in done.reflection => row.reflected = day
        BY <2>3, <3>2
    <3>4. day \in done.digest => row.digested = day /\ row.reflected = day
        BY <2>3, <3>2
    <3> QED BY <3>1, <3>3, <3>4
  <2>5. twice' = {} /\ done'.unrecorded = {}
      BY <1>1, <1>4, <2>2, <2>4 DEF WorldIInv, NothingTwice
  <2>6. \A q \in Runners : at'[q] \in Reflecting \cup {"idle"}
      BY <1>3 DEF Reflecting
  <2>7. /\ \A d \in done'.reflection : d <= row.reflected \/ rnd'[r].day = d
        /\ \A d \in done'.digest : d <= row.digested \/ (rnd'[r].briefing /\ rnd'[r].day = d)
      BY <1>4, <1>5, <2>3
  <2> QED BY <1>3, <1>4, <1>5, <2>3, <2>5, <2>6, <2>7 DEF NothingTwice
<1>14. WorldCanBeTrusted' /\ MailIsSound'
  <2>1. MarksAreEarned'
      BY <1>4, <1>5, <1>7 DEF WorldIInv, WorldCanBeTrusted, MarksAreEarned
  <2>2. InputsComeOnce'
    <3>1. ASSUME NEW input \in twice', input[1] = "act" PROVE input[2] \in done'.unrecorded
      <4>1. input \in twice
          BY <1>1, <3>1
      <4> QED BY <1>4, <3>1, <4>1 DEF WorldIInv, WorldCanBeTrusted, InputsComeOnce
    <3>2. twice' # {} => Failed'
        BY <1>13 DEF NothingTwice
    <3> QED BY <3>1, <3>2 DEF InputsComeOnce, Failed
  <2>3. RunsOnTheNewestArc'
      BY <1>3 DEF RunsOnTheNewestArc
  <2> QED BY <1>5, <2>1, <2>2, <2>3 DEF WorldIInv, WorldCanBeTrusted, ToldIsKept, MailIsSound, told
<1> QED BY <1>4, <1>6, <1>8, <1>9, <1>12, <1>13, <1>14 DEF WorldIInv

LEMMA MarkKeepsTheRest ==
    ASSUME WorldAssumption, WorldIInv, NEW r \in Runners, MarkReflected(r)
    PROVE  /\ row' \in Rows /\ row'.exists
           /\ row'.cursor = row.cursor /\ row'.next = row.next /\ row'.detail = row.detail
           /\ row'.materials = row.materials /\ row'.roster = row.roster
           /\ row'.reflected = rnd[r].day
           /\ row'.digested = IF rnd[r].briefing THEN rnd[r].day ELSE row.digested
<1>1. rnd[r].day \in 0 .. MaxDay /\ row \in Rows
    BY UpFacts, Numbers DEF Days
<1>2. CASE rnd[r].briefing
  <2> DEFINE new == [reflected |-> rnd[r].day, digested |-> rnd[r].day]
  <2>1. /\ row' = [f \in Fields |-> row'[f]] /\ row'.exists = TRUE
        /\ \A f \in Fields \ {"exists"} : row'[f] = IF f \in DOMAIN new THEN new[f] ELSE row[f]
    <3>1. AppendRow(new) /\ DOMAIN new \subseteq Fields \ {"exists"}
        BY <1>2 DEF MarkReflected, Fields
    <3> QED BY <1>1, <3>1, Appended
  <2>2. /\ row'.cursor = row.cursor /\ row'.next = row.next /\ row'.detail = row.detail
        /\ row'.materials = row.materials /\ row'.roster = row.roster
        /\ row'.reflected = rnd[r].day /\ row'.digested = rnd[r].day
      BY <2>1 DEF Fields
  <2>3. row' \in Rows
      BY <1>1, <2>1, <2>2, RowType DEF Rows
  <2> QED BY <1>2, <2>1, <2>2, <2>3
<1>3. CASE ~rnd[r].briefing
  <2> DEFINE new == [reflected |-> rnd[r].day]
  <2>1. /\ row' = [f \in Fields |-> row'[f]] /\ row'.exists = TRUE
        /\ \A f \in Fields \ {"exists"} : row'[f] = IF f \in DOMAIN new THEN new[f] ELSE row[f]
    <3>1. AppendRow(new) /\ DOMAIN new \subseteq Fields \ {"exists"}
        BY <1>3 DEF MarkReflected, Fields
    <3> QED BY <1>1, <3>1, Appended
  <2>2. /\ row'.cursor = row.cursor /\ row'.next = row.next /\ row'.detail = row.detail
        /\ row'.materials = row.materials /\ row'.roster = row.roster
        /\ row'.reflected = rnd[r].day /\ row'.digested = row.digested
      BY <2>1 DEF Fields
  <2>3. row' \in Rows
      BY <1>1, <2>1, <2>2, RowType DEF Rows
  <2> QED BY <1>3, <2>1, <2>2, <2>3
<1> QED BY <1>2, <1>3

\* What the reflection of the round had as input covers the marks it writes.
LEMMA MarkReflectedStep ==
    ASSUME WorldAssumption, WorldIInv, NEW r \in Runners, MarkReflected(r)
    PROVE  WorldIInv'
<1> DEFINE day == rnd[r].day
           fed == rnd[r].briefing
<1>1. /\ at[r] = "mark" /\ at' = [at EXCEPT ![r] = "run"] /\ rnd' = [rnd EXCEPT ![r].arc = arc]
      /\ UNCHANGED <<acts, markers, clock, wake, worldLock, told, history, used>>
    BY DEF MarkReflected, StartRun, Goto
<1>2. /\ row' \in Rows /\ row'.exists
      /\ row'.cursor = row.cursor /\ row'.next = row.next
      /\ row'.materials = row.materials /\ row'.roster = row.roster
      /\ row'.reflected = day /\ row'.digested = IF fed THEN day ELSE row.digested
    BY MarkKeepsTheRest
<1>3. /\ at'[r] = "run" /\ at' \in [Runners -> At]
      /\ \A q \in Runners : q # r => at'[q] = at[q] /\ at[q] = "idle"
    BY <1>1, UpFacts, OneIsUp DEF At, WorldIInv
<1>4. /\ rnd' = [rnd EXCEPT ![r] = [rnd[r] EXCEPT !.arc = arc]]
      /\ rnd' \in [Runners -> Rounds]
  <2>1. [rnd[r] EXCEPT !.arc = arc] \in Rounds
      BY UpFacts DEF Rounds, WorldIInv, WorldTypeOK
  <2> QED BY <1>1, <2>1, UpFacts
<1>5. /\ rnd'[r].day = day /\ rnd'[r].batch = rnd[r].batch
      /\ rnd'[r].rid = rnd[r].rid /\ rnd'[r].briefing = fed
      /\ rnd'[r].owed = rnd[r].owed /\ rnd'[r].arc = arc
      /\ rnd'[r].sleeps = rnd[r].sleeps
    BY <1>1, <1>4, UpFacts DEF Rounds
<1>6. UNCHANGED <<markers, today, wakes, worldLock, told, arc, done, twice, overtaken, used>>
    BY <1>1 DEF clock, wake, history, told
<1>7. WorldTypeOK' /\ Locked'
    BY <1>1, <1>2, <1>3, <1>4 DEF WorldIInv, WorldTypeOK, Locked, acts, clock, wake, told, history
<1>8. DayIsNewest(r) /\ BatchIsNext(r) /\ StepIsEarned(r) /\ SleepIsBounded(r)
    BY <1>1 DEF WorldIInv, RoundIsSound, Opened, Reflecting
<1>9. /\ day <= today /\ day \in Nat /\ today \in Nat /\ row.digested \in Nat
      /\ row.reflected \in Nat /\ row.reflected <= day /\ row.digested <= day
      /\ row.materials <= day /\ row.roster <= day
    BY <1>8, UpFacts, Numbers DEF DayIsNewest, Marks, Rows, WorldIInv, WorldTypeOK
<1>10. RowIsSound'
  <2>1. /\ row'.materials <= today /\ row'.roster <= today
        /\ row'.reflected <= today /\ row'.digested <= today /\ row'.digested <= row'.reflected
      BY <1>2, <1>9 DEF WorldIInv, RowIsSound, Marks
  <2> QED BY <1>2, <1>6, <2>1 DEF WorldIInv, RowIsSound, Marks
<1>11. MarkersAreSound' /\ Deliberated' = Deliberated
    BY <1>2, <1>6 DEF WorldIInv, MarkersAreSound, Accounted, Deliberated
<1>12. DeliberatedIsRemembered'
    BY <1>1, <1>3, <1>6 DEF WorldIInv, DeliberatedIsRemembered, Remembered
<1>13. RoundIsSound(r)'
  <2>1. DayIsNewest(r)'
    <3>1. \A k \in Marks : row'[k] <= day
        BY <1>2, <1>9 DEF Marks
    <3> QED BY <1>5, <1>6, <1>8, <3>1 DEF DayIsNewest
  <2>2. BatchIsNext(r)'
      BY <1>1, <1>2, <1>3, <1>5, <1>6, <1>8 DEF BatchIsNext
  <2>3. SleepIsBounded(r)'
      BY <1>1, <1>3, <1>5, <1>6, <1>8 DEF SleepIsBounded
  <2>4. StepIsEarned(r)'
    <3>1. Briefed(r)' = Briefed(r) /\ Introduced(r)' = Introduced(r)
        BY <1>5 DEF Briefed, Introduced, Stimulus
    <3> QED BY <1>2, <1>3, <1>5, <1>6, <1>8, <3>1
            DEF StepIsEarned, Reflecting, Running, Closing
  <2> QED BY <2>1, <2>2, <2>3, <2>4 DEF RoundIsSound
<1>14. \A q \in Runners : RoundIsSound(q)'
  <2>1. SUFFICES ASSUME NEW q \in Runners, q # r PROVE RoundIsSound(q)'
      BY <1>13
  <2> QED BY <1>3, <2>1 DEF RoundIsSound
<1>15. NothingTwice'
  <2>1. SUFFICES ASSUME ~Failed' PROVE NothingTwice'
      BY DEF NothingTwice
  <2>2. ~Failed
      BY <1>6, <2>1 DEF Failed
  <2>3. /\ \A d \in done.briefing : d <= row.materials
        /\ \A d \in done.roster : d <= row.roster
      BY <1>1, <1>3, <2>2 DEF WorldIInv, NothingTwice, Closing
  <2>4. /\ \A d \in done.reflection : d <= row.reflected \/ d = day
        /\ \A d \in done.digest : d <= row.digested \/ (fed /\ d = day)
      BY <1>1, <1>3, <2>2 DEF WorldIInv, NothingTwice
  <2>5. \A d \in done.reflection \cup done.digest : d \in Nat
      BY UpFacts, Numbers DEF Finished
  <2>6. /\ \A d \in done.reflection : d <= row'.reflected
        /\ \A d \in done.digest : d <= row'.digested
      BY <1>2, <1>9, <2>4, <2>5
  <2> QED BY <1>2, <1>6, <2>2, <2>3, <2>6 DEF WorldIInv, NothingTwice
<1>16. WorldCanBeTrusted' /\ MailIsSound'
  <2>1. MarksAreEarned'
    <3>1. day \in done.reflection /\ (fed => day \in done.digest)
        BY <1>1, <1>8 DEF StepIsEarned
    <3> QED BY <1>2, <1>6, <1>11, <3>1 DEF WorldIInv, WorldCanBeTrusted, MarksAreEarned
  <2>2. RunsOnTheNewestArc'
      BY <1>3, <1>5, <1>6 DEF RunsOnTheNewestArc, Stimulus
  <2> QED BY <1>6, <2>1, <2>2
          DEF WorldIInv, WorldCanBeTrusted, InputsComeOnce, ToldIsKept, MailIsSound, told
<1>17. done' \in Finished
    BY <1>6 DEF WorldIInv, Finished
<1> QED BY <1>7, <1>10, <1>11, <1>12, <1>14, <1>15, <1>16, <1>17 DEF WorldIInv

--------------------------------------------------------------------------------
\* The end of the run, its record and its bookkeeping.

\* No marker of its day reaches into the batch of a run: who has had one of its acts
\* that day has lost the record.
LEMMA BatchIsNew ==
    ASSUME WorldAssumption, WorldIInv, NEW r \in Runners, at[r] = "run",
           NEW a \in rnd[r].batch, <<rnd[r].day, a>> \in done.act
    PROVE  rnd[r].day \in done.unrecorded
<1> DEFINE day == rnd[r].day
<1>1. day \in Days /\ a \in Acts /\ a \in Nat /\ row.cursor \in Nat
    BY UpFacts, Numbers DEF Rounds, Rows
<1>2. Remembered(day, a)
    BY <1>1 DEF WorldIInv, DeliberatedIsRemembered
<1>3. \A q \in Runners : at[q] # "persist"
    BY OneIsUp DEF WorldIInv
<1>4. ASSUME NEW m \in markers[day], a <= m.end PROVE FALSE
  <2>1. m.end \in Nat
    <3>1. m \in Marker
        BY <1>1, UpFacts
    <3> QED BY <3>1, Numbers DEF Marker
  <2>2. BatchIsNext(r)
      BY DEF WorldIInv, RoundIsSound, Opened, Running
  <2>3. m.end <= row.cursor /\ a > row.cursor
      BY <2>2 DEF BatchIsNext
  <2> QED BY <1>1, <1>4, <2>1, <2>3
<1> QED BY <1>2, <1>3, <1>4 DEF Remembered

LEMMA RunEndsStep ==
    ASSUME WorldAssumption, WorldIInv, NEW r \in Runners, RunEnds(r)
    PROVE  WorldIInv'
<1> DEFINE day == rnd[r].day
           fed == {day} \X rnd[r].batch
           days(cond) == IF cond THEN {day} ELSE {}
           Twice(what, fresh) == IF fresh \cap done[what] # {} THEN {<<what, day>>} ELSE {}
<1>1. /\ at[r] = "run"
      /\ done' = [done EXCEPT !.act = done.act \cup fed,
                              !.briefing = done.briefing \cup days(Briefed(r)),
                              !.roster = done.roster \cup days(Introduced(r))]
      /\ twice' = twice \cup Twice("act", fed) \cup Twice("briefing", days(Briefed(r)))
                        \cup Twice("roster", days(Introduced(r)))
      /\ at' = [at EXCEPT ![r] = "persist"]
      /\ UNCHANGED <<acts, row, markers, clock, wake, worldLock, rnd, told, overtaken, used>>
    BY DEF RunEnds, Goto, Stimulus, Again
<1>2. day \in Days /\ rnd[r].batch \in SUBSET Acts /\ fed \subseteq Days \X Acts
    BY UpFacts DEF Rounds
<1>3. /\ at'[r] = "persist" /\ at' \in [Runners -> At]
      /\ \A q \in Runners : q # r => at'[q] = at[q] /\ at[q] = "idle"
    BY <1>1, UpFacts, OneIsUp DEF At, WorldIInv
<1>4. days(Briefed(r)) \subseteq Days /\ days(Introduced(r)) \subseteq Days
    BY <1>2
<1>5. /\ done'.act = done.act \cup fed
      /\ done'.briefing = done.briefing \cup days(Briefed(r))
      /\ done'.roster = done.roster \cup days(Introduced(r))
      /\ done'.reflection = done.reflection /\ done'.digest = done.digest
      /\ done'.unrecorded = done.unrecorded
      /\ done' \in Finished
  <2> HIDE DEF fed, days
  <2> QED BY <1>1, <1>2, <1>4, UpFacts DEF Finished
<1>6. UNCHANGED <<row, markers, today, wakes, worldLock, rnd, told, overtaken, used>>
    BY <1>1 DEF clock, wake
<1>7. WorldTypeOK' /\ Locked'
  <2>1. /\ Twice("act", fed) \subseteq {<<"act", day>>}
        /\ Twice("briefing", days(Briefed(r))) \subseteq {<<"briefing", day>>}
        /\ Twice("roster", days(Introduced(r))) \subseteq {<<"roster", day>>}
      OBVIOUS
  <2> HIDE DEF Twice, fed, days
  <2>2. twice' \subseteq {"act", "briefing", "roster", "reflection"} \X Days
      BY <1>1, <1>2, <2>1 DEF WorldIInv, WorldTypeOK
  <2> QED BY <1>1, <1>3, <2>2 DEF WorldIInv, WorldTypeOK, Locked, acts, clock, wake, told
<1>8. Deliberated \subseteq Deliberated' /\ Accounted \subseteq Accounted'
  <2> HIDE DEF fed
  <2> QED BY <1>5, <1>6 DEF Deliberated, Accounted
<1>9. RowIsSound' /\ MarkersAreSound'
    BY <1>6, <1>8 DEF WorldIInv, RowIsSound, MarkersAreSound
<1>10. DeliberatedIsRemembered'
  <2>1. SUFFICES ASSUME NEW d \in Days, NEW a \in Acts, <<d, a>> \in done'.act
                 PROVE  Remembered(d, a)'
      BY DEF DeliberatedIsRemembered
  <2>2. CASE <<d, a>> \in done.act
    <3>1. Remembered(d, a)
        BY <2>2 DEF WorldIInv, DeliberatedIsRemembered
    <3>2. \A q \in Runners : at[q] # "persist"
        BY <1>1, <1>3
    <3> QED BY <1>5, <1>6, <3>1, <3>2 DEF Remembered
  <2>3. CASE <<d, a>> \notin done.act
    <3>1. d = day /\ a \in rnd[r].batch
        BY <1>5, <2>1, <2>3
    <3> QED BY <1>3, <1>6, <3>1 DEF Remembered
  <2> QED BY <2>2, <2>3
<1>11. DayIsNewest(r) /\ BatchIsNext(r) /\ StepIsEarned(r) /\ SleepIsBounded(r)
    BY <1>1 DEF WorldIInv, RoundIsSound, Opened, Running
<1>12. RoundIsSound(r)'
  <2>1. DayIsNewest(r)' /\ BatchIsNext(r)' /\ SleepIsBounded(r)'
      BY <1>1, <1>3, <1>6, <1>11 DEF DayIsNewest, BatchIsNext, SleepIsBounded
  <2>2. StepIsEarned(r)'
    <3>1. Briefed(r)' = Briefed(r) /\ Introduced(r)' = Introduced(r)
        BY <1>6 DEF Briefed, Introduced, Stimulus
    <3> QED BY <1>3, <1>5, <1>6, <1>11, <3>1 DEF StepIsEarned, Reflecting, Running, Closing
  <2> QED BY <2>1, <2>2 DEF RoundIsSound
<1>13. \A q \in Runners : RoundIsSound(q)'
  <2>1. SUFFICES ASSUME NEW q \in Runners, q # r PROVE RoundIsSound(q)'
      BY <1>12
  <2> QED BY <1>3, <2>1 DEF RoundIsSound
<1>14. fed \cap done.act # {} => day \in done.unrecorded
    BY <1>1, BatchIsNew
<1>15. NothingTwice'
  <2>1. SUFFICES ASSUME ~Failed' PROVE NothingTwice'
      BY DEF NothingTwice
  <2>2. ~Failed
      BY <1>6, <2>1 DEF Failed
  <2>3. /\ \A d \in done.briefing : d <= row.materials
        /\ \A d \in done.roster : d <= row.roster
        /\ \A d \in done.reflection : d <= row.reflected
        /\ \A d \in done.digest : d <= row.digested
        /\ row.exists
      BY <1>1, <1>3, <2>2 DEF WorldIInv, NothingTwice, Closing, Reflecting
  <2>4. twice = {} /\ done.unrecorded = {}
      BY <2>2 DEF WorldIInv, NothingTwice
  <2>5. /\ row.materials \in Nat /\ row.roster \in Nat /\ day \in Nat
        /\ row.materials <= day /\ row.roster <= day
      BY <1>2, <1>11, UpFacts, Numbers DEF DayIsNewest, Marks, Rows
  <2>6. Briefed(r) => day \notin done.briefing
      BY <1>11, <2>3, <2>5 DEF StepIsEarned
  <2>7. Introduced(r) => day \notin done.roster
      BY <1>11, <2>3, <2>5 DEF StepIsEarned
  <2>8. twice' = {}
      BY <1>1, <1>14, <2>4, <2>6, <2>7
  <2>9. Briefed(r)' = Briefed(r) /\ Introduced(r)' = Introduced(r)
      BY <1>6 DEF Briefed, Introduced, Stimulus
  <2>10. \A d \in done'.briefing : d <= row.materials
             \/ \E q \in Runners : at'[q] \in Closing /\ Briefed(q)' /\ rnd'[q].day = d
      BY <1>3, <1>5, <1>6, <2>3, <2>9 DEF Closing
  <2>11. \A d \in done'.roster : d <= row.roster
             \/ \E q \in Runners : at'[q] \in Closing /\ Introduced(q)' /\ rnd'[q].day = d
      BY <1>3, <1>5, <1>6, <2>3, <2>9 DEF Closing
  <2> HIDE DEF Twice, fed, days
  <2> QED BY <1>5, <1>6, <2>3, <2>4, <2>8, <2>10, <2>11 DEF NothingTwice
<1>16. WorldCanBeTrusted' /\ MailIsSound'
  <2>1. MarksAreEarned'
    <3> HIDE DEF fed, days
    <3> QED BY <1>5, <1>6, <1>8 DEF WorldIInv, WorldCanBeTrusted, MarksAreEarned
  <2>2. InputsComeOnce'
    <3>1. ASSUME NEW input \in twice', input[1] = "act" PROVE input[2] \in done'.unrecorded
      <4>1. CASE input \in twice
          BY <1>5, <3>1, <4>1 DEF WorldIInv, WorldCanBeTrusted, InputsComeOnce
      <4>2. CASE input \notin twice
        <5>1. input \in Twice("act", fed)
            BY <1>1, <3>1, <4>2
        <5> QED BY <1>5, <1>14, <5>1
      <4> QED BY <4>1, <4>2
    <3>2. twice' # {} => Failed'
        BY <1>15 DEF NothingTwice
    <3> QED BY <3>1, <3>2 DEF InputsComeOnce, Failed
  <2>3. RunsOnTheNewestArc'
      BY <1>3 DEF RunsOnTheNewestArc
  <2> QED BY <1>6, <2>1, <2>2, <2>3 DEF WorldIInv, WorldCanBeTrusted, ToldIsKept, MailIsSound, told
<1> QED BY <1>5, <1>7, <1>9, <1>10, <1>13, <1>15, <1>16 DEF WorldIInv

\* What a round that records its run, or fails to, leaves as it is.
LEMMA RecordKeeps ==
    ASSUME WorldAssumption, WorldIInv, NEW r \in Runners, at[r] = "persist",
           at' = [at EXCEPT ![r] = "close"],
           UNCHANGED <<row, today, wakes, worldLock, rnd, told, twice, overtaken>>,
           Failed => Failed', Failed' \/ done' = done,
           done'.act = done.act, done'.briefing = done.briefing, done'.roster = done.roster,
           done'.reflection = done.reflection, done'.digest = done.digest,
           done.unrecorded \subseteq done'.unrecorded
    PROVE  /\ at' \in [Runners -> At] /\ at'[r] = "close"
           /\ \A q \in Runners : q # r => at'[q] = at[q] /\ at[q] = "idle"
           /\ RowIsSound' /\ Locked' /\ StepIsEarned(r)' /\ SleepIsBounded(r)'
           /\ NothingTwice' /\ WorldCanBeTrusted' /\ MailIsSound'
           /\ DayIsNewest(r) /\ BatchIsNext(r) /\ StepIsEarned(r)
           /\ Deliberated' = Deliberated /\ Accounted' = Accounted
<1>1. /\ at'[r] = "close" /\ at' \in [Runners -> At]
      /\ \A q \in Runners : q # r => at'[q] = at[q] /\ at[q] = "idle"
    BY UpFacts, OneIsUp DEF At, WorldIInv
<1>2. DayIsNewest(r) /\ BatchIsNext(r) /\ StepIsEarned(r) /\ SleepIsBounded(r)
    BY DEF WorldIInv, RoundIsSound, Opened, Closing
<1>3. Briefed(r)' = Briefed(r) /\ Introduced(r)' = Introduced(r)
    BY DEF Briefed, Introduced, Stimulus
<1>4. StepIsEarned(r)' /\ SleepIsBounded(r)'
    BY <1>1, <1>2, <1>3 DEF StepIsEarned, SleepIsBounded, Reflecting, Running, Closing
<1>5. Deliberated' = Deliberated /\ Accounted' = Accounted
    BY DEF Deliberated, Accounted
<1>6. Locked' /\ RowIsSound'
    BY <1>1 DEF WorldIInv, Locked, RowIsSound
<1>7. NothingTwice'
  <2>1. SUFFICES ASSUME ~Failed' PROVE NothingTwice'
      BY DEF NothingTwice
  <2>2. ~Failed /\ done' = done
      BY <2>1
  <2>3. /\ \A d \in done.briefing : d <= row.materials \/ (Briefed(r) /\ rnd[r].day = d)
        /\ \A d \in done.roster : d <= row.roster \/ (Introduced(r) /\ rnd[r].day = d)
        /\ \A d \in done.reflection : d <= row.reflected
        /\ \A d \in done.digest : d <= row.digested
        /\ row.exists /\ twice = {} /\ done.unrecorded = {}
      BY <1>1, <2>2 DEF WorldIInv, NothingTwice, Closing, Reflecting
  <2>4. /\ \A d \in done'.briefing : d <= row'.materials
              \/ \E q \in Runners : at'[q] \in Closing /\ Briefed(q)' /\ rnd'[q].day = d
        /\ \A d \in done'.roster : d <= row'.roster
              \/ \E q \in Runners : at'[q] \in Closing /\ Introduced(q)' /\ rnd'[q].day = d
      BY <1>1, <1>3, <2>2, <2>3 DEF Closing
  <2> QED BY <2>2, <2>3, <2>4 DEF NothingTwice
<1>8. WorldCanBeTrusted' /\ MailIsSound'
  <2>1. MarksAreEarned'
      BY <1>5 DEF WorldIInv, WorldCanBeTrusted, MarksAreEarned
  <2>2. InputsComeOnce'
      BY DEF WorldIInv, WorldCanBeTrusted, InputsComeOnce, Failed
  <2>3. RunsOnTheNewestArc'
      BY <1>1 DEF RunsOnTheNewestArc
  <2> QED BY <2>1, <2>2, <2>3 DEF WorldIInv, WorldCanBeTrusted, ToldIsKept, MailIsSound, told
<1> QED BY <1>1, <1>2, <1>4, <1>5, <1>6, <1>7, <1>8

LEMMA PersistFailsStep ==
    ASSUME WorldAssumption, WorldIInv, NEW r \in Runners, PersistFails(r)
    PROVE  WorldIInv'
<1>1. /\ at[r] = "persist" /\ Use("persist") /\ Unrecorded(r)
      /\ at' = [at EXCEPT ![r] = "close"]
      /\ UNCHANGED <<acts, row, markers, clock, wake, worldLock, rnd, told>>
    BY DEF PersistFails, Goto
<1>2. used' \in [Events -> Nat] /\ Failed'
  <2>1. "persist" \in Events
      BY DEF Events
  <2> QED BY <1>1, <2>1, UseCounts
<1>3. /\ at' \in [Runners -> At] /\ at'[r] = "close"
      /\ \A q \in Runners : q # r => at'[q] = at[q] /\ at[q] = "idle"
      /\ RowIsSound' /\ Locked' /\ StepIsEarned(r)' /\ SleepIsBounded(r)'
      /\ NothingTwice' /\ WorldCanBeTrusted' /\ MailIsSound'
      /\ DayIsNewest(r) /\ BatchIsNext(r) /\ StepIsEarned(r)
      /\ Deliberated' = Deliberated /\ Accounted' = Accounted
  <2>1. UNCHANGED <<row, today, wakes, worldLock, rnd, told>>
      BY <1>1 DEF clock, wake
  <2> QED BY <1>1, <1>2, <2>1, UnrecordedFacts, RecordKeeps
<1>4. WorldTypeOK'
    BY <1>1, <1>2, <1>3, UnrecordedFacts DEF WorldIInv, WorldTypeOK, acts, clock, wake, told
<1>5. UNCHANGED <<row, markers, today, rnd, overtaken>>
    BY <1>1, UnrecordedFacts DEF clock
<1>6. MarkersAreSound'
    BY <1>3, <1>5 DEF WorldIInv, MarkersAreSound
<1>7. DeliberatedIsRemembered'
  <2>1. SUFFICES ASSUME NEW d \in Days, NEW a \in Acts, <<d, a>> \in done'.act
                 PROVE  Remembered(d, a)'
      BY DEF DeliberatedIsRemembered
  <2>2. Remembered(d, a)
      BY <1>1, <2>1, UnrecordedFacts DEF WorldIInv, DeliberatedIsRemembered
  <2> QED BY <1>1, <1>3, <1>5, <2>2, UnrecordedFacts DEF Remembered
<1>8. \A q \in Runners : RoundIsSound(q)'
  <2>1. RoundIsSound(r)'
    <3>1. DayIsNewest(r)' /\ BatchIsNext(r)'
        BY <1>1, <1>3, <1>5 DEF DayIsNewest, BatchIsNext
    <3> QED BY <1>3, <3>1 DEF RoundIsSound
  <2>2. SUFFICES ASSUME NEW q \in Runners, q # r PROVE RoundIsSound(q)'
      BY <2>1
  <2> QED BY <1>3, <2>2 DEF RoundIsSound
<1> QED BY <1>1, <1>3, <1>4, <1>6, <1>7, <1>8, UnrecordedFacts DEF WorldIInv

\* The marker has the name of the cursor and ends where the batch does.
LEMMA PersistStep ==
    ASSUME WorldAssumption, WorldIInv, NEW r \in Runners, Persist(r)
    PROVE  WorldIInv'
<1> DEFINE x == rnd[r]
           day == x.day
           own == [rid |-> x.rid, end |-> Latest(x.batch)]
<1>1. /\ at[r] = "persist" /\ at' = [at EXCEPT ![r] = "close"]
      /\ markers' = [markers EXCEPT ![day] =
             IF x.batch = {} THEN markers[day] ELSE markers[day] \cup {own}]
      /\ UNCHANGED <<acts, row, clock, wake, worldLock, rnd, told, history, used>>
    BY DEF Persist, Goto
<1>2. /\ day \in Days /\ x.batch \in SUBSET Acts /\ row.cursor \in 0 .. MaxActs
      /\ markers \in [Days -> SUBSET Marker]
    BY UpFacts DEF Rounds, Rows
<1>3. UNCHANGED <<row, today, wakes, worldLock, rnd, told, done, twice, overtaken, used>>
      /\ Failed' = Failed
    BY <1>1 DEF clock, wake, history, Failed
<1>4. /\ at' \in [Runners -> At] /\ at'[r] = "close"
      /\ \A q \in Runners : q # r => at'[q] = at[q] /\ at[q] = "idle"
      /\ RowIsSound' /\ Locked' /\ StepIsEarned(r)' /\ SleepIsBounded(r)'
      /\ NothingTwice' /\ WorldCanBeTrusted' /\ MailIsSound'
      /\ DayIsNewest(r) /\ BatchIsNext(r) /\ StepIsEarned(r)
      /\ Deliberated' = Deliberated /\ Accounted' = Accounted
  <2> HIDE DEF own, x, day
  <2> QED BY <1>1, <1>3, RecordKeeps
<1>5. x.batch # {} =>
          /\ own \in Marker /\ own.rid = row.cursor /\ own.end = Latest(x.batch)
          /\ Latest(x.batch) \in x.batch /\ Latest(x.batch) > row.cursor
          /\ \A a \in x.batch : a <= Latest(x.batch)
  <2>1. SUFFICES ASSUME x.batch # {}
                 PROVE  /\ own \in Marker /\ own.rid = row.cursor /\ own.end = Latest(x.batch)
                        /\ Latest(x.batch) \in x.batch /\ Latest(x.batch) > row.cursor
                        /\ \A a \in x.batch : a <= Latest(x.batch)
      OBVIOUS
  <2>2. Latest(x.batch) \in x.batch /\ \A a \in x.batch : a <= Latest(x.batch)
      BY <1>2, <2>1, LastOf
  <2>3. x.rid = row.cursor /\ Latest(x.batch) > row.cursor
      BY <1>4, <2>1, <2>2 DEF BatchIsNext
  <2> QED BY <1>2, <2>2, <2>3 DEF Marker
<1> DEFINE ms == IF x.batch = {} THEN markers[day] ELSE markers[day] \cup {own}
<1>6. /\ markers' \in [Days -> SUBSET Marker] /\ markers'[day] = ms
      /\ markers[day] \subseteq ms /\ (x.batch # {} => own \in ms)
      /\ \A m \in ms : m \in markers[day] \/ (x.batch # {} /\ m = own)
      /\ \A d \in Days : d # day => markers'[d] = markers[d]
  <2>1. ms \subseteq Marker
      BY <1>2, <1>5
  <2> QED BY <1>1, <1>2, <2>1
<1> HIDE DEF ms, own
<1>7. WorldTypeOK' /\ done' \in Finished
    BY <1>1, <1>3, <1>4, <1>6, UpFacts
       DEF WorldIInv, WorldTypeOK, acts, clock, wake, told, Finished
<1>8. 1 .. Latest(x.batch) \subseteq Accounted
  <2>1. SUFFICES ASSUME NEW a \in 1 .. Latest(x.batch) PROVE a \in Accounted
      OBVIOUS
  <2>2. a <= row.cursor \/ a \in x.batch \/ a \in overtaken
      BY <1>4 DEF BatchIsNext
  <2>3. CASE a <= row.cursor
    <3>1. a \in 1 .. row.cursor
        BY <1>2, <2>3, Numbers
    <3> QED BY <3>1 DEF WorldIInv, WorldCanBeTrusted, MarksAreEarned, Accounted
  <2>4. CASE a \in x.batch
    <3>1. <<day, a>> \in done.act
        BY <1>1, <1>4, <2>4 DEF StepIsEarned, Closing
    <3> QED BY <3>1 DEF Accounted, Deliberated
  <2>5. CASE a \in overtaken
      BY <2>5 DEF Accounted
  <2> QED BY <2>2, <2>3, <2>4, <2>5
<1>9. x.batch # {} => \A m \in markers[day] : m.end <= row.cursor /\ m.rid < m.end
                                             /\ m.rid \in Nat /\ m.end \in Nat
  <2>1. SUFFICES ASSUME x.batch # {}, NEW m \in markers[day]
                 PROVE  /\ m.end <= row.cursor /\ m.rid < m.end
                        /\ m.rid \in Nat /\ m.end \in Nat
      OBVIOUS
  <2>2. m \in Marker
      BY <1>2
  <2> QED BY <1>1, <1>2, <1>4, <2>1, <2>2, Numbers
          DEF BatchIsNext, WorldIInv, MarkersAreSound, Marker
<1>10. MarkersAreSound'
  <2>1. ASSUME NEW m \in ms
        PROVE  /\ m.rid < m.end /\ 1 .. m.end \subseteq Accounted
               /\ \A n \in ms : m.rid = n.rid => m = n
    <3>1. m.rid < m.end /\ 1 .. m.end \subseteq Accounted
      <4>1. CASE m \in markers[day]
          BY <1>2, <4>1 DEF WorldIInv, MarkersAreSound
      <4>2. CASE x.batch # {} /\ m = own
          BY <1>5, <1>8, <4>2
      <4> QED BY <1>6, <4>1, <4>2
    <3>2. ASSUME NEW n \in ms, m.rid = n.rid PROVE m = n
      <4>1. CASE m \in markers[day] /\ n \in markers[day]
          BY <1>2, <3>2, <4>1 DEF WorldIInv, MarkersAreSound
      <4>2. CASE x.batch # {} /\ m = own /\ n \in markers[day]
          BY <1>2, <1>5, <1>9, <3>2, <4>2
      <4>3. CASE x.batch # {} /\ n = own /\ m \in markers[day]
          BY <1>2, <1>5, <1>9, <3>2, <4>3
      <4> QED BY <1>6, <4>1, <4>2, <4>3
    <3> QED BY <3>1, <3>2
  <2>2. \A d \in Days : \A m \in markers'[d] :
           /\ m.rid < m.end
           /\ 1 .. m.end \subseteq Accounted
           /\ \A n \in markers'[d] : m.rid = n.rid => m = n
    <3>1. SUFFICES ASSUME NEW d \in Days
                   PROVE  \A m \in markers'[d] : /\ m.rid < m.end
                              /\ 1 .. m.end \subseteq Accounted
                              /\ \A n \in markers'[d] : m.rid = n.rid => m = n
        OBVIOUS
    <3>2. CASE d = day
        BY <1>6, <2>1, <3>2
    <3>3. CASE d # day
        BY <1>6, <3>3 DEF WorldIInv, MarkersAreSound
    <3> QED BY <3>2, <3>3
  <2>3. \A d \in Days : d > today => markers'[d] = {}
    <3>1. day <= today /\ today \in Nat /\ day \in Nat
        BY <1>2, <1>4, Numbers DEF DayIsNewest, WorldIInv, WorldTypeOK
    <3>2. \A d \in Days : d > today => d # day
        BY <3>1
    <3> QED BY <1>6, <3>2 DEF WorldIInv, MarkersAreSound
  <2>4. ASSUME NEW m \in markers'[today], m.end > row.cursor PROVE m.rid = row.cursor
    <3>1. today \in Days
        BY DEF WorldIInv, WorldTypeOK
    <3>2. CASE m \in markers[today]
        BY <2>4, <3>2 DEF WorldIInv, MarkersAreSound
    <3>3. CASE m \notin markers[today]
        BY <1>5, <1>6, <2>4, <3>1, <3>3
    <3> QED BY <3>2, <3>3
  <2> QED BY <1>3, <1>4, <2>2, <2>3, <2>4 DEF MarkersAreSound
<1>11. DeliberatedIsRemembered'
  <2>1. SUFFICES ASSUME NEW d \in Days, NEW a \in Acts, <<d, a>> \in done.act
                 PROVE  d \in done.unrecorded \/ \E m \in markers'[d] : a <= m.end
      BY <1>3 DEF DeliberatedIsRemembered, Remembered
  <2>2. Remembered(d, a)
      BY <2>1 DEF WorldIInv, DeliberatedIsRemembered
  <2>3. markers[d] \subseteq markers'[d]
      BY <1>6
  <2>4. CASE d = day /\ a \in x.batch
      BY <1>5, <1>6, <2>4
  <2> QED BY <1>4, <2>2, <2>3, <2>4 DEF Remembered
<1>12. RoundIsSound(r)'
  <2>1. DayIsNewest(r)'
    <3>1. \A d \in Days : d > day => markers'[d] = {}
      <4>1. day \in Nat /\ \A d \in Days : d > day => d # day
          BY <1>2, Numbers
      <4> QED BY <1>4, <1>6, <4>1 DEF DayIsNewest
    <3> QED BY <1>3, <1>4, <3>1 DEF DayIsNewest
  <2>2. BatchIsNext(r)'
    <3>1. x.batch # {} => \A m \in markers'[day] : m.end <= row.cursor \/ m.end = Latest(x.batch)
        BY <1>5, <1>6, <1>9
    <3> QED BY <1>3, <1>4, <3>1 DEF BatchIsNext
  <2> QED BY <1>4, <2>1, <2>2 DEF RoundIsSound
<1>13. \A q \in Runners : RoundIsSound(q)'
  <2>1. SUFFICES ASSUME NEW q \in Runners, q # r PROVE RoundIsSound(q)'
      BY <1>12
  <2> QED BY <1>4, <2>1 DEF RoundIsSound
<1> QED BY <1>4, <1>7, <1>10, <1>11, <1>13 DEF WorldIInv

LEMMA CloseKeepsTheRest ==
    ASSUME WorldAssumption, WorldIInv, NEW r \in Runners, Close(r), row.exists
    PROVE  /\ row' \in Rows /\ row'.exists
           /\ row'.next = row.next /\ row'.detail = row.detail
           /\ row'.reflected = row.reflected /\ row'.digested = row.digested
           /\ row'.cursor = IF rnd[r].batch # {} THEN Latest(rnd[r].batch) ELSE row.cursor
           /\ row'.materials = IF Briefed(r) THEN rnd[r].day ELSE row.materials
           /\ row'.roster = IF Introduced(r) THEN rnd[r].day ELSE row.roster
<1> DEFINE c == IF rnd[r].batch # {} THEN Latest(rnd[r].batch) ELSE row.cursor
           m == IF Briefed(r) THEN rnd[r].day ELSE row.materials
           o == IF Introduced(r) THEN rnd[r].day ELSE row.roster
           new == [cursor |-> c, materials |-> m, roster |-> o]
<1>1. rnd[r].day \in 0 .. MaxDay /\ row \in Rows
    BY UpFacts, Numbers DEF Days
<1>2. c \in 0 .. MaxActs /\ m \in 0 .. MaxDay /\ o \in 0 .. MaxDay
  <2>1. rnd[r].batch # {} => Latest(rnd[r].batch) \in 0 .. MaxActs
    <3>1. rnd[r].batch \in SUBSET Acts
        BY UpFacts DEF Rounds
    <3>2. rnd[r].batch # {} => Latest(rnd[r].batch) \in Acts
        BY <3>1, LastOf
    <3> QED BY <3>2, Numbers DEF Acts
  <2> QED BY <1>1, <2>1 DEF Rows
<1>3. AppendRow(new)
    BY DEF Close, AppendIfRow
<1> HIDE DEF c, m, o
<1>4. /\ row' = [f \in Fields |-> row'[f]] /\ row'.exists = TRUE
      /\ \A f \in Fields \ {"exists"} : row'[f] = IF f \in DOMAIN new THEN new[f] ELSE row[f]
  <2>1. DOMAIN new \subseteq Fields \ {"exists"}
      BY DEF Fields
  <2> QED BY <1>1, <1>3, <2>1, Appended
<1>5. /\ row'.cursor = c /\ row'.next = row.next /\ row'.detail = row.detail
      /\ row'.materials = m /\ row'.roster = o
      /\ row'.reflected = row.reflected /\ row'.digested = row.digested
    BY <1>4 DEF Fields
<1>6. row' \in Rows
    BY <1>1, <1>2, <1>4, <1>5, RowType DEF Rows
<1> QED BY <1>4, <1>5, <1>6 DEF c, m, o

\* What the run had as input covers the cursor and the marks; no marker of today
\* ends behind the cursor but under its name.
LEMMA CloseStep ==
    ASSUME WorldAssumption, WorldIInv, NEW r \in Runners, Close(r)
    PROVE  WorldIInv'
<1> DEFINE x == rnd[r]
           day == x.day
<1>1. /\ at[r] = "close" /\ at' = [at EXCEPT ![r] = "fold"]
      /\ UNCHANGED <<acts, markers, clock, wake, worldLock, rnd, told, history, used>>
    BY DEF Close, Goto
<1>2. /\ row' \in Rows /\ (row.exists => row'.exists)
      /\ row'.next = row.next /\ row'.reflected = row.reflected /\ row'.digested = row.digested
      /\ row'.cursor = row.cursor \/ (x.batch # {} /\ row'.cursor = Latest(x.batch))
      /\ row'.materials = row.materials \/ (Briefed(r) /\ row'.materials = day)
      /\ row'.roster = row.roster \/ (Introduced(r) /\ row'.roster = day)
      /\ row.exists /\ Briefed(r) => row'.materials = day
      /\ row.exists /\ Introduced(r) => row'.roster = day
      /\ row.exists = row'.exists /\ (~row.exists => row' = row)
  <2>1. CASE row.exists
      BY <2>1, CloseKeepsTheRest
  <2>2. CASE ~row.exists
    <3>1. row' = row
        BY <2>2 DEF Close, AppendIfRow
    <3> QED BY <2>2, <3>1, UpFacts
  <2> QED BY <2>1, <2>2
<1>3. UNCHANGED <<markers, today, wakes, worldLock, rnd, told, done, twice, overtaken, used>>
      /\ Failed' = Failed
    BY <1>1 DEF clock, wake, history, Failed
<1>4. /\ at'[r] = "fold" /\ at' \in [Runners -> At]
      /\ \A q \in Runners : q # r => at'[q] = at[q] /\ at[q] = "idle"
    BY <1>1, UpFacts, OneIsUp DEF At, WorldIInv
<1>5. DayIsNewest(r) /\ BatchIsNext(r) /\ StepIsEarned(r) /\ SleepIsBounded(r)
    BY <1>1 DEF WorldIInv, RoundIsSound, Opened, Closing
<1>6. /\ day \in Days /\ day \in Nat /\ today \in Nat /\ day <= today /\ x.batch \in SUBSET Acts
      /\ row.cursor \in Nat /\ row.cursor \in 0 .. MaxActs /\ row'.cursor \in Nat
      /\ row.materials <= day /\ row.roster <= day
      /\ row.reflected <= day /\ row.digested <= day
      /\ row.materials \in Nat /\ row.roster \in Nat
    BY <1>2, <1>5, UpFacts, Numbers DEF DayIsNewest, Marks, Rows, Rounds, WorldIInv, WorldTypeOK
<1>7. WorldTypeOK' /\ Locked' /\ done' \in Finished
    BY <1>1, <1>2, <1>4, UpFacts
       DEF WorldIInv, WorldTypeOK, Locked, acts, clock, wake, told, history, Finished
<1>8. Deliberated' = Deliberated /\ Accounted' = Accounted
    BY <1>3 DEF Deliberated, Accounted
<1>9. x.batch # {} => Latest(x.batch) \in x.batch /\ Latest(x.batch) > row.cursor
    BY <1>5, <1>6, LastOf DEF BatchIsNext
<1>10. row'.cursor >= row.cursor /\ row'.cursor \in Nat
    BY <1>2, <1>6, <1>9
<1>11. RowIsSound'
  <2>1. /\ row'.materials <= today /\ row'.roster <= today
        /\ row'.reflected <= today /\ row'.digested <= today /\ row'.digested <= row'.reflected
      BY <1>2, <1>6 DEF WorldIInv, RowIsSound, Marks
  <2>2. \A k \in Marks : row'[k] # 0 => row'.exists
    <3>1. CASE row.exists
        BY <1>2, <3>1
    <3>2. CASE ~row.exists
        BY <1>2, <3>2 DEF WorldIInv, RowIsSound
    <3> QED BY <3>1, <3>2
  <2> QED BY <1>2, <1>3, <2>1, <2>2 DEF WorldIInv, RowIsSound, Marks
<1>12. MarkersAreSound'
  <2>1. ASSUME NEW m \in markers[today], m.end > row'.cursor PROVE m.rid = row'.cursor
    <3>1. m.end \in Nat
      <4>1. m \in Marker
          BY UpFacts DEF WorldIInv, WorldTypeOK
      <4> QED BY <4>1, Numbers DEF Marker
    <3>2. CASE row'.cursor = row.cursor
        BY <2>1, <3>2 DEF WorldIInv, MarkersAreSound
    <3>3. CASE row'.cursor # row.cursor
      <4>1. x.batch # {} /\ row'.cursor = Latest(x.batch)
          BY <1>2, <3>3
      <4>2. CASE today = day
        <5>1. m.end <= row.cursor \/ m.end = Latest(x.batch)
            BY <1>5, <4>1, <4>2 DEF BatchIsNext
        <5> QED BY <1>6, <1>10, <2>1, <3>1, <4>1, <5>1
      <4>3. CASE today # day
        <5>1. today > day /\ today \in Days
            BY <1>6, <4>3 DEF WorldIInv, WorldTypeOK
        <5> QED BY <1>5, <2>1, <5>1 DEF DayIsNewest
      <4> QED BY <4>2, <4>3
    <3> QED BY <3>2, <3>3
  <2> QED BY <1>3, <1>8, <2>1 DEF WorldIInv, MarkersAreSound
<1>13. DeliberatedIsRemembered'
    BY <1>1, <1>3, <1>4 DEF WorldIInv, DeliberatedIsRemembered, Remembered
<1>14. RoundIsSound(r)'
  <2>1. DayIsNewest(r)'
    <3>1. \A k \in Marks : row'[k] <= day
        BY <1>2, <1>6 DEF Marks
    <3> QED BY <1>3, <1>5, <3>1 DEF DayIsNewest
  <2>2. SleepIsBounded(r)'
      BY <1>1, <1>3, <1>4, <1>5 DEF SleepIsBounded
  <2> QED BY <1>4, <2>1, <2>2 DEF RoundIsSound, Opened, Reflecting, Running, Closing
<1>15. \A q \in Runners : RoundIsSound(q)'
  <2>1. SUFFICES ASSUME NEW q \in Runners, q # r PROVE RoundIsSound(q)'
      BY <1>14
  <2> QED BY <1>4, <2>1 DEF RoundIsSound
<1>16. NothingTwice'
  <2>1. SUFFICES ASSUME ~Failed' PROVE NothingTwice'
      BY DEF NothingTwice
  <2>2. ~Failed
      BY <1>3, <2>1
  <2>3. /\ \A d \in done.briefing : d <= row.materials \/ (Briefed(r) /\ day = d)
        /\ \A d \in done.roster : d <= row.roster \/ (Introduced(r) /\ day = d)
        /\ \A d \in done.reflection : d <= row.reflected
        /\ \A d \in done.digest : d <= row.digested
        /\ row.exists /\ twice = {} /\ done.unrecorded = {}
      BY <1>1, <1>4, <2>2 DEF WorldIInv, NothingTwice, Closing, Reflecting
  <2>4. \A d \in done.briefing \cup done.roster : d \in Nat
      BY UpFacts, Numbers DEF Finished
  <2>5. /\ \A d \in done.briefing : d <= row'.materials
        /\ \A d \in done.roster : d <= row'.roster
      BY <1>2, <1>6, <2>3, <2>4
  <2> QED BY <1>2, <1>3, <2>3, <2>5 DEF NothingTwice
<1>17. WorldCanBeTrusted' /\ MailIsSound'
  <2>1. 1 .. row'.cursor \subseteq Accounted
    <3>1. CASE row'.cursor = row.cursor
        BY <3>1 DEF WorldIInv, WorldCanBeTrusted, MarksAreEarned, Accounted
    <3>2. CASE row'.cursor # row.cursor
      <4>1. SUFFICES ASSUME NEW a \in 1 .. Latest(x.batch) PROVE a \in Accounted
          BY <1>2, <3>2
      <4>2. a <= row.cursor \/ a \in x.batch \/ a \in overtaken
          BY <1>5 DEF BatchIsNext
      <4>3. CASE a <= row.cursor
        <5>1. a \in 1 .. row.cursor
            BY <1>6, <4>3
        <5> QED BY <5>1 DEF WorldIInv, WorldCanBeTrusted, MarksAreEarned, Accounted
      <4>4. CASE a \in x.batch
        <5>1. <<day, a>> \in done.act
            BY <1>1, <1>5, <4>4 DEF StepIsEarned, Closing
        <5> QED BY <5>1 DEF Accounted, Deliberated
      <4>5. CASE a \in overtaken
          BY <4>5 DEF Accounted
      <4> QED BY <4>2, <4>3, <4>4, <4>5
    <3> QED BY <3>1, <3>2
  <2>2. MarksAreEarned'
    <3>1. (Briefed(r) => day \in done.briefing) /\ (Introduced(r) => day \in done.roster)
        BY <1>1, <1>5 DEF StepIsEarned, Closing
    <3> QED BY <1>2, <1>3, <1>8, <2>1, <3>1
            DEF WorldIInv, WorldCanBeTrusted, MarksAreEarned, Accounted
  <2>3. RunsOnTheNewestArc'
      BY <1>4 DEF RunsOnTheNewestArc
  <2> QED BY <1>3, <2>2, <2>3
          DEF WorldIInv, WorldCanBeTrusted, InputsComeOnce, ToldIsKept, MailIsSound, told
<1> QED BY <1>7, <1>11, <1>12, <1>13, <1>15, <1>16, <1>17 DEF WorldIInv

--------------------------------------------------------------------------------
\* The invariant.

LEMMA InitHolds ==
    ASSUME WorldAssumption, WorldInit
    PROVE  WorldIInv
<1>1. /\ at = [r \in Runners |-> "idle"] /\ rnd = [r \in Runners |-> NoRound]
      /\ row = NoRow /\ markers = [d \in Days |-> {}] /\ used = [e \in Events |-> 0]
      /\ done = Nothing /\ twice = {} /\ overtaken = {} /\ today = 1 /\ wakes = 0
      /\ mailed = {} /\ reports = {} /\ narrated = {}
    BY DEF WorldInit
<1>2. row \in Rows
    BY <1>1, Numbers DEF Rows, NoRow
<1>3. WorldTypeOK
  <2>1. 1 \in Days
      BY DEF WorldAssumption, Days
  <2>2. NoRound \in Rounds
    <3>1. Limit["arc"] \in Nat /\ Limit["tell"] \in Nat
        BY DEF WorldAssumption, Events
    <3> QED BY <2>1, <3>1 DEF NoRound, Rounds
  <2>3. 0 \in 0 .. Limit["arc"] /\ 0 \in 0 .. MaxActs /\ 0 \in 0 .. MaxWakes
      BY DEF WorldAssumption, Events
  <2>4. begun \in 0 .. MaxActs /\ committed \subseteq 1 .. begun /\ today \in Days
        /\ landed \subseteq 1 .. today /\ reached \in BOOLEAN /\ selfTicks \subseteq 1 .. wakes
        /\ wakes \in 0 .. MaxWakes /\ arc \in 0 .. Limit["arc"]
        /\ worldLock \in Runners \cup {Free, Orphan}
      BY <2>1, <2>3 DEF WorldInit
  <2>5. markers \in [Days -> SUBSET Marker] /\ used \in [Events -> Nat]
        /\ overtaken \subseteq Acts
        /\ twice \subseteq {"act", "briefing", "roster", "reflection"} \X Days
      BY <1>1
  <2>6. at \in [Runners -> At] /\ rnd \in [Runners -> Rounds]
      BY <1>1, <2>2 DEF At
  <2> QED BY <1>2, <2>4, <2>5, <2>6 DEF WorldTypeOK
<1>4. done \in Finished
    BY <1>1 DEF Nothing, Finished
<1>5. Locked /\ \A r \in Runners : RoundIsSound(r)
    BY <1>1 DEF Locked, RoundIsSound
<1>6. RowIsSound /\ MarkersAreSound /\ DeliberatedIsRemembered
    BY <1>1, Numbers
       DEF RowIsSound, MarkersAreSound, DeliberatedIsRemembered, NoRow, Nothing, Marks, Days
<1>7. NothingTwice
    BY <1>1 DEF NothingTwice, Nothing, Reflecting
<1>8. WorldCanBeTrusted /\ MailIsSound
  <2>1. MarksAreEarned
      BY <1>1 DEF MarksAreEarned, NoRow
  <2> QED BY <1>1, <2>1 DEF WorldCanBeTrusted, InputsComeOnce, ToldIsKept,
             RunsOnTheNewestArc, MailIsSound
<1> QED BY <1>3, <1>4, <1>5, <1>6, <1>7, <1>8 DEF WorldIInv

LEMMA RoundsStep ==
    ASSUME WorldAssumption, WorldIInv, NEW r \in Runners,
           \/ Heartbeat(r) \/ \E t \in 1 .. MaxWakes : SelfTick(r, t)
           \/ RoundStep(r) \/ ToolStep(r)
           \/ ReflectFails(r) \/ VisitFails(r) \/ PersistFails(r) \/ Abort(r) \/ Crash(r)
    PROVE  WorldIInv'
<1>1. CASE Heartbeat(r)
    BY <1>1, HeartbeatStep
<1>2. CASE \E t \in 1 .. MaxWakes : SelfTick(r, t)
    BY <1>2, SelfTickStep
<1>3. CASE RoundStep(r)
    BY <1>3, ReflectStep, MarkReflectedStep, RunEndsStep, PersistStep, CloseStep, FoldStep,
       SetNextWakeStep, EmitSelfStep DEF RoundStep
<1>4. CASE ToolStep(r)
    BY <1>4, UpdateWorldStep, UpdateArcStep, TellStep, VisitBeginsStep, VisitDeliveredStep,
       SleepStep DEF ToolStep
<1>5. CASE ReflectFails(r)
    BY <1>5, ReflectFailsStep
<1>6. CASE VisitFails(r)
    BY <1>6, VisitFailsStep
<1>7. CASE PersistFails(r)
    BY <1>7, PersistFailsStep
<1>8. CASE Abort(r)
    BY <1>8, AbortStep
<1>9. CASE Crash(r)
    BY <1>9, CrashStep
<1> QED BY <1>1, <1>2, <1>3, <1>4, <1>5, <1>6, <1>7, <1>8, <1>9

LEMMA StutterStep ==
    ASSUME WorldAssumption, WorldIInv, UNCHANGED worldVars
    PROVE  WorldIInv'
<1>1. UNCHANGED <<acts, row, markers, clock, wake, runner, told, history, used>>
    BY DEF worldVars
<1>2. WorldTypeOK' /\ Locked'
    BY <1>1 DEF WorldIInv, WorldTypeOK, Locked, acts, clock, wake, runner, told, history
<1>3. today <= today'
    BY <1>1, Numbers DEF WorldIInv, WorldTypeOK, clock, Days
<1> QED BY <1>1, <1>2, <1>3, Around DEF clock, wake, runner

LEMMA EveryStep ==
    ASSUME WorldAssumption, WorldIInv, [WorldNext]_worldVars
    PROVE  WorldIInv'
<1>1. CASE BeginAct
    BY <1>1, BeginActStep
<1>2. CASE \E a \in Acts : CommitAct(a)
    BY <1>2, CommitActStep
<1>3. CASE MaterialsLand
    BY <1>3, MaterialsStep
<1>4. CASE Midnight
    BY <1>4, MidnightStep
<1>5. CASE WakeTimeComes
    BY <1>5, WakeTimeStep
<1>6. CASE WorldLockExpires
    BY <1>6, LockExpiresStep
<1>7. CASE \E r \in Runners :
               \/ Heartbeat(r) \/ \E t \in 1 .. MaxWakes : SelfTick(r, t)
               \/ RoundStep(r) \/ ToolStep(r)
               \/ ReflectFails(r) \/ VisitFails(r) \/ PersistFails(r) \/ Abort(r) \/ Crash(r)
    BY <1>7, RoundsStep
<1>8. CASE UNCHANGED worldVars
    BY <1>8, StutterStep
<1> QED BY <1>1, <1>2, <1>3, <1>4, <1>5, <1>6, <1>7, <1>8 DEF WorldNext

\* Every reachable state satisfies the inductive invariant.
THEOREM WorldInductive == WorldSpec => []WorldIInv
<1>1. WorldInit => WorldIInv
    BY WorldAssumption, InitHolds
<1>2. WorldIInv /\ [WorldNext]_worldVars => WorldIInv'
    BY WorldAssumption, EveryStep
<1> QED BY <1>1, <1>2, PTL DEF WorldSpec

\* Every reachable state of the world's rounds is well typed.
THEOREM WorldIsTyped == WorldSpec => []WorldTypeOK
<1>1. WorldIInv => WorldTypeOK
    BY DEF WorldIInv
<1> QED BY <1>1, WorldInductive, PTL

\* Whatever dies, is cut off or commits late: the cursor and the marks of the row are
\* earned, a day has an input twice only after a failure, what a tool told the model
\* it delivered is in the mailbox, and a run has the newest arc.
THEOREM WorldIsTrusted == WorldSpec => []WorldCanBeTrusted
<1>1. WorldIInv => WorldCanBeTrusted
    BY DEF WorldIInv
<1> QED BY <1>1, WorldInductive, PTL

--------------------------------------------------------------------------------
\* The row.

RowGrows ==
    /\ row.exists => row'.exists
    /\ row.detail => row'.detail
    /\ row'.cursor >= row.cursor
    /\ \A k \in Marks \cup {"next"} : row'[k] >= row[k]

LEMMA GrowsFieldByField ==
    ASSUME row.exists => row'.exists, row.detail => row'.detail,
           row'.cursor >= row.cursor, row'.next >= row.next,
           row'.materials >= row.materials, row'.roster >= row.roster,
           row'.reflected >= row.reflected, row'.digested >= row.digested
    PROVE  RowGrows
BY DEF RowGrows, Marks

LEMMA FieldsAreNumbers ==
    ASSUME WorldAssumption, row \in Rows
    PROVE  /\ row.cursor \in Nat /\ row.next \in Nat /\ row.materials \in Nat
           /\ row.roster \in Nat /\ row.reflected \in Nat /\ row.digested \in Nat
BY Numbers DEF Rows

LEMMA WakeGrows ==
    ASSUME WorldAssumption, WorldIInv, NEW r \in Runners, NEW target, Wake(r, target)
    PROVE  row' = row \/ RowGrows
<1>1. CASE row' = row
    BY <1>1
<1>2. CASE row' # row
  <2>1. SkipRecorded /\ row.exists
      BY <1>2 DEF Wake, Prepared, SkipRecorded, AppendIfRow
  <2>2. PICK m \in Recorded : AppendRow([cursor |-> m.end])
      BY <2>1 DEF SkipRecorded, AppendIfRow
  <2>3. m \in markers[today] /\ m.rid = RoundId /\ m \in Marker /\ row \in Rows
        /\ today \in Days /\ used["tell"] \in Nat
      BY <2>2 DEF Recorded, WorldIInv, WorldTypeOK, Events
  <2>4. m.rid = row.cursor
    <3>1. m.rid >= 0
        BY <2>3 DEF Marker
    <3> QED BY <2>3, <3>1 DEF RoundId
  <2>5. m.end >= row.cursor
    <3>1. m.rid < m.end
        BY <2>3 DEF WorldIInv, MarkersAreSound
    <3> QED BY <2>3, <2>4, <3>1, Numbers DEF Marker
  <2>6. /\ row'.exists = TRUE
        /\ \A f \in Fields \ {"exists"} :
               row'[f] = IF f \in DOMAIN [cursor |-> m.end] THEN [cursor |-> m.end][f] ELSE row[f]
      BY <2>2, <2>3, Appended DEF Fields
  <2>7. /\ row'.cursor = m.end /\ row'.detail = row.detail /\ row'.next = row.next
        /\ row'.materials = row.materials /\ row'.roster = row.roster
        /\ row'.reflected = row.reflected /\ row'.digested = row.digested
      BY <2>6 DEF Fields
  <2> QED BY <2>3, <2>5, <2>6, <2>7, FieldsAreNumbers, GrowsFieldByField
<1> QED BY <1>1, <1>2

LEMMA DetailGrows ==
    ASSUME WorldAssumption, WorldIInv, AppendRow([detail |-> TRUE])
    PROVE  RowGrows
<1>1. row \in Rows
    BY DEF WorldIInv, WorldTypeOK
<1>2. /\ row'.exists /\ row'.detail
      /\ row'.cursor = row.cursor /\ row'.next = row.next
      /\ \A k \in Marks : row'[k] = row[k]
    BY <1>1, DetailKeepsTheRest
<1>3. /\ row'.materials = row.materials /\ row'.roster = row.roster
      /\ row'.reflected = row.reflected /\ row'.digested = row.digested
    BY <1>2 DEF Marks
<1> QED BY <1>1, <1>2, <1>3, FieldsAreNumbers, GrowsFieldByField

LEMMA MarkGrows ==
    ASSUME WorldAssumption, WorldIInv, NEW r \in Runners, MarkReflected(r)
    PROVE  RowGrows
<1>1. row \in Rows /\ at[r] = "mark"
    BY DEF WorldIInv, WorldTypeOK, MarkReflected
<1>2. DayIsNewest(r) /\ rnd[r].day \in Nat
    BY <1>1, UpFacts, Numbers DEF WorldIInv, RoundIsSound
<1>3. row.reflected <= rnd[r].day /\ row.digested <= rnd[r].day
    BY <1>2 DEF DayIsNewest, Marks
<1> QED BY <1>1, <1>2, <1>3, MarkKeepsTheRest, FieldsAreNumbers, GrowsFieldByField

LEMMA CloseGrows ==
    ASSUME WorldAssumption, WorldIInv, NEW r \in Runners, Close(r)
    PROVE  row' = row \/ RowGrows
<1>1. CASE ~row.exists
    BY <1>1 DEF Close, AppendIfRow
<1>2. CASE row.exists
  <2>1. row \in Rows /\ at[r] = "close"
      BY DEF WorldIInv, WorldTypeOK, Close
  <2>2. DayIsNewest(r) /\ BatchIsNext(r) /\ rnd[r].day \in Nat /\ rnd[r].batch \in SUBSET Acts
      BY <2>1, UpFacts, Numbers DEF WorldIInv, RoundIsSound, Opened, Closing, Rounds
  <2>3. row.materials <= rnd[r].day /\ row.roster <= rnd[r].day
      BY <2>2 DEF DayIsNewest, Marks
  <2>4. rnd[r].batch # {} => Latest(rnd[r].batch) >= row.cursor
    <3>1. rnd[r].batch # {} => Latest(rnd[r].batch) \in rnd[r].batch
        BY <2>2, LastOf
    <3>2. \A a \in rnd[r].batch : a > row.cursor /\ a \in Nat
        BY <2>2, Numbers DEF BatchIsNext
    <3> QED BY <2>1, <3>1, <3>2, FieldsAreNumbers
  <2>5. row'.cursor >= row.cursor /\ row'.materials >= row.materials /\ row'.roster >= row.roster
      BY <1>2, <2>1, <2>2, <2>3, <2>4, CloseKeepsTheRest, FieldsAreNumbers
  <2> QED BY <1>2, <2>1, <2>5, CloseKeepsTheRest, FieldsAreNumbers, GrowsFieldByField
<1> QED BY <1>1, <1>2

LEMMA NextWakeGrows ==
    ASSUME WorldAssumption, WorldIInv, NEW r \in Runners, SetNextWake(r)
    PROVE  row' = row \/ RowGrows
<1>1. CASE ~row.exists
    BY <1>1 DEF SetNextWake, AppendIfRow
<1>2. CASE row.exists
  <2>1. row \in Rows /\ wakes' = wakes + 1 /\ row.next <= wakes /\ wakes \in Nat
      BY UpFacts DEF SetNextWake
  <2>2. /\ row'.exists = TRUE
        /\ \A f \in Fields \ {"exists"} :
               row'[f] = IF f \in DOMAIN [next |-> wakes'] THEN [next |-> wakes'][f] ELSE row[f]
    <3>1. AppendRow([next |-> wakes'])
        BY <1>2 DEF SetNextWake, AppendIfRow
    <3> QED BY <2>1, <3>1, Appended DEF Fields
  <2>3. /\ row'.cursor = row.cursor /\ row'.detail = row.detail /\ row'.next = wakes'
        /\ row'.materials = row.materials /\ row'.roster = row.roster
        /\ row'.reflected = row.reflected /\ row'.digested = row.digested
      BY <2>2 DEF Fields
  <2>4. row'.next >= row.next
      BY <2>1, <2>3, FieldsAreNumbers
  <2> QED BY <2>1, <2>2, <2>3, <2>4, FieldsAreNumbers, GrowsFieldByField
<1> QED BY <1>1, <1>2

\* Whichever of the writers appends a version of the world's row, what the others have
\* set stays, and the cursor, the marks and the wake time never go back.
THEOREM RowStaysWhole == WorldSpec => RowIsKept
<1>1. ASSUME WorldAssumption, WorldIInv, WorldNext PROVE row' = row \/ RowGrows
  <2>1. ASSUME NEW r \in Runners, Heartbeat(r) PROVE row' = row \/ RowGrows
      BY <1>1, <2>1, WakeGrows DEF Heartbeat
  <2>2. ASSUME NEW r \in Runners, NEW t \in 1 .. MaxWakes, SelfTick(r, t)
        PROVE  row' = row \/ RowGrows
    <3>1. CASE worldLock = Free
        BY <1>1, <2>2, <3>1, WakeGrows DEF SelfTick
    <3>2. CASE worldLock # Free
        BY <2>2, <3>2 DEF SelfTick
    <3> QED BY <3>1, <3>2
  <2>3. ASSUME NEW r \in Runners, RoundStep(r) PROVE row' = row \/ RowGrows
    <3>1. CASE MarkReflected(r)
        BY <1>1, <3>1, MarkGrows
    <3>2. CASE Close(r)
        BY <1>1, <3>2, CloseGrows
    <3>3. CASE SetNextWake(r)
        BY <1>1, <3>3, NextWakeGrows
    <3>4. CASE Reflect(r) \/ RunEnds(r) \/ Persist(r) \/ Fold(r) \/ EmitSelf(r)
        BY <3>4 DEF Reflect, RunEnds, Persist, Fold, EmitSelf
    <3> QED BY <2>3, <3>1, <3>2, <3>3, <3>4 DEF RoundStep
  <2>4. ASSUME NEW r \in Runners, ToolStep(r) PROVE row' = row \/ RowGrows
    <3>1. CASE UpdateWorld(r) \/ VisitBegins(r)
        BY <1>1, <3>1, DetailGrows DEF UpdateWorld, VisitBegins
    <3>2. CASE UpdateArc(r) \/ (\E kind \in Kinds \ {"speech"}, to \in {1, 2} : Tell(r, kind, to))
               \/ (\E to \in {1, 2} : VisitDelivered(r, to)) \/ Sleep(r)
        BY <3>2 DEF UpdateArc, Tell, VisitDelivered, Sleep
    <3> QED BY <2>4, <3>1, <3>2 DEF ToolStep
  <2>5. ASSUME NEW r \in Runners,
               ReflectFails(r) \/ VisitFails(r) \/ PersistFails(r) \/ Abort(r) \/ Crash(r)
        PROVE  row' = row
      BY <2>5 DEF ReflectFails, VisitFails, PersistFails, Abort, Crash
  <2>6. CASE BeginAct \/ (\E a \in Acts : CommitAct(a)) \/ MaterialsLand \/ Midnight
             \/ WakeTimeComes \/ WorldLockExpires
      BY <2>6 DEF BeginAct, CommitAct, MaterialsLand, Midnight, WakeTimeComes, WorldLockExpires
  <2> QED BY <1>1, <2>1, <2>2, <2>3, <2>4, <2>5, <2>6 DEF WorldNext
<1>2. WorldIInv /\ [WorldNext]_worldVars =>
          [/\ row.exists => row'.exists
           /\ row.detail => row'.detail
           /\ row'.cursor >= row.cursor
           /\ \A k \in Marks \cup {"next"} : row'[k] >= row[k]]_row
    BY <1>1, WorldAssumption DEF RowGrows, worldVars
<1> QED BY <1>2, WorldInductive, PTL DEF WorldSpec, RowIsKept
================================================================================
