---------------------------- MODULE Sessions_proofs ----------------------------
(***************************************************************************)
(* Proofs about what the agent stores and hands on: the transcript of a       *)
(* session (AgentRun), what the adapters make of it (Adapters), and the       *)
(* impressions of a file she reads (Reading).                                *)
(***************************************************************************)
EXTENDS Sessions, Reading, SequenceTheorems, FiniteSetTheorems, WellFoundedInduction, TLAPS

--------------------------------------------------------------------------------
(* The agent's loop.  The transcript answers every tool call in it, but for those  *)
(* of the turn at its end that are still being dispatched.                        *)

\* A set of naturals has a least element.
LEMMA LeastOf ==
    ASSUME NEW S \in SUBSET Nat, S # {}
    PROVE  \E n \in S : \A m \in S : n <= m
<1>1. \E x \in S : \A y \in S : ~ (<<y, x>> \in OpToRel(<, Nat))
    BY NatLessThanWellFounded, WFMin
<1>2. PICK x \in S : \A y \in S : ~ (y < x)
    BY <1>1 DEF OpToRel
<1>3. \A y \in S : x <= y
  <2>1. SUFFICES ASSUME NEW y \in S PROVE x <= y
      OBVIOUS
  <2>2. x \in Nat /\ y \in Nat /\ ~ (y < x)
      BY <1>2
  <2> QED BY <2>2
<1> QED BY <1>3

Messages == [role : {"user", "assistant", "tool"}, asks : 0 .. MaxAsks]

Conversation(s) == s \in Seq(Messages)

\* A tool message at i has the turn that asked for it at j.
AskedAt(s, j, i) ==
    /\ s[j].role = "assistant" /\ i - j <= s[j].asks
    /\ \A k \in j + 1 .. i - 1 : s[k].role = "tool"

\* s can be given back to the model once n more results are at its end.
ReplayableBut(s, n) ==
    /\ \A i \in 1 .. Len(s) : s[i].role = "tool" => \E j \in 1 .. i - 1 : AskedAt(s, j, i)
    /\ \A i \in 1 .. Len(s) : \A m \in 1 .. s[i].asks :
        i + m <= Len(s) + n /\ (i + m <= Len(s) => s[i + m].role = "tool")
    /\ n > 0 => \E j \in 1 .. Len(s) :
        /\ s[j].role = "assistant" /\ Len(s) + n - j <= s[j].asks
        /\ \A k \in j + 1 .. Len(s) : s[k].role = "tool"

LEMMA MessageIn ==
    ASSUME NEW s, Conversation(s), NEW i \in 1 .. Len(s)
    PROVE  s[i] \in Messages /\ s[i].asks \in Nat /\ i \in Nat /\ Len(s) \in Nat
<1>1. s[i] \in Messages
    BY DEF Conversation
<1> QED BY <1>1 DEF Messages

LEMMA NothingOpen ==
    ASSUME NEW s, Conversation(s)
    PROVE  Replayable(s) <=> ReplayableBut(s, 0)
<1>1. DOMAIN s = 1 .. Len(s) /\ Len(s) \in Nat
    BY DEF Conversation
<1>2. ASSUME NEW i \in 1 .. Len(s), NEW m \in 1 .. s[i].asks
      PROVE  i + m \in DOMAIN s <=> i + m <= Len(s) + 0
    BY <1>1, MessageIn
<1>3. Replayable(s) => ReplayableBut(s, 0)
  <2>1. ASSUME Replayable(s), NEW i \in 1 .. Len(s), NEW m \in 1 .. s[i].asks
        PROVE  i + m <= Len(s) + 0 /\ (i + m <= Len(s) => s[i + m].role = "tool")
    <3>1. i + m \in DOMAIN s /\ s[i + m].role = "tool"
        BY <1>1, <2>1 DEF Replayable
    <3> QED BY <1>2, <3>1
  <2>2. ASSUME Replayable(s), NEW i \in 1 .. Len(s), s[i].role = "tool"
        PROVE  \E j \in 1 .. i - 1 : AskedAt(s, j, i)
      BY <1>1, <2>2 DEF Replayable, AskedAt
  <2> QED BY <2>1, <2>2 DEF ReplayableBut
<1>4. ReplayableBut(s, 0) => Replayable(s)
  <2>1. ASSUME ReplayableBut(s, 0), NEW i \in 1 .. Len(s), NEW m \in 1 .. s[i].asks
        PROVE  i + m \in DOMAIN s /\ s[i + m].role = "tool"
    <3>1. i + m <= Len(s) + 0 /\ (i + m <= Len(s) => s[i + m].role = "tool")
        BY <2>1 DEF ReplayableBut
    <3>2. i + m \in DOMAIN s /\ i + m <= Len(s)
        BY <1>1, <1>2, <3>1
    <3> QED BY <3>1, <3>2
  <2>2. ASSUME ReplayableBut(s, 0), NEW i \in 1 .. Len(s), s[i].role = "tool"
        PROVE  \E j \in 1 .. i - 1 : AskedAt(s, j, i)
      BY <2>2 DEF ReplayableBut
  <2> QED BY <1>1, <2>1, <2>2 DEF Replayable, AskedAt
<1> QED BY <1>3, <1>4

LEMMA OfAMessage ==
    ASSUME AgentAssumption, NEW n \in 0 .. MaxAsks
    PROVE  /\ M("assistant", n) \in Messages /\ M("assistant", n).role = "assistant"
           /\ M("assistant", n).asks = n
           /\ Tool \in Messages /\ Tool.role = "tool" /\ Tool.asks = 0
           /\ User \in Messages /\ User.role = "user" /\ User.asks = 0
           /\ Reply = M("assistant", 0) /\ 0 \in 0 .. MaxAsks
<1>1. 0 \in 0 .. MaxAsks
    BY DEF AgentAssumption
<1> QED BY <1>1 DEF M, Tool, User, Reply, Messages

\* What is appended to s is its last message, and the others stay.
LEMMA Appended ==
    ASSUME NEW s, Conversation(s), NEW m \in Messages
    PROVE  /\ Conversation(Append(s, m)) /\ Len(Append(s, m)) = Len(s) + 1
           /\ Len(s) \in Nat
           /\ Append(s, m)[Len(s) + 1] = m
           /\ \A i \in 1 .. Len(s) : Append(s, m)[i] = s[i]
BY DEF Conversation

\* The turn that asked is the same in whatever begins in the same way.
LEMMA StillAsked ==
    ASSUME NEW s, NEW t, NEW n \in Nat, \A i \in 1 .. n : t[i] = s[i],
           NEW i \in 1 .. n, NEW j \in 1 .. i - 1, AskedAt(s, j, i)
    PROVE  AskedAt(t, j, i)
<1>1. t[j] = s[j]
    OBVIOUS
<1>2. \A k \in j + 1 .. i - 1 : t[k] = s[k]
    OBVIOUS
<1> QED BY <1>1, <1>2 DEF AskedAt

LEMMA ResultIsAppended ==
    ASSUME AgentAssumption, NEW s, Conversation(s), NEW n \in Nat, n > 0, ReplayableBut(s, n)
    PROVE  /\ Conversation(Append(s, Tool))
           /\ ReplayableBut(Append(s, Tool), n - 1)
<1> DEFINE t == Append(s, Tool)
<1>1. Tool \in Messages /\ Tool.role = "tool" /\ Tool.asks = 0
  <2>1. 0 \in 0 .. MaxAsks
      BY DEF AgentAssumption
  <2> QED BY <2>1, OfAMessage
<1>2. /\ Conversation(t) /\ Len(t) = Len(s) + 1 /\ Len(s) \in Nat
      /\ t[Len(s) + 1] = Tool /\ \A i \in 1 .. Len(s) : t[i] = s[i]
    BY <1>1, Appended
<1> HIDE DEF t
<1>0. Len(t) = Len(s) + 1 /\ Len(s) \in Nat
    BY <1>2
<1>3. PICK j \in 1 .. Len(s) :
          /\ s[j].role = "assistant" /\ Len(s) + n - j <= s[j].asks
          /\ \A k \in j + 1 .. Len(s) : s[k].role = "tool"
    BY DEF ReplayableBut
<1>4. s[j].asks \in Nat /\ j \in Nat
    BY MessageIn
<1>5. ASSUME NEW i \in 1 .. Len(t), t[i].role = "tool"
      PROVE  \E l \in 1 .. i - 1 : AskedAt(t, l, i)
  <2>1. CASE i = Len(s) + 1
    <3>1. t[j] = s[j] /\ \A k \in j + 1 .. Len(s) : t[k] = s[k]
        BY <1>2, <1>4
    <3>2. i - j <= t[j].asks
        BY <1>2, <1>3, <1>4, <2>1, <3>1
    <3>3. \A k \in j + 1 .. i - 1 : t[k].role = "tool"
      <4>1. \A k \in j + 1 .. i - 1 : k \in j + 1 .. Len(s)
          BY <1>0, <2>1
      <4> QED BY <1>3, <3>1, <4>1
    <3>4. AskedAt(t, j, i)
        BY <1>3, <3>1, <3>2, <3>3 DEF AskedAt
    <3>5. j \in 1 .. i - 1
        BY <1>0, <1>4, <2>1
    <3> QED BY <3>4, <3>5
  <2>2. CASE i \in 1 .. Len(s)
    <3>1. PICK l \in 1 .. i - 1 : AskedAt(s, l, i)
        BY <1>2, <1>5, <2>2 DEF ReplayableBut
    <3>3. AskedAt(t, l, i)
        BY <1>2, <2>2, <3>1, StillAsked
    <3> QED BY <3>3
  <2> QED BY <1>0, <2>1, <2>2, SMTT(20)
<1>6. ASSUME NEW i \in 1 .. Len(t), NEW m \in 1 .. t[i].asks
      PROVE  i + m <= Len(t) + (n - 1) /\ (i + m <= Len(t) => t[i + m].role = "tool")
  <2>1. CASE i = Len(s) + 1
      BY <1>1, <1>2, <2>1
  <2>2. CASE i \in 1 .. Len(s)
    <3>1. t[i] = s[i] /\ s[i].asks \in Nat
        BY <1>2, <2>2, MessageIn
    <3>2. i + m <= Len(s) + n /\ (i + m <= Len(s) => s[i + m].role = "tool")
        BY <2>2, <3>1 DEF ReplayableBut
    <3>3. CASE i + m = Len(s) + 1
        BY <1>1, <1>2, <3>2, <3>3, SMTT(20)
    <3>4. CASE i + m # Len(s) + 1
      <4>1. i + m \in 1 .. Len(s) \/ i + m > Len(t)
        <5>1. i \in 1 .. Len(s) /\ m \in 1 .. s[i].asks
            BY <2>2, <3>1
        <5>2. PICK len \in Nat : len = Len(s) /\ Len(t) = len + 1
            BY <1>0
        <5>3. PICK asks \in Nat : asks = s[i].asks
            BY <3>1
        <5>4. i \in 1 .. len /\ m \in 1 .. asks /\ i + m # len + 1
            BY <3>4, <5>1, <5>2, <5>3
        <5>5. i + m \in 1 .. len \/ i + m > len + 1
            BY <5>4
        <5> QED BY <5>2, <5>5
      <4> QED BY <1>2, <3>1, <3>2, <4>1, SMTT(20)
    <3> QED BY <3>3, <3>4
  <2> QED BY <1>0, <2>1, <2>2, SMTT(20)
<1>7. ASSUME n - 1 > 0
      PROVE  \E l \in 1 .. Len(t) :
                /\ t[l].role = "assistant" /\ Len(t) + (n - 1) - l <= t[l].asks
                /\ \A k \in l + 1 .. Len(t) : t[k].role = "tool"
  <2>1. t[j] = s[j] /\ \A k \in j + 1 .. Len(s) : t[k] = s[k]
      BY <1>2, <1>4
  <2>2. \A k \in j + 1 .. Len(t) : t[k].role = "tool"
    <3>1. SUFFICES ASSUME NEW k \in j + 1 .. Len(t) PROVE t[k].role = "tool"
        OBVIOUS
    <3>2. k = Len(s) + 1 \/ k \in j + 1 .. Len(s)
        BY <1>0, <1>4, SMTT(20)
    <3> QED BY <1>1, <1>2, <1>3, <2>1, <3>2
  <2>3. t[j].role = "assistant" /\ Len(t) + (n - 1) - j <= t[j].asks
      BY <1>2, <1>3, <1>4, <2>1
  <2>4. j \in 1 .. Len(t)
      BY <1>0, <1>4
  <2> QED BY <2>2, <2>3, <2>4
<1>8. ReplayableBut(t, n - 1)
    BY <1>5, <1>6, <1>7 DEF ReplayableBut
<1> QED BY <1>2, <1>8 DEF t

LEMMA TurnIsAppended ==
    ASSUME AgentAssumption, NEW s, Conversation(s), ReplayableBut(s, 0), NEW n \in 0 .. MaxAsks
    PROVE  /\ Conversation(Append(s, M("assistant", n)))
           /\ ReplayableBut(Append(s, M("assistant", n)), n)
<1> DEFINE turn == M("assistant", n)
           t == Append(s, turn)
<1>1. turn \in Messages /\ turn.role = "assistant" /\ turn.asks = n /\ n \in Nat
    BY OfAMessage DEF AgentAssumption
<1> HIDE DEF turn
<1>2. /\ Conversation(t) /\ Len(t) = Len(s) + 1 /\ Len(s) \in Nat
      /\ t[Len(s) + 1] = turn /\ \A i \in 1 .. Len(s) : t[i] = s[i]
    BY <1>1, Appended
<1> HIDE DEF t
<1>3. ASSUME NEW i \in 1 .. Len(t), t[i].role = "tool"
      PROVE  \E l \in 1 .. i - 1 : AskedAt(t, l, i)
  <2>1. i \in 1 .. Len(s)
      BY <1>1, <1>2, <1>3
  <2>2. PICK l \in 1 .. i - 1 : AskedAt(s, l, i)
      BY <1>2, <1>3, <2>1 DEF ReplayableBut
  <2>4. AskedAt(t, l, i)
      BY <1>2, <2>1, <2>2, StillAsked
  <2> QED BY <2>4
<1>4. ASSUME NEW i \in 1 .. Len(t), NEW m \in 1 .. t[i].asks
      PROVE  i + m <= Len(t) + n /\ (i + m <= Len(t) => t[i + m].role = "tool")
  <2>1. CASE i = Len(s) + 1
      BY <1>1, <1>2, <2>1
  <2>2. CASE i \in 1 .. Len(s)
    <3>1. t[i] = s[i] /\ s[i].asks \in Nat
        BY <1>2, <2>2, MessageIn
    <3>2. i + m <= Len(s) + 0 /\ (i + m <= Len(s) => s[i + m].role = "tool")
        BY <2>2, <3>1 DEF ReplayableBut
    <3>3. i + m \in 1 .. Len(s)
        BY <1>2, <2>2, <3>1, <3>2
    <3> QED BY <1>1, <1>2, <3>2, <3>3
  <2> QED BY <1>2, <2>1, <2>2
<1>5. /\ Len(s) + 1 \in 1 .. Len(t) /\ t[Len(s) + 1].role = "assistant"
      /\ Len(t) + n - (Len(s) + 1) <= t[Len(s) + 1].asks
      /\ \A k \in (Len(s) + 1) + 1 .. Len(t) : t[k].role = "tool"
    BY <1>1, <1>2
<1>6. ReplayableBut(t, n)
    BY <1>3, <1>4, <1>5 DEF ReplayableBut
<1> QED BY <1>2, <1>6 DEF turn, t

LEMMA Joined ==
    ASSUME NEW s, Conversation(s), NEW u, Conversation(u),
           ReplayableBut(s, 0), ReplayableBut(u, 0)
    PROVE  Conversation(s \o u) /\ ReplayableBut(s \o u, 0)
<1> DEFINE t == s \o u
<1>1. /\ Conversation(t) /\ Len(t) = Len(s) + Len(u) /\ Len(s) \in Nat /\ Len(u) \in Nat
      /\ \A i \in 1 .. Len(s) : t[i] = s[i]
      /\ \A i \in 1 .. Len(u) : t[Len(s) + i] = u[i]
    BY DEF Conversation
<1> HIDE DEF t
<1>2. ASSUME NEW i \in 1 .. Len(t), t[i].role = "tool"
      PROVE  \E l \in 1 .. i - 1 : AskedAt(t, l, i)
  <2>1. CASE i \in 1 .. Len(s)
    <3>1. PICK l \in 1 .. i - 1 : AskedAt(s, l, i)
        BY <1>1, <1>2, <2>1 DEF ReplayableBut
    <3>3. AskedAt(t, l, i)
        BY <1>1, <2>1, <3>1, StillAsked
    <3> QED BY <3>3
  <2>2. CASE i \notin 1 .. Len(s)
    <3>1. PICK h \in 1 .. Len(u) : i = Len(s) + h
      <4>1. i - Len(s) \in 1 .. Len(u) /\ i = Len(s) + (i - Len(s))
          BY <1>1, <2>2
      <4> QED BY <4>1
    <3>2. u[h].role = "tool"
        BY <1>1, <1>2, <3>1
    <3>3. PICK l \in 1 .. h - 1 : AskedAt(u, l, h)
        BY <3>2 DEF ReplayableBut
    <3>4. t[Len(s) + l] = u[l] /\ h \in Nat /\ l \in Nat /\ u[l].asks \in Nat
        BY <1>1, MessageIn
    <3>5. ASSUME NEW k \in Len(s) + l + 1 .. i - 1 PROVE t[k].role = "tool"
      <4>1. k - Len(s) \in l + 1 .. h - 1 /\ k - Len(s) \in 1 .. Len(u) /\ k = Len(s) + (k - Len(s))
          BY <1>1, <3>1, <3>4
      <4>2. t[k] = u[k - Len(s)]
          BY <1>1, <4>1, SMTT(20)
      <4>3. u[k - Len(s)].role = "tool"
          BY <3>3, <4>1, SMTT(20) DEF AskedAt
      <4> QED BY <4>2, <4>3
    <3>6. AskedAt(t, Len(s) + l, i)
      <4>1. i - (Len(s) + l) = h - l
          BY <1>1, <3>1, <3>4
      <4> QED BY <3>3, <3>4, <3>5, <4>1 DEF AskedAt
    <3>7. Len(s) + l \in 1 .. i - 1
        BY <1>1, <3>1, <3>4
    <3> QED BY <3>6, <3>7
  <2> QED BY <2>1, <2>2
<1>3. ASSUME NEW i \in 1 .. Len(t), NEW m \in 1 .. t[i].asks
      PROVE  i + m <= Len(t) + 0 /\ (i + m <= Len(t) => t[i + m].role = "tool")
  <2>1. CASE i \in 1 .. Len(s)
    <3>1. t[i] = s[i] /\ s[i].asks \in Nat
        BY <1>1, <2>1, MessageIn
    <3>2. i + m <= Len(s) + 0 /\ (i + m <= Len(s) => s[i + m].role = "tool")
        BY <2>1, <3>1 DEF ReplayableBut
    <3>3. i + m \in 1 .. Len(s)
        BY <1>1, <2>1, <3>1, <3>2
    <3> QED BY <1>1, <3>2, <3>3
  <2>2. CASE i \notin 1 .. Len(s)
    <3>1. PICK h \in 1 .. Len(u) : i = Len(s) + h
      <4>1. i - Len(s) \in 1 .. Len(u) /\ i = Len(s) + (i - Len(s))
          BY <1>1, <2>2
      <4> QED BY <4>1
    <3>2. t[i] = u[h] /\ u[h].asks \in Nat /\ h \in Nat
        BY <1>1, <3>1, MessageIn
    <3>3. h + m <= Len(u) + 0 /\ (h + m <= Len(u) => u[h + m].role = "tool")
        BY <3>2 DEF ReplayableBut
    <3>4. h + m \in 1 .. Len(u) /\ i + m = Len(s) + (h + m)
        BY <1>1, <3>1, <3>2, <3>3
    <3> QED BY <1>1, <3>3, <3>4
  <2> QED BY <2>1, <2>2
<1>4. ReplayableBut(t, 0)
    BY <1>2, <1>3 DEF ReplayableBut
<1> QED BY <1>1, <1>4 DEF t
--------------------------------------------------------------------------------
\* What is left of s when its first n messages are dropped.
LEMMA Dropped ==
    ASSUME NEW s, Conversation(s), NEW n \in 0 .. Len(s) - 1
    PROVE  /\ Conversation(Drops(s, n)) /\ Len(Drops(s, n)) = Len(s) - n
           /\ Len(s) \in Nat /\ n \in Nat
           /\ \A i \in 1 .. Len(s) - n : Drops(s, n)[i] = s[n + i]
<1>1. Len(s) \in Nat /\ n \in Nat
    BY DEF Conversation
<1>2. \A i \in n + 1 .. Len(s) : s[i] \in Messages
    BY <1>1, MessageIn
<1> QED BY <1>1, <1>2 DEF Conversation, Drops

\* A transcript is replayable from any message on that is no result.
LEMMA DroppedAtABoundary ==
    ASSUME NEW s, Conversation(s), ReplayableBut(s, 0), NEW n \in 0 .. Len(s) - 1, s[n + 1].role # "tool"
    PROVE  ReplayableBut(Drops(s, n), 0)
<1> DEFINE t == Drops(s, n)
<1>1. /\ Conversation(t) /\ Len(t) = Len(s) - n /\ Len(s) \in Nat /\ n \in Nat
      /\ \A i \in 1 .. Len(s) - n : t[i] = s[n + i]
    BY Dropped
<1> HIDE DEF t
<1>0. Len(t) = Len(s) - n /\ Len(s) \in Nat /\ n \in Nat
    BY <1>1
<1>2. ASSUME NEW i \in 1 .. Len(t), t[i].role = "tool"
      PROVE  \E l \in 1 .. i - 1 : AskedAt(t, l, i)
  <2>1. n + i \in 1 .. Len(s) /\ t[i] = s[n + i] /\ i \in Nat
      BY <1>1
  <2>2. PICK j \in 1 .. n + i - 1 : AskedAt(s, j, n + i)
      BY <1>2, <2>1 DEF ReplayableBut
  <2>3. j > n
    <3>1. CASE j = n + 1
        BY <1>0, <3>1
    <3>2. CASE j # n + 1
      <4>1. n + 1 \notin j + 1 .. n + i - 1
          BY <2>2 DEF AskedAt
      <4>2. i # 1
          BY <1>2, <2>1
      <4> QED BY <1>0, <2>1, <4>1, <4>2
    <3> QED BY <3>1, <3>2
  <2>4. j - n \in 1 .. i - 1 /\ n + (j - n) = j /\ i - (j - n) = n + i - j
      BY <1>0, <2>1, <2>3
  <2>5. t[j - n] = s[j]
    <3>1. j - n \in 1 .. Len(s) - n
        BY <1>0, <2>1, <2>4
    <3> QED BY <1>1, <2>4, <3>1
  <2>6. ASSUME NEW k \in (j - n) + 1 .. i - 1 PROVE t[k].role = "tool"
    <3>1. k \in 1 .. Len(s) - n /\ n + k \in j + 1 .. n + i - 1
      <4>1. PICK len \in Nat : len = Len(s)
          BY <1>0
      <4>2. j \in Nat /\ j > n /\ n \in Nat /\ i \in Nat /\ n + i <= len
          BY <1>0, <2>1, <2>3, <4>1
      <4>3. k \in Nat /\ j - n < k /\ k <= i - 1
          BY <2>6, <4>2
      <4>4. 1 <= k /\ k <= len - n /\ j + 1 <= n + k /\ n + k <= n + i - 1
          BY <4>2, <4>3
      <4> QED BY <4>1, <4>2, <4>3, <4>4
    <3>2. t[k] = s[n + k]
        BY <1>1, <3>1
    <3>3. s[n + k].role = "tool"
        BY <2>2, <3>1 DEF AskedAt
    <3> QED BY <3>2, <3>3
  <2>7. AskedAt(t, j - n, i)
      BY <2>2, <2>4, <2>5, <2>6 DEF AskedAt
  <2> QED BY <2>4, <2>7
<1>3. ASSUME NEW i \in 1 .. Len(t), NEW m \in 1 .. t[i].asks
      PROVE  i + m <= Len(t) + 0 /\ (i + m <= Len(t) => t[i + m].role = "tool")
  <2>1. n + i \in 1 .. Len(s) /\ t[i] = s[n + i] /\ i \in Nat
      BY <1>1
  <2>2. s[n + i].asks \in Nat
      BY <2>1, MessageIn
  <2>3. (n + i) + m <= Len(s) + 0 /\ ((n + i) + m <= Len(s) => s[(n + i) + m].role = "tool")
      BY <2>1 DEF ReplayableBut
  <2>4. m \in Nat
      BY <2>1, <2>2
  <2>5. i + m \in 1 .. Len(s) - n /\ n + (i + m) = (n + i) + m /\ (n + i) + m <= Len(s)
      BY <1>0, <2>1, <2>3, <2>4
  <2>6. t[i + m] = s[(n + i) + m]
      BY <1>1, <2>5
  <2> QED BY <1>0, <2>3, <2>5, <2>6
<1>4. ReplayableBut(t, 0)
    BY <1>2, <1>3 DEF ReplayableBut
<1> QED BY <1>4 DEF t

\* The cap goes on to the first message that is no result, or stops at the newest.
LEMMA BoundaryIsThere ==
    ASSUME NEW s, Conversation(s), NEW cut \in 0 .. Len(s) - 1
    PROVE  \E n \in cut .. Len(s) - 1 :
              /\ CapFrom(s, cut) = Drops(s, n)
              /\ n = Len(s) - 1 \/ s[n + 1].role # "tool"
              /\ \A i \in cut .. n - 1 : s[i + 1].role = "tool"
<1> DEFINE Found(n) == /\ n = Len(s) - 1 \/ s[n + 1].role # "tool"
                       /\ \A i \in cut .. n - 1 : s[i + 1].role = "tool"
           ends == {n \in cut .. Len(s) - 1 : n = Len(s) - 1 \/ s[n + 1].role # "tool"}
<1>1. Len(s) \in Nat /\ cut \in Nat
    BY DEF Conversation
<1>2. ends \in SUBSET Nat /\ Len(s) - 1 \in ends
    BY <1>1
<1>3. PICK n \in ends : \A m \in ends : n <= m
    BY <1>2, LeastOf
<1>4. ASSUME NEW i \in cut .. n - 1 PROVE s[i + 1].role = "tool"
  <2>1. i \in cut .. Len(s) - 1 /\ ~ (n <= i)
      BY <1>1, <1>3
  <2>2. i \notin ends
      BY <1>3, <2>1
  <2> QED BY <2>1, <2>2
<1>5. \E b \in cut .. Len(s) - 1 : Found(b)
    BY <1>3, <1>4
<1>6. PICK b \in cut .. Len(s) - 1 : b = CHOOSE a \in cut .. Len(s) - 1 : Found(a)
    BY <1>5
<1>7. Found(b)
    BY <1>5, <1>6
<1>8. CapFrom(s, cut) = Drops(s, b)
    BY <1>6 DEF CapFrom
<1> QED BY <1>7, <1>8

\* The oldest message has lost the turn that asked for it; the others are in order.
OrphanFirst(s) == Len(s) > 0 /\ s[1].role = "tool" /\ ReplayableBut(Tail(s), 0)

LEMMA NothingIsReplayable == Conversation(<<>>) /\ ReplayableBut(<<>>, 0)
<1>1. Len(<<>>) = 0
    OBVIOUS
<1> QED BY <1>1 DEF Conversation, ReplayableBut

\* A single message that asks for nothing and answers nothing.
LEMMA OneIsReplayable ==
    ASSUME NEW m \in Messages, m.role # "tool", m.asks = 0
    PROVE  Conversation(<<m>>) /\ ReplayableBut(<<m>>, 0)
<1>1. Len(<<m>>) = 1 /\ <<m>>[1] = m /\ Conversation(<<m>>)
    BY DEF Conversation
<1>2. \A i \in 1 .. 1 : <<m>>[i] = m
    BY <1>1
<1> QED BY <1>1, <1>2 DEF ReplayableBut

LEMMA BehindTheFirst ==
    ASSUME NEW s, Conversation(s), Len(s) > 0
    PROVE  /\ Conversation(Tail(s)) /\ Len(Tail(s)) = Len(s) - 1 /\ Len(s) \in Nat
           /\ \A i \in 1 .. Len(s) - 1 : Tail(s)[i] = s[i + 1]
BY DEF Conversation

\* Whatever the cap drops, the newest message aside it leaves whole rounds of tools.
LEMMA CapLeaves ==
    ASSUME NEW s, Conversation(s), ReplayableBut(s, 0), NEW n \in 0 .. Len(s) - 1,
           n = Len(s) - 1 \/ s[n + 1].role # "tool"
    PROVE  /\ ReplayableBut(Drops(s, n), 0) \/ OrphanFirst(Drops(s, n))
           /\ s[n + 1].role # "tool" => ReplayableBut(Drops(s, n), 0)
<1>1. /\ Conversation(Drops(s, n)) /\ Len(Drops(s, n)) = Len(s) - n
      /\ Len(s) \in Nat /\ n \in Nat
      /\ \A i \in 1 .. Len(s) - n : Drops(s, n)[i] = s[n + i]
    BY Dropped
<1>2. s[n + 1].role # "tool" => ReplayableBut(Drops(s, n), 0)
    BY DroppedAtABoundary
<1>3. ASSUME s[n + 1].role = "tool" PROVE OrphanFirst(Drops(s, n))
  <2>1. Len(Drops(s, n)) = 1 /\ Drops(s, n)[1] = s[n + 1]
      BY <1>1, <1>3
  <2>2. Len(Tail(Drops(s, n))) = 0
      BY <1>1, <2>1, BehindTheFirst
  <2>3. ReplayableBut(Tail(Drops(s, n)), 0)
      BY <2>2 DEF ReplayableBut
  <2> QED BY <1>3, <2>1, <2>3 DEF OrphanFirst
<1> QED BY <1>2, <1>3

\* A transcript that has too many messages has room for its newest turn and all of its
\* results.
LEMMA NewestTurnFits ==
    ASSUME AgentAssumption, NEW s, Conversation(s), ReplayableBut(s, 0), Len(s) > MaxMessages,
           NEW n \in Len(s) - MaxMessages .. Len(s) - 1,
           n = Len(s) - 1 \/ s[n + 1].role # "tool",
           \A i \in Len(s) - MaxMessages .. n - 1 : s[i + 1].role = "tool"
    PROVE  s[n + 1].role # "tool"
<1>1. Len(s) \in Nat /\ MaxMessages \in Nat /\ MaxMessages > 0 /\ MaxAsks \in Nat /\ MaxAsks < MaxMessages
    BY DEF Conversation, AgentAssumption
<1>2. SUFFICES ASSUME n = Len(s) - 1, s[Len(s)].role = "tool" PROVE FALSE
  <2>1. n = Len(s) - 1 => n + 1 = Len(s)
      BY <1>1
  <2> QED BY <2>1
<1>3. Len(s) \in 1 .. Len(s)
    BY <1>1
<1>4. PICK j \in 1 .. Len(s) - 1 : AskedAt(s, j, Len(s))
    BY <1>2, <1>3 DEF ReplayableBut
<1>5. j \in 1 .. Len(s) /\ j \in Nat
    BY <1>1
<1>6. s[j] \in Messages
    BY <1>5, MessageIn
<1>7. s[j].asks \in 0 .. MaxAsks
    BY <1>6 DEF Messages
<1>8. Len(s) - j <= MaxAsks
  <2>1. Len(s) - j <= s[j].asks
      BY <1>4 DEF AskedAt
  <2> QED BY <1>1, <1>5, <1>7, <2>1
<1>9. j - 1 \in Len(s) - MaxMessages .. n - 1 /\ (j - 1) + 1 = j
    BY <1>1, <1>2, <1>4, <1>5, <1>8
<1>10. s[(j - 1) + 1].role = "tool"
    BY <1>9
<1>11. s[j].role = "tool"
    BY <1>9, <1>10
<1> QED BY <1>4, <1>11 DEF AskedAt

LEMMA SameMessages ==
    ASSUME NEW s, Conversation(s), NEW u, Conversation(u), Len(s) = Len(u),
           \A i \in 1 .. Len(s) : s[i] = u[i]
    PROVE  s = u
<1>1. s \in Seq(Messages) /\ u \in Seq(Messages)
    BY DEF Conversation
<1> QED BY <1>1, SeqEqual

LEMMA OrphanIsDropped ==
    ASSUME NEW s, Conversation(s), OrphanFirst(s), NEW n \in 1 .. Len(s) - 1,
           n = Len(s) - 1 \/ s[n + 1].role # "tool"
    PROVE  ReplayableBut(Drops(s, n), 0) \/ OrphanFirst(Drops(s, n))
<1> DEFINE u == Tail(s)
<1>1. /\ Conversation(u) /\ Len(u) = Len(s) - 1 /\ Len(s) \in Nat /\ n \in Nat
      /\ \A i \in 1 .. Len(s) - 1 : u[i] = s[i + 1]
    BY BehindTheFirst DEF OrphanFirst
<1>2. ReplayableBut(u, 0)
    BY DEF OrphanFirst
<1> HIDE DEF u
<1>3. Drops(s, n) = Drops(u, n - 1)
  <2>1. n \in 0 .. Len(s) - 1 /\ n - 1 \in 0 .. Len(u) - 1 /\ Len(u) - (n - 1) = Len(s) - n
      BY <1>1
  <2>2. /\ Conversation(Drops(s, n)) /\ Len(Drops(s, n)) = Len(s) - n
        /\ \A i \in 1 .. Len(s) - n : Drops(s, n)[i] = s[n + i]
      BY <2>1, Dropped
  <2>3. PICK b \in 0 .. Len(u) - 1 : b = n - 1
      BY <2>1
  <2>5. Conversation(u)
      BY <1>1
  <2>6. /\ Conversation(Drops(u, b)) /\ Len(Drops(u, b)) = Len(u) - b
        /\ \A i \in 1 .. Len(u) - b : Drops(u, b)[i] = u[b + i]
      BY <2>5, Dropped
  <2>7. /\ Conversation(Drops(u, n - 1)) /\ Len(Drops(u, n - 1)) = Len(s) - n
        /\ \A i \in 1 .. Len(s) - n : Drops(u, n - 1)[i] = u[(n - 1) + i]
      BY <2>1, <2>3, <2>6
  <2>4. ASSUME NEW i \in 1 .. Len(s) - n PROVE u[(n - 1) + i] = s[n + i]
    <3>1. (n - 1) + i \in 1 .. Len(s) - 1 /\ ((n - 1) + i) + 1 = n + i
        BY <1>1
    <3> QED BY <1>1, <3>1
  <2>8. \A i \in 1 .. Len(s) - n : Drops(s, n)[i] = Drops(u, n - 1)[i]
      BY <2>2, <2>4, <2>7
  <2>9. PICK v, w : v = Drops(s, n) /\ w = Drops(u, n - 1)
      OBVIOUS
  <2>10. Conversation(v) /\ Conversation(w) /\ Len(v) = Len(w) /\ \A i \in 1 .. Len(v) : v[i] = w[i]
      BY <2>2, <2>7, <2>8, <2>9
  <2>11. v = w
      BY <2>10, SameMessages
  <2> QED BY <2>9, <2>11
<1>4. n - 1 \in 0 .. Len(u) - 1 /\ (n - 1) + 1 = n
    BY <1>1
<1>5. n - 1 = Len(u) - 1 \/ u[(n - 1) + 1].role # "tool"
    BY <1>1, <1>4
<1> QED BY <1>1, <1>2, <1>3, <1>4, <1>5, CapLeaves

\* What a session may be: bytes is whether the cap ever cut for them.
Kept(s, bytes) == ReplayableBut(s, 0) \/ (bytes /\ OrphanFirst(s))

LEMMA CapKeeps ==
    ASSUME AgentAssumption, NEW s, Conversation(s), Len(s) > 0, NEW bytes \in BOOLEAN, Kept(s, bytes)
    PROVE  /\ TooMany(s) \in Nat
           /\ TooMany(s) = 0 => Len(s) <= MaxMessages
           /\ TooMany(s) # 0 =>
                /\ Conversation(CapFrom(s, TooMany(s))) /\ Len(CapFrom(s, TooMany(s))) <= MaxMessages
                /\ Kept(CapFrom(s, TooMany(s)), bytes)
           /\ \A cut \in TooMany(s) + 1 .. Len(s) - 1 :
                /\ Conversation(CapFrom(s, cut)) /\ Len(CapFrom(s, cut)) <= MaxMessages
                /\ Kept(CapFrom(s, cut), TRUE)
<1>1. Len(s) \in Nat /\ MaxMessages \in Nat /\ MaxMessages > 0
    BY DEF Conversation, AgentAssumption
<1>2. TooMany(s) \in Nat /\ (TooMany(s) = 0 => Len(s) <= MaxMessages)
      /\ TooMany(s) >= Len(s) - MaxMessages
      /\ (TooMany(s) # 0 => Len(s) > MaxMessages /\ TooMany(s) = Len(s) - MaxMessages)
    BY <1>1 DEF TooMany
<1>3. ASSUME NEW cut \in 0 .. Len(s) - 1, cut >= TooMany(s), cut > 0
      PROVE  /\ Conversation(CapFrom(s, cut)) /\ Len(CapFrom(s, cut)) <= MaxMessages
             /\ Kept(CapFrom(s, cut), TRUE)
  <2>1. PICK n \in cut .. Len(s) - 1 :
            /\ CapFrom(s, cut) = Drops(s, n)
            /\ n = Len(s) - 1 \/ s[n + 1].role # "tool"
      BY BoundaryIsThere
  <2>2. n \in 0 .. Len(s) - 1 /\ n \in 1 .. Len(s) - 1 /\ Len(s) - n <= MaxMessages
      BY <1>1, <1>2, <1>3
  <2>3. Conversation(Drops(s, n)) /\ Len(Drops(s, n)) = Len(s) - n
      BY <2>2, Dropped
  <2>4. ReplayableBut(Drops(s, n), 0) \/ OrphanFirst(Drops(s, n))
    <3>1. CASE ReplayableBut(s, 0)
        BY <2>1, <2>2, <3>1, CapLeaves
    <3>2. CASE OrphanFirst(s)
        BY <2>1, <2>2, <3>2, OrphanIsDropped
    <3> QED BY <3>1, <3>2 DEF Kept
  <2>5. Kept(Drops(s, n), TRUE)
      BY <2>4 DEF Kept
  <2> QED BY <2>1, <2>2, <2>3, <2>5
<1>4. ASSUME NEW cut \in TooMany(s) + 1 .. Len(s) - 1
      PROVE  cut \in 0 .. Len(s) - 1 /\ cut >= TooMany(s) /\ cut > 0
    BY <1>1, <1>2
<1>5. ASSUME TooMany(s) # 0, ~ bytes
      PROVE  Kept(CapFrom(s, TooMany(s)), bytes)
  <2>1. ReplayableBut(s, 0)
      BY <1>5 DEF Kept
  <2>2. TooMany(s) \in 0 .. Len(s) - 1
      BY <1>1, <1>2, <1>5
  <2>3. PICK n \in TooMany(s) .. Len(s) - 1 :
            /\ CapFrom(s, TooMany(s)) = Drops(s, n)
            /\ n = Len(s) - 1 \/ s[n + 1].role # "tool"
            /\ \A i \in TooMany(s) .. n - 1 : s[i + 1].role = "tool"
      BY <2>2, BoundaryIsThere
  <2>4. Len(s) > MaxMessages /\ TooMany(s) = Len(s) - MaxMessages
      BY <1>2, <1>5
  <2>5. s[n + 1].role # "tool"
      BY <2>1, <2>3, <2>4, NewestTurnFits
  <2>6. n \in 0 .. Len(s) - 1
      BY <1>1, <2>2
  <2>7. ReplayableBut(Drops(s, n), 0)
      BY <2>1, <2>5, <2>6, DroppedAtABoundary
  <2> QED BY <2>3, <2>7 DEF Kept
<1>6. ASSUME TooMany(s) # 0
      PROVE  /\ Conversation(CapFrom(s, TooMany(s))) /\ Len(CapFrom(s, TooMany(s))) <= MaxMessages
             /\ Kept(CapFrom(s, TooMany(s)), bytes)
  <2>1. TooMany(s) \in 0 .. Len(s) - 1 /\ TooMany(s) > 0
      BY <1>1, <1>2, <1>6
  <2>2. /\ Conversation(CapFrom(s, TooMany(s))) /\ Len(CapFrom(s, TooMany(s))) <= MaxMessages
        /\ Kept(CapFrom(s, TooMany(s)), TRUE)
    <3>1. PICK cut \in 0 .. Len(s) - 1 : cut = TooMany(s)
        BY <2>1
    <3>2. cut >= TooMany(s) /\ cut > 0
        BY <1>2, <2>1, <3>1
    <3> QED BY <1>3, <3>1, <3>2
  <2>3. Kept(CapFrom(s, TooMany(s)), bytes)
    <3>1. CASE bytes
        BY <2>2, <3>1
    <3>2. CASE ~ bytes
        BY <1>5, <1>6, <3>2
    <3> QED BY <3>1, <3>2
  <2> QED BY <2>2, <2>3
<1> QED BY <1>2, <1>3, <1>4, <1>6

\* A round behind a session: what the session lacks, it lacks at its first message.
LEMMA RoundIsJoined ==
    ASSUME AgentAssumption, NEW s, Conversation(s), NEW u, Conversation(u), ReplayableBut(u, 0),
           NEW bytes \in BOOLEAN, Kept(s, bytes)
    PROVE  /\ Conversation(s \o <<User>> \o u) /\ Len(s \o <<User>> \o u) > 0
           /\ Kept(s \o <<User>> \o u, bytes)
<1> DEFINE said == <<User>> \o u
<1>1. Conversation(<<User>>) /\ ReplayableBut(<<User>>, 0) /\ Len(<<User>>) = 1
  <2>1. User \in Messages /\ User.role # "tool" /\ User.asks = 0
    <3>1. 0 \in 0 .. MaxAsks
        BY DEF AgentAssumption
    <3> QED BY <3>1, OfAMessage
  <2> QED BY <2>1, OneIsReplayable
<1>2. Conversation(said) /\ ReplayableBut(said, 0)
    BY <1>1, Joined
<1>3. s \o <<User>> \o u = s \o said
    BY <1>1, SMTT(20) DEF Conversation
<1>4. Conversation(s \o said) /\ Len(s \o said) = Len(s) + Len(said) /\ Len(said) > 0 /\ Len(s) \in Nat
  <2>1. Len(said) = 1 + Len(u) /\ Len(u) \in Nat /\ Len(s) \in Nat
      BY <1>1 DEF Conversation
  <2>2. Conversation(s \o said) /\ Len(s \o said) = Len(s) + Len(said)
      BY <1>2 DEF Conversation
  <2> QED BY <2>1, <2>2
<1> HIDE DEF said
<1>5. PICK t : t = s \o said
    OBVIOUS
<1>6. ASSUME ReplayableBut(s, 0) PROVE Kept(t, bytes)
  <2>1. ReplayableBut(t, 0)
      BY <1>2, <1>5, <1>6, Joined
  <2> QED BY <2>1 DEF Kept
<1>7. ASSUME bytes, OrphanFirst(s) PROVE Kept(t, bytes)
  <2>1. Conversation(Tail(s)) /\ ReplayableBut(Tail(s), 0) /\ Len(s) > 0 /\ s[1].role = "tool"
      BY <1>7, BehindTheFirst DEF OrphanFirst
  <2>2. ReplayableBut(Tail(s) \o said, 0)
      BY <1>2, <2>1, Joined
  <2>3. Tail(s \o said) = Tail(s) \o said /\ (s \o said)[1] = s[1]
      BY <1>2, <2>1, SMTT(20) DEF Conversation
  <2>4. Len(t) > 0
      BY <1>4, <1>5
  <2>5. OrphanFirst(t)
      BY <1>5, <2>1, <2>2, <2>3, <2>4 DEF OrphanFirst
  <2> QED BY <1>7, <2>5 DEF Kept
<1>8. Kept(t, bytes)
    BY <1>6, <1>7 DEF Kept
<1>9. Conversation(t) /\ Len(t) > 0
    BY <1>4, <1>5
<1>10. t = s \o <<User>> \o u
    BY <1>3, <1>5
<1> QED BY <1>8, <1>9, <1>10
--------------------------------------------------------------------------------
\* The run under way.

RunStates ==
    [pc : {"idle", "model", "tools", "persist"}, kind : {"run", "stream"}, session : BOOLEAN,
     attempt : 0 .. MaxRetries, turn : 0 .. RecursionLimit, tries : 0 .. EmptyAttempts,
     todo : Seq(CallKinds), sink : Seq(Messages), given : BOOLEAN, acted : Nat, again : Nat]

\* A run after so many transient failures.  A session's round lacks the results of the calls
\* that are still to be dispatched; a stream that gave nothing to its consumer did nothing.
RunSound(r, transients) ==
    /\ r \in RunStates
    /\ (r.pc = "tools") <=> (r.todo # <<>>)
    /\ Len(r.todo) <= MaxAsks
    /\ r.session =>
        /\ ReplayableBut(r.sink, Len(r.todo))
        /\ \A i \in 1 .. Len(r.todo) : r.todo[i] # "no_reply"
    /\ r.kind = "stream" => r.again = 0 /\ (~ r.given => r.acted = 0 /\ r.pc # "tools")
    /\ r.pc # "idle" => r.attempt > 0
    /\ r.again > 0 => transients > 0 /\ r.attempt > 1

AgentIInv ==
    /\ Conversation(transcript) /\ Len(transcript) <= MaxMessages
    /\ setbacks \in [RunEvents -> Nat]
    /\ RunSound(run, setbacks["transient"])
    /\ Kept(transcript, setbacks["bytes"] > 0)

LEMMA SetbackIsCounted ==
    ASSUME setbacks \in [RunEvents -> Nat], NEW e \in RunEvents, Setback(e)
    PROVE  /\ setbacks' \in [RunEvents -> Nat]
           /\ setbacks'[e] > 0
           /\ \A d \in RunEvents : setbacks'[d] >= setbacks[d]
BY DEF Setback

LEMMA EventsAre ==
    /\ "transient" \in RunEvents /\ "error" \in RunEvents /\ "persist" \in RunEvents
    /\ "leave" \in RunEvents /\ "bytes" \in RunEvents
BY DEF RunEvents

LEMMA IdleIsSound ==
    ASSUME AgentAssumption, NEW n
    PROVE  RunSound(NoRun, n) /\ NoRun.pc = "idle"
<1>1. /\ NoRun.pc = "idle" /\ NoRun.todo = <<>> /\ ~ NoRun.session /\ NoRun.again = 0
      /\ NoRun.acted = 0 /\ Len(<<>>) = 0
    BY DEF NoRun
<1>2. 0 \in 0 .. MaxRetries /\ 0 \in 0 .. RecursionLimit /\ 0 \in 0 .. EmptyAttempts
      /\ 0 <= MaxAsks
    BY DEF AgentAssumption
<1>3. <<>> \in Seq(CallKinds) /\ <<>> \in Seq(Messages)
    OBVIOUS
<1>4. NoRun \in RunStates
    BY <1>2, <1>3 DEF NoRun, RunStates
<1> QED BY <1>1, <1>2, <1>4 DEF RunSound

\* What a step of a run changes, and what it leaves.
LEMMA RunGoesOn ==
    ASSUME run \in RunStates, NEW new, RunGoes(new)
    PROVE  /\ run' = [pc |-> IF "pc" \in DOMAIN new THEN new.pc ELSE run.pc,
                      kind |-> IF "kind" \in DOMAIN new THEN new.kind ELSE run.kind,
                      session |-> IF "session" \in DOMAIN new THEN new.session ELSE run.session,
                      attempt |-> IF "attempt" \in DOMAIN new THEN new.attempt ELSE run.attempt,
                      turn |-> IF "turn" \in DOMAIN new THEN new.turn ELSE run.turn,
                      tries |-> IF "tries" \in DOMAIN new THEN new.tries ELSE run.tries,
                      todo |-> IF "todo" \in DOMAIN new THEN new.todo ELSE run.todo,
                      sink |-> IF "sink" \in DOMAIN new THEN new.sink ELSE run.sink,
                      given |-> IF "given" \in DOMAIN new THEN new.given ELSE run.given,
                      acted |-> IF "acted" \in DOMAIN new THEN new.acted ELSE run.acted,
                      again |-> IF "again" \in DOMAIN new THEN new.again ELSE run.again]
<1>1. DOMAIN run = {"pc", "kind", "session", "attempt", "turn", "tries", "todo", "sink", "given",
                    "acted", "again"}
    BY DEF RunStates
<1> QED BY <1>1 DEF RunGoes

LEMMA RunBegins ==
    ASSUME AgentAssumption, AgentIInv, BeginRun
    PROVE  RunSound(run', setbacks'["transient"]) /\ UNCHANGED <<transcript, setbacks>>
<1>1. run \in RunStates /\ run.todo = <<>> /\ Len(<<>>) = 0
    BY DEF AgentIInv, RunSound, BeginRun, RunAt
<1>2. PICK kind \in {"run", "stream"}, session \in BOOLEAN :
        RunGoes([pc |-> "model", kind |-> kind, session |-> session, attempt |-> 1, turn |-> 1,
              tries |-> 0, sink |-> <<>>, given |-> FALSE, acted |-> 0, again |-> 0])
    BY DEF BeginRun
<1>3. run' = [pc |-> "model", kind |-> kind, session |-> session, attempt |-> 1, turn |-> 1,
              tries |-> 0, todo |-> <<>>, sink |-> <<>>, given |-> FALSE, acted |-> 0, again |-> 0]
    BY <1>1, <1>2, RunGoesOn
<1>4. PICK q : q = run'
    OBVIOUS
<1>5. 1 \in 0 .. MaxRetries /\ 1 \in 0 .. RecursionLimit /\ 0 \in 0 .. EmptyAttempts /\ 0 <= MaxAsks
    BY DEF AgentAssumption
<1>6. <<>> \in Seq(CallKinds) /\ <<>> \in Seq(Messages)
    OBVIOUS
<1>7. q \in RunStates
    BY <1>3, <1>4, <1>5, <1>6 DEF RunStates
<1>8. ReplayableBut(q.sink, Len(q.todo))
    BY <1>1, <1>3, <1>4, NothingIsReplayable
<1>9. RunSound(q, setbacks'["transient"])
    BY <1>1, <1>3, <1>4, <1>5, <1>7, <1>8 DEF RunSound
<1> QED BY <1>4, <1>9 DEF BeginRun

LEMMA RunFields ==
    ASSUME run \in RunStates
    PROVE  /\ run.pc \in {"idle", "model", "tools", "persist"} /\ run.kind \in {"run", "stream"}
           /\ run.session \in BOOLEAN /\ run.attempt \in 0 .. MaxRetries
           /\ run.turn \in 0 .. RecursionLimit /\ run.tries \in 0 .. EmptyAttempts
           /\ run.todo \in Seq(CallKinds) /\ run.sink \in Seq(Messages) /\ run.given \in BOOLEAN
           /\ run.acted \in Nat /\ run.again \in Nat
BY DEF RunStates

\* Before a call of the model nothing is left to dispatch.
LEMMA AtTheModel ==
    ASSUME AgentIInv, RunAt("model")
    PROVE  /\ run \in RunStates /\ run.todo = <<>> /\ Len(<<>>) = 0
           /\ run.session => ReplayableBut(run.sink, 0)
           /\ run.kind = "stream" => run.again = 0 /\ (~ run.given => run.acted = 0)
           /\ run.again > 0 => setbacks["transient"] > 0 /\ run.attempt > 1
           /\ run.attempt > 0
<1>1. run.pc = "model" /\ RunSound(run, setbacks["transient"])
    BY DEF AgentIInv, RunAt
<1>2. run.todo = <<>> /\ Len(run.todo) = 0
    BY <1>1 DEF RunSound
<1> QED BY <1>1, <1>2 DEF RunSound

\* A reply ends the run.
LEMMA RunReplies ==
    ASSUME AgentAssumption, AgentIInv, RunAt("model"), NEW given \in BOOLEAN,
           run.given => given,
           RunGoes([pc |-> "persist", sink |-> Append(run.sink, Reply), given |-> given])
    PROVE  RunSound(run', setbacks["transient"])
<1>1. /\ run \in RunStates /\ run.todo = <<>> /\ Len(<<>>) = 0
      /\ run.session => ReplayableBut(run.sink, 0)
      /\ run.kind = "stream" => run.again = 0 /\ (~ run.given => run.acted = 0)
      /\ run.again > 0 => setbacks["transient"] > 0 /\ run.attempt > 1
      /\ run.attempt > 0
    BY AtTheModel
<1>2. PICK q : q = run'
    OBVIOUS
<1>3. q = [pc |-> "persist", kind |-> run.kind, session |-> run.session, attempt |-> run.attempt,
           turn |-> run.turn, tries |-> run.tries, todo |-> run.todo, sink |-> Append(run.sink, Reply),
           given |-> given, acted |-> run.acted, again |-> run.again]
  <2>1. PICK k, g : k = Append(run.sink, Reply) /\ g = given
      OBVIOUS
  <2>2. RunGoes([pc |-> "persist", sink |-> k, given |-> g])
      BY <2>1
  <2>3. run \in RunStates /\ q = run'
      BY <1>1, <1>2
  <2>4. PICK new : new = [pc |-> "persist", sink |-> k, given |-> g]
      OBVIOUS
  <2>5. /\ RunGoes(new) /\ DOMAIN new = {"pc", "sink", "given"}
        /\ new.pc = "persist" /\ new.sink = k /\ new.given = g
      BY <2>2, <2>4
  <2>6. q = [pc |-> new.pc, kind |-> run.kind, session |-> run.session, attempt |-> run.attempt,
             turn |-> run.turn, tries |-> run.tries, todo |-> run.todo, sink |-> new.sink,
             given |-> new.given, acted |-> run.acted, again |-> run.again]
      BY <2>3, <2>5, RunGoesOn
  <2> QED BY <2>1, <2>5, <2>6
<1>4. Reply = M("assistant", 0) /\ 0 \in 0 .. MaxAsks /\ 0 <= MaxAsks /\ Reply \in Messages
  <2>1. 0 \in 0 .. MaxAsks
      BY DEF AgentAssumption
  <2> QED BY <2>1, OfAMessage
<1>5. Append(run.sink, Reply) \in Seq(Messages)
    BY <1>1, <1>4, RunFields
<1>6. q \in RunStates
    BY <1>1, <1>3, <1>5, RunFields DEF RunStates
<1>7. q.session => ReplayableBut(q.sink, 0)
  <2>1. Conversation(run.sink)
      BY <1>1, RunFields DEF Conversation
  <2>2. PICK s : s = run.sink
      OBVIOUS
  <2>3. ReplayableBut(s, 0) => ReplayableBut(Append(s, M("assistant", 0)), 0)
      BY <1>4, <2>1, <2>2, TurnIsAppended
  <2>4. q.sink = Append(s, M("assistant", 0)) /\ q.session = run.session
      BY <1>1, <1>3, <1>4, <2>2
  <2> QED BY <1>1, <2>2, <2>3, <2>4
<1>8. /\ q.pc = "persist" /\ q.todo = <<>> /\ q.kind = run.kind /\ q.again = run.again
      /\ q.acted = run.acted /\ q.given = given /\ q.attempt = run.attempt
    BY <1>1, <1>3
<1>9. RunSound(q, setbacks["transient"])
    BY <1>1, <1>4, <1>6, <1>7, <1>8 DEF RunSound
<1> QED BY <1>2, <1>9

LEMMA GivenIs ==
    ASSUME run \in RunStates
    PROVE  Given \in BOOLEAN /\ (run.given => Given) /\ (run.kind = "stream" => Given)
BY RunFields DEF Given

LEMMA TurnIsEmpty ==
    ASSUME AgentAssumption, AgentIInv, EmptyTurn
    PROVE  RunSound(run', setbacks'["transient"]) /\ UNCHANGED <<transcript, setbacks>>
<1>1. /\ run \in RunStates /\ run.todo = <<>> /\ Len(<<>>) = 0 /\ RunAt("model")
      /\ run.session => ReplayableBut(run.sink, 0)
      /\ run.kind = "stream" => run.again = 0 /\ (~ run.given => run.acted = 0)
      /\ run.again > 0 => setbacks["transient"] > 0 /\ run.attempt > 1
      /\ run.attempt > 0
    BY AtTheModel DEF EmptyTurn
<1>2. PICK given \in {run.given, Given} :
        IF run.tries + 1 < EmptyAttempts
          THEN RunGoes([tries |-> run.tries + 1, given |-> given])
          ELSE RunGoes([pc |-> "persist", sink |-> Append(run.sink, Reply), given |-> given])
    BY DEF EmptyTurn
<1>3. given \in BOOLEAN /\ (run.given => given)
    BY <1>1, <1>2, GivenIs, RunFields
<1>4. UNCHANGED <<transcript, setbacks>>
    BY DEF EmptyTurn
<1>5. CASE ~ (run.tries + 1 < EmptyAttempts)
    BY <1>1, <1>2, <1>3, <1>4, <1>5, RunReplies
<1>6. CASE run.tries + 1 < EmptyAttempts
  <2>1. PICK q : q = run'
      OBVIOUS
  <2>2. q = [pc |-> run.pc, kind |-> run.kind, session |-> run.session, attempt |-> run.attempt,
             turn |-> run.turn, tries |-> run.tries + 1, todo |-> run.todo, sink |-> run.sink,
             given |-> given, acted |-> run.acted, again |-> run.again]
      BY <1>1, <1>2, <1>6, <2>1, RunGoesOn
  <2>3. run.tries + 1 \in 0 .. EmptyAttempts
      BY <1>1, <1>6, RunFields, SMTT(20) DEF AgentAssumption
  <2>4. q \in RunStates
      BY <1>1, <1>3, <2>2, <2>3, RunFields DEF RunStates
  <2>5. /\ q.pc = run.pc /\ q.todo = <<>> /\ q.kind = run.kind /\ q.again = run.again
        /\ q.acted = run.acted /\ q.given = given /\ q.attempt = run.attempt
        /\ q.sink = run.sink /\ q.session = run.session
      BY <1>1, <2>2
  <2>6. run.pc = "model" /\ 0 <= MaxAsks
      BY <1>1 DEF RunAt, AgentAssumption
  <2>7. RunSound(q, setbacks["transient"])
      BY <1>1, <1>3, <2>4, <2>5, <2>6 DEF RunSound
  <2> QED BY <1>4, <2>1, <2>7
<1> QED BY <1>5, <1>6

LEMMA TurnIsFinal ==
    ASSUME AgentAssumption, AgentIInv, FinalTurn
    PROVE  RunSound(run', setbacks'["transient"]) /\ UNCHANGED <<transcript, setbacks>>
<1>1. run \in RunStates /\ RunAt("model")
    BY AtTheModel DEF FinalTurn
<1>2. Given \in BOOLEAN /\ (run.given => Given)
    BY <1>1, GivenIs
<1>3. RunSound(run', setbacks["transient"])
    BY <1>1, <1>2, RunReplies DEF FinalTurn
<1> QED BY <1>3 DEF FinalTurn

LEMMA TurnAsks ==
    ASSUME AgentAssumption, AgentIInv, ToolTurn
    PROVE  RunSound(run', setbacks'["transient"]) /\ UNCHANGED <<transcript, setbacks>>
<1>1. /\ run \in RunStates /\ run.todo = <<>> /\ Len(<<>>) = 0
      /\ run.session => ReplayableBut(run.sink, 0)
      /\ run.kind = "stream" => run.again = 0 /\ (~ run.given => run.acted = 0)
      /\ run.again > 0 => setbacks["transient"] > 0 /\ run.attempt > 1
      /\ run.attempt > 0
    BY AtTheModel DEF ToolTurn
<1>2. PICK kinds \in Asked :
        RunGoes([pc |-> "tools", todo |-> kinds, given |-> Given,
              sink |-> Append(run.sink, M("assistant", Len(kinds)))])
    BY DEF ToolTurn
<1>3. PICK n \in 1 .. MaxAsks : kinds \in [1 .. n -> CallKinds]
    BY <1>2 DEF Asked
<1>4. /\ kinds \in Seq(CallKinds) /\ Len(kinds) = n /\ kinds # <<>> /\ n \in 0 .. MaxAsks
      /\ n <= MaxAsks
  <2>1. n \in Nat /\ n > 0 /\ n <= MaxAsks
      BY DEF AgentAssumption
  <2>2. kinds \in Seq(CallKinds) /\ Len(kinds) = n
      BY <1>3, <2>1
  <2> QED BY <2>1, <2>2
<1>5. run.session => \A i \in 1 .. n : kinds[i] # "no_reply"
    BY <1>2, <1>3 DEF Asked
<1>6. PICK q : q = run'
    OBVIOUS
<1>7. q = [pc |-> "tools", kind |-> run.kind, session |-> run.session, attempt |-> run.attempt,
           turn |-> run.turn, tries |-> run.tries, todo |-> kinds, sink |-> Append(run.sink, M("assistant", n)),
           given |-> Given, acted |-> run.acted, again |-> run.again]
  <2>1. PICK k, given : k = Append(run.sink, M("assistant", n)) /\ given = Given
      OBVIOUS
  <2>2. RunGoes([pc |-> "tools", todo |-> kinds, given |-> given, sink |-> k])
      BY <1>2, <1>4, <2>1
  <2>3. q = [pc |-> "tools", kind |-> run.kind, session |-> run.session, attempt |-> run.attempt,
             turn |-> run.turn, tries |-> run.tries, todo |-> kinds, sink |-> k,
             given |-> given, acted |-> run.acted, again |-> run.again]
      BY <1>1, <1>6, <2>2, RunGoesOn
  <2> QED BY <2>1, <2>3
<1>8. /\ Append(run.sink, M("assistant", n)) \in Seq(Messages)
      /\ run.session => ReplayableBut(Append(run.sink, M("assistant", n)), n)
  <2>1. Conversation(run.sink)
      BY <1>1, RunFields DEF Conversation
  <2>2. PICK s : s = run.sink
      OBVIOUS
  <2>3. M("assistant", n) \in Messages
      BY <1>4, OfAMessage
  <2>4. Conversation(Append(s, M("assistant", n)))
      BY <2>1, <2>2, <2>3, Appended
  <2>5. ReplayableBut(s, 0) => ReplayableBut(Append(s, M("assistant", n)), n)
      BY <1>4, <2>1, <2>2, TurnIsAppended
  <2> QED BY <1>1, <2>2, <2>4, <2>5 DEF Conversation
<1>9. q \in RunStates
    BY <1>1, <1>4, <1>7, <1>8, GivenIs, RunFields DEF RunStates
<1>10. /\ q.pc = "tools" /\ q.todo = kinds /\ q.kind = run.kind /\ q.again = run.again
       /\ q.acted = run.acted /\ q.given = Given /\ q.attempt = run.attempt
       /\ q.session = run.session /\ q.sink = Append(run.sink, M("assistant", n))
    BY <1>1, <1>7
<1>11. q.session => ReplayableBut(q.sink, Len(q.todo))
    BY <1>4, <1>8, <1>10
<1>12. RunSound(q, setbacks["transient"])
    BY <1>1, <1>4, <1>5, <1>9, <1>10, <1>11, GivenIs DEF RunSound
<1> QED BY <1>6, <1>12 DEF ToolTurn

LEMMA AtTheTools ==
    ASSUME AgentIInv, RunAt("tools")
    PROVE  /\ run \in RunStates /\ run.todo # <<>> /\ Len(run.todo) \in 1 .. MaxAsks
           /\ run.session =>
                /\ ReplayableBut(run.sink, Len(run.todo))
                /\ \A i \in 1 .. Len(run.todo) : run.todo[i] # "no_reply"
           /\ run.kind = "stream" => run.again = 0 /\ run.given
           /\ run.again > 0 => setbacks["transient"] > 0 /\ run.attempt > 1
           /\ run.attempt > 0
<1>1. run.pc = "tools" /\ RunSound(run, setbacks["transient"])
    BY DEF AgentIInv, RunAt
<1>2. run \in RunStates /\ run.todo # <<>> /\ Len(run.todo) <= MaxAsks
    BY <1>1 DEF RunSound
<1>3. Len(run.todo) \in Nat /\ Len(run.todo) # 0
    BY <1>2, RunFields
<1>4. Len(run.todo) \in 1 .. MaxAsks
    BY <1>2, <1>3 DEF AgentAssumption
<1> QED BY <1>1, <1>2, <1>4 DEF RunSound

LEMMA CallEndsTheRun ==
    ASSUME AgentAssumption, AgentIInv, RunAt("tools"), Head(run.todo) = "no_reply", NEW acted \in Nat,
           RunGoes([pc |-> "persist", todo |-> <<>>, acted |-> acted,
                    sink |-> Append(Append(run.sink, Tool), Reply)])
    PROVE  RunSound(run', setbacks["transient"])
<1>1. /\ run \in RunStates /\ run.todo # <<>> /\ Len(run.todo) \in 1 .. MaxAsks
      /\ run.session => \A i \in 1 .. Len(run.todo) : run.todo[i] # "no_reply"
      /\ run.kind = "stream" => run.again = 0 /\ run.given
      /\ run.again > 0 => setbacks["transient"] > 0 /\ run.attempt > 1
      /\ run.attempt > 0
    BY AtTheTools
<1>2. ~ run.session
  <2>1. 1 \in 1 .. Len(run.todo) /\ run.todo[1] = "no_reply"
      BY <1>1, RunFields
  <2> QED BY <1>1, <2>1
<1>3. Append(Append(run.sink, Tool), Reply) \in Seq(Messages)
  <2>1. Tool \in Messages /\ Reply \in Messages
    <3>1. 0 \in 0 .. MaxAsks
        BY DEF AgentAssumption
    <3> QED BY <3>1, OfAMessage
  <2> QED BY <1>1, <2>1, RunFields
<1>4. PICK q, k, e, a : q = run' /\ a = acted /\ k = Append(Append(run.sink, Tool), Reply) /\ e = <<>>
    OBVIOUS
<1>5. RunGoes([pc |-> "persist", todo |-> e, acted |-> a, sink |-> k])
    BY <1>4
<1>6. q = [pc |-> "persist", kind |-> run.kind, session |-> run.session, attempt |-> run.attempt,
           turn |-> run.turn, tries |-> run.tries, todo |-> e, sink |-> k,
           given |-> run.given, acted |-> a, again |-> run.again]
  <2>1. run \in RunStates /\ q = run'
      BY <1>1, <1>4
  <2>2. PICK new : new = [pc |-> "persist", todo |-> e, acted |-> a, sink |-> k]
      OBVIOUS
  <2>3. /\ RunGoes(new) /\ DOMAIN new = {"pc", "todo", "acted", "sink"}
        /\ new.pc = "persist" /\ new.todo = e /\ new.acted = a /\ new.sink = k
      BY <1>5, <2>2
  <2>4. q = [pc |-> new.pc, kind |-> run.kind, session |-> run.session, attempt |-> run.attempt, turn |-> run.turn, tries |-> run.tries, todo |-> new.todo, sink |-> new.sink, given |-> run.given, acted |-> new.acted, again |-> run.again]
      BY <2>1, <2>3, RunGoesOn
  <2> QED BY <2>3, <2>4
<1>7. e \in Seq(CallKinds) /\ Len(e) = 0 /\ k \in Seq(Messages)
    BY <1>3, <1>4
<1>8. q \in RunStates
    BY <1>1, <1>4, <1>6, <1>7, RunFields DEF RunStates
<1>9. /\ q.pc = "persist" /\ q.todo = <<>> /\ Len(q.todo) = 0 /\ ~ q.session /\ q.kind = run.kind
      /\ q.again = run.again /\ q.given = run.given /\ q.attempt = run.attempt
    BY <1>2, <1>4, <1>6, <1>7
<1>10. 0 <= MaxAsks
    BY DEF AgentAssumption
<1>11. RunSound(q, setbacks["transient"])
    BY <1>1, <1>8, <1>9, <1>10 DEF RunSound
<1> QED BY <1>4, <1>11

LEMMA CallIsDone ==
    ASSUME AgentAssumption, AgentIInv, RunAt("tools"), NEW acted \in Nat, NEW pc, NEW turn, NEW tries,
           IF Len(run.todo) = 1
             THEN pc \in {"model", "persist"} /\ turn \in 0 .. RecursionLimit /\ tries \in 0 .. EmptyAttempts
             ELSE pc = "tools" /\ turn = run.turn /\ tries = run.tries,
           RunGoes([pc |-> pc, turn |-> turn, tries |-> tries, todo |-> Tail(run.todo),
                    acted |-> acted, sink |-> Append(run.sink, Tool)])
    PROVE  RunSound(run', setbacks["transient"])
<1>1. /\ run \in RunStates /\ run.todo # <<>> /\ Len(run.todo) \in 1 .. MaxAsks
      /\ run.session =>
           /\ ReplayableBut(run.sink, Len(run.todo))
           /\ \A i \in 1 .. Len(run.todo) : run.todo[i] # "no_reply"
      /\ run.kind = "stream" => run.again = 0 /\ run.given
      /\ run.again > 0 => setbacks["transient"] > 0 /\ run.attempt > 1
      /\ run.attempt > 0
    BY AtTheTools
<1>2. PICK q, k, e, n, a : q = run' /\ a = acted /\ k = Append(run.sink, Tool) /\ e = Tail(run.todo) /\ n = Len(run.todo)
    OBVIOUS
<1>3. RunGoes([pc |-> pc, turn |-> turn, tries |-> tries, todo |-> e, acted |-> a, sink |-> k])
    BY <1>2
<1>4. q = [pc |-> pc, kind |-> run.kind, session |-> run.session, attempt |-> run.attempt,
           turn |-> turn, tries |-> tries, todo |-> e, sink |-> k,
           given |-> run.given, acted |-> a, again |-> run.again]
  <2>1. run \in RunStates /\ q = run'
      BY <1>1, <1>2
  <2>2. PICK new : new = [pc |-> pc, turn |-> turn, tries |-> tries, todo |-> e, acted |-> a, sink |-> k]
      OBVIOUS
  <2>3. /\ RunGoes(new) /\ DOMAIN new = {"pc", "turn", "tries", "todo", "acted", "sink"}
        /\ new.pc = pc /\ new.turn = turn /\ new.tries = tries /\ new.todo = e /\ new.acted = a /\ new.sink = k
      BY <1>3, <2>2
  <2>4. q = [pc |-> new.pc, kind |-> run.kind, session |-> run.session, attempt |-> run.attempt, turn |-> new.turn, tries |-> new.tries, todo |-> new.todo, sink |-> new.sink, given |-> run.given, acted |-> new.acted, again |-> run.again]
      BY <2>1, <2>3, RunGoesOn
  <2> QED BY <2>3, <2>4
<1>5. /\ e \in Seq(CallKinds) /\ Len(e) = n - 1 /\ n \in Nat /\ n > 0 /\ n <= MaxAsks
      /\ \A i \in 1 .. n - 1 : e[i] = run.todo[i + 1]
      /\ n = 1 <=> e = <<>>
  <2>1. /\ run.todo \in Seq(CallKinds) /\ n \in Nat /\ n > 0 /\ n <= MaxAsks
      BY <1>1, <1>2, RunFields, SMTT(20) DEF AgentAssumption
  <2>2. e \in Seq(CallKinds) /\ Len(e) = n - 1 /\ \A i \in 1 .. n - 1 : e[i] = run.todo[i + 1]
      BY <1>1, <1>2, <2>1
  <2>3. n = 1 <=> e = <<>>
      BY <2>1, <2>2, SMTT(20)
  <2> QED BY <2>1, <2>2, <2>3
<1>6. /\ k \in Seq(Messages)
      /\ run.session => ReplayableBut(k, n - 1)
  <2>1. Tool \in Messages
    <3>1. 0 \in 0 .. MaxAsks
        BY DEF AgentAssumption
    <3> QED BY <3>1, OfAMessage
  <2>2. PICK s : s = run.sink
      OBVIOUS
  <2>3. Conversation(s)
      BY <1>1, <2>2, RunFields DEF Conversation
  <2>4. Conversation(Append(s, Tool))
      BY <2>1, <2>3, Appended
  <2>5. ReplayableBut(s, n) => ReplayableBut(Append(s, Tool), n - 1)
      BY <1>5, <2>3, ResultIsAppended
  <2> QED BY <1>1, <1>2, <2>2, <2>4, <2>5 DEF Conversation
<1>7. pc \in {"model", "persist", "tools"} /\ turn \in 0 .. RecursionLimit /\ tries \in 0 .. EmptyAttempts
      /\ (pc = "tools" <=> n # 1)
    BY <1>1, <1>2, RunFields
<1>8. q \in RunStates
    BY <1>1, <1>2, <1>4, <1>5, <1>6, <1>7, RunFields DEF RunStates
<1>9. /\ q.pc = pc /\ q.todo = e /\ q.session = run.session /\ q.kind = run.kind /\ q.sink = k
      /\ q.again = run.again /\ q.given = run.given /\ q.attempt = run.attempt
    BY <1>4
<1>10. run.session => \A i \in 1 .. Len(e) : e[i] # "no_reply"
  <2>1. ASSUME run.session, NEW i \in 1 .. n - 1 PROVE e[i] # "no_reply"
    <3>1. i + 1 \in 1 .. n
        BY <1>5
    <3> QED BY <1>1, <1>2, <1>5, <2>1, <3>1
  <2> QED BY <1>5, <2>1
<1>11. Len(q.todo) = n - 1 /\ Len(q.todo) <= MaxAsks /\ (q.pc = "tools" <=> q.todo # <<>>)
  <2>1. n - 1 <= MaxAsks
      BY <1>5 DEF AgentAssumption
  <2> QED BY <1>5, <1>7, <1>9, <2>1
<1>12. q.session => ReplayableBut(q.sink, Len(q.todo)) /\ \A i \in 1 .. Len(q.todo) : q.todo[i] # "no_reply"
    BY <1>5, <1>6, <1>9, <1>10
<1>13. RunSound(q, setbacks["transient"])
    BY <1>1, <1>8, <1>9, <1>11, <1>12 DEF RunSound
<1> QED BY <1>2, <1>13

LEMMA CallIsDispatched ==
    ASSUME AgentAssumption, AgentIInv, Dispatch
    PROVE  RunSound(run', setbacks'["transient"]) /\ UNCHANGED <<transcript, setbacks>>
<1> DEFINE acted == run.acted + (IF Head(run.todo) = "acts" THEN 1 ELSE 0)
           last == Len(run.todo) = 1
<1>1. run \in RunStates /\ RunAt("tools")
    BY AtTheTools DEF Dispatch
<1>2. acted \in Nat
    BY <1>1, RunFields
<1>3. CASE Head(run.todo) = "no_reply"
  <2>1. RunGoes([pc |-> "persist", todo |-> <<>>, acted |-> acted,
                 sink |-> Append(Append(run.sink, Tool), Reply)])
      BY <1>3 DEF Dispatch
  <2>2. RunSound(run', setbacks["transient"])
      BY <1>1, <1>2, <1>3, <2>1, CallEndsTheRun
  <2> QED BY <2>2 DEF Dispatch
<1>4. CASE Head(run.todo) # "no_reply"
  <2>1. PICK pc, turn, tries :
            /\ pc = IF last THEN AfterLastCall.pc ELSE "tools"
            /\ turn = IF last THEN AfterLastCall.turn ELSE run.turn
            /\ tries = IF last THEN AfterLastCall.tries ELSE run.tries
      OBVIOUS
  <2>2. RunGoes([pc |-> pc, turn |-> turn, tries |-> tries, todo |-> Tail(run.todo),
                 acted |-> acted, sink |-> Append(run.sink, Tool)])
      BY <1>4, <2>1 DEF Dispatch
  <2>3. /\ AfterLastCall.pc \in {"model", "persist"} /\ AfterLastCall.turn \in 0 .. RecursionLimit
        /\ AfterLastCall.tries \in 0 .. EmptyAttempts
      BY <1>1, RunFields, SMTT(20) DEF AfterLastCall, AgentAssumption
  <2>4. IF last
          THEN pc \in {"model", "persist"} /\ turn \in 0 .. RecursionLimit /\ tries \in 0 .. EmptyAttempts
          ELSE pc = "tools" /\ turn = run.turn /\ tries = run.tries
      BY <2>1, <2>3
  <2>5. RunSound(run', setbacks["transient"])
      BY <1>1, <1>2, <2>2, <2>4, CallIsDone
  <2> QED BY <2>5 DEF Dispatch
<1> QED BY <1>3, <1>4

LEMMA TransientFails ==
    ASSUME AgentAssumption, AgentIInv, Transient
    PROVE  /\ RunSound(run', setbacks'["transient"]) /\ UNCHANGED transcript
           /\ setbacks' \in [RunEvents -> Nat] /\ (setbacks["bytes"] > 0 => setbacks'["bytes"] > 0)
<1>1. /\ run \in RunStates
      /\ run.kind = "stream" => run.again = 0 /\ (~ run.given => run.acted = 0 /\ run.pc # "tools")
    BY DEF AgentIInv, RunSound
<1>6. run.attempt > 0
    BY DEF AgentIInv, RunSound, Transient, RunAt
<1>2. /\ setbacks' \in [RunEvents -> Nat] /\ setbacks'["transient"] > 0
      /\ setbacks'["bytes"] >= setbacks["bytes"] /\ setbacks["bytes"] \in Nat /\ setbacks'["bytes"] \in Nat
    BY SetbackIsCounted, EventsAre DEF Transient, AgentIInv
<1>3. PICK acted \in {run.acted, run.acted + (IF RunAt("tools") THEN 1 ELSE 0)},
           given \in {run.given, Given} :
        IF MayRetry(given)
          THEN RunGoes([pc |-> "model", attempt |-> run.attempt + 1, turn |-> 1, tries |-> 0,
                     todo |-> <<>>, sink |-> <<>>, acted |-> 0, again |-> run.again + acted])
          ELSE run' = NoRun
    BY DEF Transient
<1>4. CASE ~ MayRetry(given)
  <2>1. RunSound(run', setbacks'["transient"])
    <3>1. PICK n : n = setbacks'["transient"]
        OBVIOUS
    <3>2. RunSound(NoRun, n)
        BY IdleIsSound
    <3>3. run' = NoRun
        BY <1>3, <1>4
    <3> QED BY <3>1, <3>2, <3>3
  <2> QED BY <1>2, <2>1 DEF Transient
<1>5. CASE MayRetry(given)
  <2>1. PICK q, e, a, n : q = run' /\ e = <<>> /\ a = run.again + acted /\ n = run.attempt + 1
      OBVIOUS
  <2>2. PICK new : new = [pc |-> "model", attempt |-> n, turn |-> 1, tries |-> 0,
                          todo |-> e, sink |-> e, acted |-> 0, again |-> a]
      OBVIOUS
  <2>3. /\ RunGoes(new)
        /\ DOMAIN new = {"pc", "attempt", "turn", "tries", "todo", "sink", "acted", "again"}
        /\ new.pc = "model" /\ new.attempt = n /\ new.turn = 1 /\ new.tries = 0 /\ new.todo = e
        /\ new.sink = e /\ new.acted = 0 /\ new.again = a
      BY <1>3, <1>5, <2>1, <2>2
  <2>4. q = [pc |-> new.pc, kind |-> run.kind, session |-> run.session, attempt |-> new.attempt,
             turn |-> new.turn, tries |-> new.tries, todo |-> new.todo, sink |-> new.sink,
             given |-> run.given, acted |-> new.acted, again |-> new.again]
      BY <1>1, <2>1, <2>3, RunGoesOn
  <2>5. q = [pc |-> "model", kind |-> run.kind, session |-> run.session, attempt |-> n,
             turn |-> 1, tries |-> 0, todo |-> e, sink |-> e,
             given |-> run.given, acted |-> 0, again |-> a]
      BY <2>3, <2>4
  <2>6. /\ run.attempt \in Nat /\ run.attempt < MaxRetries /\ run.again \in Nat /\ run.acted \in Nat
        /\ acted \in Nat
        /\ MaxRetries \in Nat /\ 1 \in 0 .. RecursionLimit /\ 0 \in 0 .. EmptyAttempts /\ 0 <= MaxAsks
      BY <1>1, <1>3, <1>5, RunFields, SMTT(20) DEF MayRetry, AgentAssumption
  <2>7. a \in Nat /\ n \in 0 .. MaxRetries
    <3>1. a = run.again + acted /\ n = run.attempt + 1
        BY <2>1
    <3>2. a \in Nat
        BY <2>6, <3>1
    <3>3. n \in 0 .. MaxRetries
        BY <2>6, <3>1
    <3> QED BY <3>2, <3>3
  <2>8. e \in Seq(CallKinds) /\ e \in Seq(Messages) /\ Len(e) = 0
      BY <2>1
  <2>9. q \in RunStates
      BY <1>1, <2>5, <2>6, <2>7, <2>8, RunFields DEF RunStates
  <2>10. /\ q.pc = "model" /\ q.todo = <<>> /\ Len(q.todo) = 0 /\ q.sink = <<>> /\ q.kind = run.kind
         /\ q.acted = 0 /\ q.again = a /\ q.attempt = n
      BY <2>1, <2>5, <2>8
  <2>11. ASSUME run.kind = "stream" PROVE a = 0
    <3>1. ~ given
        BY <1>5, <2>11 DEF MayRetry
    <3>a. Given
        BY <1>1, <2>11, GivenIs
    <3>b. given = run.given \/ given = Given
        BY <1>3
    <3>2. given = run.given
        BY <3>a, <3>b, <3>1, Zenon
    <3>3. run.acted = 0 /\ run.pc # "tools" /\ run.again = 0
        BY <1>1, <2>11, <3>1, <3>2
    <3>4. acted = 0
        BY <1>3, <3>3 DEF RunAt
    <3> QED BY <2>1, <3>3, <3>4
  <2>12. a > 0 => n > 1
      BY <1>6, <2>1, <2>6
  <2>13. q.kind = "stream" => q.again = 0 /\ q.acted = 0 /\ q.pc # "tools"
      BY <2>10, <2>11
  <2>14. ReplayableBut(q.sink, Len(q.todo))
      BY <2>10, NothingIsReplayable
  <2>15. n > 0
      BY <2>1, <2>6
  <2>16. Len(q.todo) <= MaxAsks /\ \A i \in 1 .. Len(q.todo) : q.todo[i] # "no_reply"
      BY <2>6, <2>10
  <2>17. RunSound(q, setbacks'["transient"])
      BY <1>2, <2>9, <2>10, <2>12, <2>13, <2>14, <2>15, <2>16 DEF RunSound
  <2> QED BY <1>2, <2>1, <2>17 DEF Transient
<1> QED BY <1>4, <1>5

LEMMA RunIsGone ==
    ASSUME AgentAssumption, run' = NoRun
    PROVE  RunSound(run', setbacks'["transient"])
<1>1. PICK n : n = setbacks'["transient"]
    OBVIOUS
<1>2. RunSound(NoRun, n)
    BY IdleIsSound
<1> QED BY <1>1, <1>2

LEMMA RunIsLeft ==
    ASSUME AgentAssumption, AgentIInv, RunRaises
    PROVE  /\ RunSound(run', setbacks'["transient"]) /\ UNCHANGED transcript
           /\ setbacks' \in [RunEvents -> Nat] /\ (setbacks["bytes"] > 0 => setbacks'["bytes"] > 0)
<1>1. /\ setbacks' \in [RunEvents -> Nat]
      /\ setbacks'["bytes"] >= setbacks["bytes"] /\ setbacks["bytes"] \in Nat /\ setbacks'["bytes"] \in Nat
    BY SetbackIsCounted, EventsAre DEF RunRaises, AgentIInv
<1>2. RunSound(run', setbacks'["transient"])
    BY RunIsGone DEF RunRaises
<1> QED BY <1>1, <1>2 DEF RunRaises

LEMMA RoundIsWritten ==
    ASSUME AgentAssumption, AgentIInv, PersistRound
    PROVE  AgentIInv'
<1> DEFINE new == transcript \o <<User>> \o run.sink
           bytes == setbacks["bytes"] > 0
<1>1. /\ Conversation(transcript) /\ Len(transcript) <= MaxMessages
      /\ setbacks \in [RunEvents -> Nat] /\ setbacks["bytes"] \in Nat
      /\ Kept(transcript, bytes) /\ bytes \in BOOLEAN
    BY EventsAre DEF AgentIInv
<1>2. RunSound(run', setbacks'["transient"])
    BY RunIsGone DEF PersistRound
<1>3. ASSUME UNCHANGED transcript, setbacks' \in [RunEvents -> Nat],
             setbacks["bytes"] > 0 => setbacks'["bytes"] > 0
      PROVE  AgentIInv'
    BY <1>1, <1>2, <1>3 DEF AgentIInv, Kept
<1>4. CASE ~ run.session /\ UNCHANGED <<transcript, setbacks>>
    BY <1>1, <1>3, <1>4
<1>5. CASE run.session /\ Setback("persist") /\ UNCHANGED transcript
  <2>1. /\ setbacks' \in [RunEvents -> Nat]
        /\ setbacks'["bytes"] >= setbacks["bytes"] /\ setbacks["bytes"] \in Nat /\ setbacks'["bytes"] \in Nat
      BY <1>1, <1>5, SetbackIsCounted, EventsAre
  <2> QED BY <1>3, <1>5, <2>1
<1>6. ASSUME run.session,
             \/ /\ transcript' = IF TooMany(new) = 0 THEN new ELSE CapFrom(new, TooMany(new))
                /\ UNCHANGED setbacks
             \/ /\ Setback("bytes")
                /\ \E cut \in TooMany(new) + 1 .. Len(new) - 1 : transcript' = CapFrom(new, cut)
      PROVE  AgentIInv'
  <2>1. Conversation(run.sink) /\ ReplayableBut(run.sink, 0)
    <3>1. run \in RunStates /\ run.pc = "persist" /\ run.todo = <<>>
        BY DEF AgentIInv, RunSound, PersistRound, RunAt
    <3>2. ReplayableBut(run.sink, Len(run.todo)) /\ Len(run.todo) = 0
        BY <1>6, <3>1 DEF AgentIInv, RunSound
    <3> QED BY <3>1, <3>2, RunFields DEF Conversation
  <2>2. PICK s, u, b : s = transcript /\ u = run.sink /\ b = bytes
      OBVIOUS
  <2>3. PICK t : t = s \o <<User>> \o u
      OBVIOUS
  <2>4. b \in BOOLEAN /\ Conversation(s) /\ Conversation(u) /\ ReplayableBut(u, 0) /\ Kept(s, b)
      BY <1>1, <2>1, <2>2
  <2>5. Conversation(t) /\ Len(t) > 0 /\ Kept(t, b)
      BY <2>3, <2>4, RoundIsJoined
  <2>6. t = new
      BY <2>2, <2>3
  <2>7. /\ TooMany(t) = 0 => Len(t) <= MaxMessages
        /\ TooMany(t) # 0 =>
             /\ Conversation(CapFrom(t, TooMany(t))) /\ Len(CapFrom(t, TooMany(t))) <= MaxMessages
             /\ Kept(CapFrom(t, TooMany(t)), b)
        /\ \A cut \in TooMany(t) + 1 .. Len(t) - 1 :
             /\ Conversation(CapFrom(t, cut)) /\ Len(CapFrom(t, cut)) <= MaxMessages
             /\ Kept(CapFrom(t, cut), TRUE)
      BY <2>4, <2>5, CapKeeps
  <2>8. CASE transcript' = (IF TooMany(t) = 0 THEN t ELSE CapFrom(t, TooMany(t))) /\ UNCHANGED setbacks
    <3>1. PICK v : v = transcript'
        OBVIOUS
    <3>2. Conversation(v) /\ Len(v) <= MaxMessages /\ Kept(v, b)
      <4>1. CASE TooMany(t) = 0
          BY <2>5, <2>7, <2>8, <3>1, <4>1
      <4>2. CASE TooMany(t) # 0
          BY <2>7, <2>8, <3>1, <4>2
      <4> QED BY <4>1, <4>2
    <3>3. Kept(v, setbacks'["bytes"] > 0)
        BY <2>2, <2>8, <3>2
    <3> QED BY <1>1, <1>2, <2>8, <3>1, <3>2, <3>3 DEF AgentIInv
  <2>9. CASE Setback("bytes") /\ \E cut \in TooMany(t) + 1 .. Len(t) - 1 : transcript' = CapFrom(t, cut)
    <3>1. PICK cut \in TooMany(t) + 1 .. Len(t) - 1 : transcript' = CapFrom(t, cut)
        BY <2>9
    <3>2. PICK v : v = transcript'
        OBVIOUS
    <3>3. Conversation(v) /\ Len(v) <= MaxMessages /\ Kept(v, TRUE)
        BY <2>7, <3>1, <3>2
    <3>4. setbacks' \in [RunEvents -> Nat] /\ setbacks'["bytes"] > 0
        BY <1>1, <2>9, SetbackIsCounted, EventsAre
    <3>5. Kept(v, setbacks'["bytes"] > 0)
        BY <3>3, <3>4 DEF Kept
    <3> QED BY <1>2, <3>2, <3>3, <3>4, <3>5 DEF AgentIInv
  <2> QED BY <1>6, <2>6, <2>8, <2>9
<1> QED BY <1>4, <1>5, <1>6 DEF PersistRound

LEMMA AgentStarts == AgentAssumption /\ AgentInit => AgentIInv
<1> SUFFICES ASSUME AgentAssumption, AgentInit PROVE AgentIInv
    OBVIOUS
<1>1. Conversation(transcript) /\ ReplayableBut(transcript, 0) /\ Len(transcript) = 0 /\ 0 <= MaxMessages
    BY NothingIsReplayable DEF AgentInit, AgentAssumption
<1>2. setbacks \in [RunEvents -> Nat] /\ setbacks["transient"] = 0
    BY DEF AgentInit, RunEvents
<1>3. RunSound(run, setbacks["transient"])
    BY IdleIsSound DEF AgentInit
<1>4. Kept(transcript, setbacks["bytes"] > 0)
    BY <1>1 DEF Kept
<1> QED BY <1>1, <1>2, <1>3, <1>4 DEF AgentIInv

LEMMA AgentStep == AgentAssumption /\ AgentIInv /\ [AgentNext]_agentVars => AgentIInv'
<1> SUFFICES ASSUME AgentAssumption, AgentIInv, [AgentNext]_agentVars PROVE AgentIInv'
    OBVIOUS
<1>1. ASSUME RunSound(run', setbacks'["transient"]), UNCHANGED <<transcript, setbacks>>
      PROVE  AgentIInv'
    BY <1>1 DEF AgentIInv, Kept
<1>2. ASSUME RunSound(run', setbacks'["transient"]), UNCHANGED transcript,
             setbacks' \in [RunEvents -> Nat], setbacks["bytes"] > 0 => setbacks'["bytes"] > 0
      PROVE  AgentIInv'
    BY <1>2 DEF AgentIInv, Kept
<1>3. CASE BeginRun
    BY <1>1, <1>3, RunBegins
<1>4. CASE EmptyTurn
    BY <1>1, <1>4, TurnIsEmpty
<1>5. CASE FinalTurn
    BY <1>1, <1>5, TurnIsFinal
<1>6. CASE ToolTurn
    BY <1>1, <1>6, TurnAsks
<1>7. CASE Dispatch
    BY <1>1, <1>7, CallIsDispatched
<1>8. CASE Transient
    BY <1>2, <1>8, TransientFails
<1>9. CASE RunRaises
    BY <1>2, <1>9, RunIsLeft
<1>10. CASE PersistRound
    BY <1>10, RoundIsWritten
<1>11. CASE UNCHANGED agentVars
    BY <1>11 DEF agentVars, AgentIInv, Kept
<1> QED BY <1>3, <1>4, <1>5, <1>6, <1>7, <1>8, <1>9, <1>10, <1>11 DEF AgentNext

LEMMA AgentHolds == AgentAssumption /\ AgentIInv => AgentTypeOK /\ TranscriptsReplay /\ StreamsActOnce
<1> SUFFICES ASSUME AgentAssumption, AgentIInv PROVE AgentTypeOK /\ TranscriptsReplay /\ StreamsActOnce
    OBVIOUS
<1>1. run \in RunStates /\ Conversation(transcript)
    BY DEF AgentIInv, RunSound
<1>2. AgentTypeOK
    BY <1>1, RunFields DEF AgentIInv, RunSound, AgentTypeOK, Conversation, Messages
<1>3. StreamsActOnce
    BY DEF AgentIInv, RunSound, StreamsActOnce
<1>4. TranscriptsReplay
  <2>1. CASE ReplayableBut(transcript, 0)
      BY <1>1, <2>1, NothingOpen DEF TranscriptsReplay
  <2>2. CASE setbacks["bytes"] > 0 /\ OrphanFirst(transcript)
    <3>1. Conversation(Tail(transcript))
        BY <1>1, <2>2, BehindTheFirst DEF OrphanFirst
    <3>2. Replayable(Tail(transcript))
        BY <2>2, <3>1, NothingOpen DEF OrphanFirst
    <3> QED BY <2>2, <3>2 DEF OrphanFirst, TranscriptsReplay
  <2> QED BY <2>1, <2>2 DEF AgentIInv, Kept
<1> QED BY <1>2, <1>3, <1>4

--------------------------------------------------------------------------------
(* The adapters.  Calls are known by the turn and the position in it; an adapter    *)
(* keeps which of them it has heard, and the session which of them were signed.    *)

\* Names of calls: the turn, and the position in it.
Names == Nat \X Nat

CallRecords ==
    [id : Names, name : Names, args : {"given", "none"}, signature : Names \cup {NoValue}]

NeutralMessages ==
    [role : {"system", "user", "assistant", "tool"}, content : Contents \cup {Empty},
     reasoning : BOOLEAN, calls : Seq(CallRecords), answers : Names \cup {NoValue}]

\* The calls of one turn: made no later than some turn, signed if they are known to be,
\* and told apart by their ids.
CallsSound(calls, limit, known) ==
    /\ calls \in Seq(CallRecords)
    /\ \A k \in 1 .. Len(calls) :
        /\ calls[k].name[1] <= limit
        /\ calls[k].signature = IF calls[k].name \in known THEN calls[k].name ELSE NoValue
    /\ \A k, l \in 1 .. Len(calls) : calls[k].id = calls[l].id => k = l

\* The message at i is the result of a call of the turn at t.
AnswersTo(messages, t, i) ==
    /\ messages[t].role = "assistant"
    /\ \A j \in t + 1 .. i : messages[j].role = "tool"
    /\ i - t \in 1 .. Len(messages[t].calls)
    /\ messages[t].calls[i - t].id = messages[i].answers

Talk(messages) == messages \in Seq(NeutralMessages)

TalkSound(messages, limit, known) ==
    /\ Talk(messages)
    /\ \A i \in 1 .. Len(messages) :
        /\ CallsSound(messages[i].calls, limit, known)
        /\ messages[i].role # "assistant" => messages[i].calls = <<>>
        /\ messages[i].role = "tool" => \E t \in 1 .. i - 1 : AnswersTo(messages, t, i)

Streams ==
    [at : {"idle", "asks", "streams"}, provider : Providers, turn : Nat,
     meant : Seq([pieces : Nat, named : BOOLEAN]), heard : Seq(Nat),
     calls : Seq(CallRecords), finish : {"stop", "length", NoValue}]

\* What the provider means by its i-th call.
MeantCall(s, i, call) ==
    /\ call.name = <<s.turn, i>>
    /\ call.args = IF s.meant[i].pieces > 0 THEN "given" ELSE "none"

StreamSound(s, known) ==
    /\ s \in Streams
    /\ Len(s.heard) = Len(s.meant)
    /\ \A i \in 1 .. Len(s.meant) :
        /\ s.heard[i] <= s.meant[i].pieces + 1
        /\ s.provider # "google" => s.meant[i].named
    /\ s.at = "streams" =>
        /\ s.finish = NoValue /\ s.turn > 0
        /\ s.provider # "google" => s.calls = <<>>
        /\ s.provider = "google" =>
            /\ Len(s.calls) <= Len(s.meant)
            /\ \A i \in 1 .. Len(s.calls) :
                /\ s.heard[i] = s.meant[i].pieces + 1
                /\ MeantCall(s, i, s.calls[i])
                /\ s.calls[i].id = IF s.meant[i].named THEN <<0, i>> ELSE <<s.turn, i>>
                /\ s.calls[i].signature = <<s.turn, i>> /\ <<s.turn, i>> \in known
            /\ \A i \in Len(s.calls) + 1 .. Len(s.meant) : s.heard[i] = 0
    /\ s.finish = "stop" =>
        /\ Len(s.calls) = Len(s.meant)
        /\ \A i \in 1 .. Len(s.meant) : MeantCall(s, i, s.calls[i])

SignedSound(s, known) ==
    /\ known \subseteq Names
    /\ \A x \in known : x[1] <= s.turn
    /\ s.at = "streams" /\ s.provider # "google" => \A x \in known : x[1] < s.turn

\* The last turn the conversation has calls of.
LastTurn(s) == IF s.at = "streams" THEN s.turn - 1 ELSE s.turn

\* What the adapter has heard, the signatures it saw, and a conversation whose calls are
\* of turns that are over, with their results behind them.
AdapterIInv ==
    /\ StreamSound(stream, signed)
    /\ SignedSound(stream, signed)
    /\ TalkSound(convo, LastTurn(stream), signed)

LEMMA NeutralFields ==
    ASSUME NEW m \in NeutralMessages
    PROVE  /\ m.role \in {"system", "user", "assistant", "tool"} /\ m.content \in Contents \cup {Empty}
           /\ m.reasoning \in BOOLEAN /\ m.calls \in Seq(CallRecords) /\ m.answers \in Names \cup {NoValue}
           /\ DOMAIN m = {"role", "content", "reasoning", "calls", "answers"}
           /\ m = [role |-> m.role, content |-> m.content, reasoning |-> m.reasoning,
                   calls |-> m.calls, answers |-> m.answers]
BY DEF NeutralMessages

LEMMA CallFields ==
    ASSUME NEW c \in CallRecords
    PROVE  /\ c.id \in Names /\ c.name \in Names /\ c.args \in {"given", "none"}
           /\ c.signature \in Names \cup {NoValue}
           /\ DOMAIN c = {"id", "name", "args", "signature"}
           /\ c = [id |-> c.id, name |-> c.name, args |-> c.args, signature |-> c.signature]
BY DEF CallRecords

LEMMA NeutralIn ==
    ASSUME NEW s, Talk(s), NEW i \in 1 .. Len(s)
    PROVE  s[i] \in NeutralMessages
BY ElementOfSeq DEF Talk

LEMMA CallIn ==
    ASSUME NEW s \in Seq(CallRecords), NEW i \in 1 .. Len(s)
    PROVE  s[i] \in CallRecords
BY ElementOfSeq

LEMMA NamesArePairs ==
    ASSUME NEW x \in Names
    PROVE  x[1] \in Nat /\ x[2] \in Nat /\ x = <<x[1], x[2]>>
BY DEF Names

LEMMA PairsAreNames ==
    ASSUME NEW n \in Nat, NEW i \in Nat
    PROVE  /\ <<n, i>> \in Names /\ <<n, i>>[1] = n /\ <<n, i>>[2] = i
           /\ AdapterAssumption => <<n, i>> # NoValue
BY DEF Names, AdapterAssumption

--------------------------------------------------------------------------------
(* What is stored is read back.                                               *)

LEMMA CallIsReadBack ==
    ASSUME NEW c \in CallRecords
    PROVE  LET d == StoredCall(c) IN
           /\ d.id = c.id /\ d.name = c.name /\ d.args = c.args
           /\ Get(d, "signature", NoValue) = c.signature
<1> DEFINE d == StoredCall(c)
<1>1. CASE c.signature = NoValue
  <2>1. d = [k \in {"id", "name", "args"} |-> c[k]]
    <3>1. DOMAIN c \ {"signature"} = {"id", "name", "args"}
        BY CallFields
    <3> QED BY <1>1, <3>1 DEF StoredCall, Without
  <2> QED BY <1>1, <2>1 DEF Get
<1>2. CASE c.signature # NoValue
  <2>1. d = [k \in {"id", "name", "args", "signature"} |-> c[k]]
    <3>1. DOMAIN c \ {} = {"id", "name", "args", "signature"}
        BY CallFields
    <3> QED BY <1>2, <3>1 DEF StoredCall, Without
  <2> QED BY <2>1 DEF Get
<1> QED BY <1>1, <1>2

LoadedCalls(d) ==
    [i \in DOMAIN d |-> [id |-> d[i].id, name |-> d[i].name, args |-> d[i].args,
                         signature |-> Get(d[i], "signature", NoValue)]]

LEMMA CallsAreReadBack ==
    ASSUME NEW calls \in Seq(CallRecords), NEW d,
           d = [i \in DOMAIN calls |-> StoredCall(calls[i])]
    PROVE  LoadedCalls(d) = calls
<1> DEFINE e == [i \in DOMAIN d |->
                   [id |-> d[i].id, name |-> d[i].name, args |-> d[i].args,
                    signature |-> Get(d[i], "signature", NoValue)]]
<1>1. DOMAIN d = 1 .. Len(calls) /\ DOMAIN e = 1 .. Len(calls) /\ DOMAIN calls = 1 .. Len(calls)
    BY LenProperties
<1>2. ASSUME NEW i \in 1 .. Len(calls) PROVE e[i] = calls[i]
  <2>1. calls[i] \in CallRecords
      BY <1>1, CallIn
  <2>2. d[i] = StoredCall(calls[i])
      BY <1>1
  <2>3. PICK c : c = calls[i]
      OBVIOUS
  <2>4. /\ d[i].id = c.id /\ d[i].name = c.name /\ d[i].args = c.args
        /\ Get(d[i], "signature", NoValue) = c.signature
      BY <2>1, <2>2, <2>3, CallIsReadBack
  <2>5. e[i] = [id |-> d[i].id, name |-> d[i].name, args |-> d[i].args,
                signature |-> Get(d[i], "signature", NoValue)]
      BY <1>1
  <2>6. e[i] = [id |-> c.id, name |-> c.name, args |-> c.args, signature |-> c.signature]
      BY <2>4, <2>5
  <2>7. c = [id |-> c.id, name |-> c.name, args |-> c.args, signature |-> c.signature]
      BY <2>1, <2>3, CallFields
  <2> QED BY <2>3, <2>6, <2>7
<1>3. e = [i \in 1 .. Len(calls) |-> e[i]] /\ calls = [i \in 1 .. Len(calls) |-> calls[i]]
    BY <1>1, LenProperties DEF e
<1>4. LoadedCalls(d) = e
    BY DEF LoadedCalls
<1> QED BY <1>2, <1>3, <1>4

LEMMA MessageIsReadBack ==
    ASSUME NEW m \in NeutralMessages
    PROVE  LoadedMessage(StoredMessage(m)) = m
<1>1. PICK sc : sc = [i \in DOMAIN m.calls |-> StoredCall(m.calls[i])]
    OBVIOUS
<1>2. PICK keys : keys = (IF m.reasoning THEN {} ELSE {"reasoning"}) \cup (IF m.calls = <<>> THEN {"calls"} ELSE {})
            \cup (IF m.answers = NoValue THEN {"answers"} ELSE {})
    OBVIOUS
<1>3. PICK d : d = StoredMessage(m)
    OBVIOUS
<1>4. PICK w : w = [m EXCEPT !.calls = sc]
    OBVIOUS
<1>5. /\ DOMAIN w = {"role", "content", "reasoning", "calls", "answers"}
      /\ w.role = m.role /\ w.content = m.content /\ w.reasoning = m.reasoning
      /\ w.calls = sc /\ w.answers = m.answers
    BY <1>4, NeutralFields
<1>6. d = [k \in DOMAIN w \ keys |-> w[k]]
    BY <1>1, <1>2, <1>3, <1>4 DEF StoredMessage, Without
<1>7. "role" \notin keys /\ "content" \notin keys
    BY <1>2
<1>8. d.role = m.role /\ d.content = m.content
    BY <1>5, <1>6, <1>7
<1>9. Get(d, "reasoning", FALSE) = m.reasoning
  <2>1. CASE m.reasoning
    <3>1. "reasoning" \notin keys
        BY <1>2, <2>1
    <3>2. "reasoning" \in DOMAIN d /\ d["reasoning"] = m.reasoning
        BY <1>5, <1>6, <3>1
    <3> QED BY <3>2 DEF Get
  <2>2. CASE ~ m.reasoning
    <3>1. "reasoning" \in keys
        BY <1>2, <2>2
    <3>2. "reasoning" \notin DOMAIN d
        BY <1>6, <3>1
    <3>3. m.reasoning = FALSE
        BY <2>2, NeutralFields
    <3> QED BY <3>2, <3>3 DEF Get
  <2> QED BY <2>1, <2>2
<1>10. Get(d, "answers", NoValue) = m.answers
  <2>1. CASE m.answers = NoValue
    <3>1. "answers" \in keys
        BY <1>2, <2>1
    <3>2. "answers" \notin DOMAIN d
        BY <1>6, <3>1
    <3> QED BY <2>1, <3>2 DEF Get
  <2>2. CASE m.answers # NoValue
    <3>1. "answers" \notin keys
        BY <1>2, <2>2
    <3>2. "answers" \in DOMAIN d /\ d["answers"] = m.answers
        BY <1>5, <1>6, <3>1
    <3> QED BY <3>2 DEF Get
  <2> QED BY <2>1, <2>2
<1>11. LoadedCalls(Get(d, "calls", <<>>)) = m.calls
  <2>1. PICK g : g = Get(d, "calls", <<>>)
      OBVIOUS
  <2>2. g = sc
    <3>1. CASE m.calls = <<>>
      <4>1. "calls" \in keys
          BY <1>2, <3>1
      <4>2. "calls" \notin DOMAIN d
          BY <1>6, <4>1
      <4>3. sc = <<>>
          BY <1>1, <3>1
      <4> QED BY <2>1, <4>2, <4>3 DEF Get
    <3>2. CASE m.calls # <<>>
      <4>1. "calls" \notin keys
          BY <1>2, <3>2
      <4>2. "calls" \in DOMAIN d /\ d["calls"] = sc
          BY <1>5, <1>6, <4>1
      <4> QED BY <2>1, <4>2 DEF Get
    <3> QED BY <3>1, <3>2
  <2>3. PICK calls : calls = m.calls
      OBVIOUS
  <2>4. calls \in Seq(CallRecords)
      BY <2>3, NeutralFields
  <2>5. g = [i \in DOMAIN calls |-> StoredCall(calls[i])]
      BY <1>1, <2>2, <2>3
  <2>6. LoadedCalls(g) = calls
      BY <2>4, <2>5, CallsAreReadBack
  <2> QED BY <2>1, <2>3, <2>6
<1>12. LoadedMessage(d) = [role |-> m.role, content |-> m.content, reasoning |-> m.reasoning,
                           answers |-> m.answers, calls |-> m.calls]
  <2>1. LoadedMessage(d) =
          [role |-> d.role, content |-> d.content, reasoning |-> Get(d, "reasoning", FALSE),
           answers |-> Get(d, "answers", NoValue),
           calls |-> LoadedCalls(Get(d, "calls", <<>>))]
      BY Zenon DEF LoadedMessage, LoadedCalls
  <2> QED BY <1>8, <1>9, <1>10, <1>11, <2>1, Zenon
<1>13. m = [role |-> m.role, content |-> m.content, reasoning |-> m.reasoning,
           calls |-> m.calls, answers |-> m.answers]
    BY NeutralFields
<1> QED BY <1>3, <1>12, <1>13

\* Any number of wakes reads the same session.
LEMMA SessionIsReadBack ==
    ASSUME NEW s, Talk(s)
    PROVE  Replayed(s) = s
<1>1. PICK r : r = Replayed(s)
    OBVIOUS
<1>2. DOMAIN s = 1 .. Len(s) /\ s = [i \in 1 .. Len(s) |-> s[i]]
    BY LenProperties DEF Talk
<1>3. r = [i \in 1 .. Len(s) |-> LoadedMessage(StoredMessage(s[i]))]
    BY <1>1, <1>2 DEF Replayed
<1>4. \A i \in 1 .. Len(s) : LoadedMessage(StoredMessage(s[i])) = s[i]
    BY NeutralIn, MessageIsReadBack
<1>5. r = [i \in 1 .. Len(s) |-> s[i]]
    BY <1>3, <1>4
<1> QED BY <1>1, <1>2, <1>5

--------------------------------------------------------------------------------
(* The conversation grows.                                                    *)

LEMMA CallsStaySound ==
    ASSUME NEW calls, NEW l \in Int, NEW l2 \in Int, l <= l2, NEW K, NEW K2,
           \A x \in Names : x[1] <= l => (x \in K2 <=> x \in K),
           CallsSound(calls, l, K)
    PROVE  CallsSound(calls, l2, K2)
<1>1. calls \in Seq(CallRecords)
    BY DEF CallsSound
<1>2. ASSUME NEW k \in 1 .. Len(calls)
      PROVE  /\ calls[k].name[1] <= l2
             /\ calls[k].signature = IF calls[k].name \in K2 THEN calls[k].name ELSE NoValue
  <2>1. PICK x : x = calls[k].name
      OBVIOUS
  <2>2. x \in Names
      BY <1>1, <2>1, CallIn, CallFields
  <2>3. x[1] <= l /\ x[1] \in Nat
      BY <2>1, <2>2, NamesArePairs DEF CallsSound
  <2>4. calls[k].signature = IF x \in K THEN x ELSE NoValue
      BY <2>1 DEF CallsSound
  <2>5. x \in K2 <=> x \in K
      BY <2>2, <2>3
  <2>6. x[1] <= l2
      BY <2>3
  <2> QED BY <2>1, <2>4, <2>5, <2>6
<1> QED BY <1>1, <1>2 DEF CallsSound

LEMMA TalkStaysSound ==
    ASSUME NEW s, NEW l \in Int, NEW l2 \in Int, l <= l2, NEW K, NEW K2,
           \A x \in Names : x[1] <= l => (x \in K2 <=> x \in K),
           TalkSound(s, l, K)
    PROVE  TalkSound(s, l2, K2)
<1>1. \A i \in 1 .. Len(s) : CallsSound(s[i].calls, l2, K2)
    BY CallsStaySound DEF TalkSound
<1> QED BY <1>1 DEF TalkSound

LEMMA NoCallsAreSound ==
    ASSUME NEW l, NEW K
    PROVE  CallsSound(<<>>, l, K)
BY DEF CallsSound

\* What was answered before stays answered.
LEMMA AnswersStay ==
    ASSUME NEW s, NEW t, NEW n \in Nat, NEW i \in 1 .. n, NEW j \in 1 .. i - 1,
           \A k \in 1 .. n : t[k] = s[k], AnswersTo(s, j, i)
    PROVE  AnswersTo(t, j, i)
<1>1. i \in 1 .. n /\ j \in 1 .. n /\ \A k \in j + 1 .. i : k \in 1 .. n
    OBVIOUS
<1>2. t[i] = s[i] /\ t[j] = s[j] /\ \A k \in j + 1 .. i : t[k] = s[k]
    BY <1>1
<1> QED BY <1>2 DEF AnswersTo

LEMMA MessageIsAdded ==
    ASSUME NEW s, NEW l, NEW K, TalkSound(s, l, K),
           NEW m \in NeutralMessages, m.role \in {"system", "user"}, m.calls = <<>>
    PROVE  TalkSound(Append(s, m), l, K)
<1> DEFINE t == Append(s, m)
<1>1. /\ Talk(t) /\ Len(t) = Len(s) + 1 /\ Len(s) \in Nat
      /\ \A i \in 1 .. Len(s) : t[i] = s[i]
      /\ t[Len(s) + 1] = m
    BY DEF TalkSound, Talk
<1> HIDE DEF t
<1>2. ASSUME NEW i \in 1 .. Len(t)
      PROVE  /\ CallsSound(t[i].calls, l, K)
             /\ t[i].role # "assistant" => t[i].calls = <<>>
             /\ t[i].role = "tool" => \E j \in 1 .. i - 1 : AnswersTo(t, j, i)
  <2>1. CASE i = Len(s) + 1
      BY <1>1, <2>1, NoCallsAreSound
  <2>2. CASE i \in 1 .. Len(s)
    <3>1. t[i] = s[i]
        BY <1>1, <2>2
    <3>2. /\ CallsSound(s[i].calls, l, K)
          /\ s[i].role # "assistant" => s[i].calls = <<>>
          /\ s[i].role = "tool" => \E j \in 1 .. i - 1 : AnswersTo(s, j, i)
        BY <2>2 DEF TalkSound
    <3>3. ASSUME s[i].role = "tool" PROVE \E j \in 1 .. i - 1 : AnswersTo(t, j, i)
      <4>1. PICK j \in 1 .. i - 1 : AnswersTo(s, j, i)
          BY <3>2, <3>3
      <4>2. AnswersTo(t, j, i)
          BY <1>1, <2>2, <4>1, AnswersStay
      <4> QED BY <4>2
    <3> QED BY <3>1, <3>2, <3>3
  <2> QED BY <1>1, <2>1, <2>2
<1>3. TalkSound(t, l, K)
    BY <1>1, <1>2 DEF TalkSound
<1> QED BY <1>3 DEF t

ResultsOf(calls, r) ==
    /\ Len(r) = Len(calls)
    /\ \A i \in 1 .. Len(r) :
        r[i].role = "tool" /\ r[i].calls = <<>> /\ r[i].answers = calls[i].id

\* A turn and a result for each of its calls.
LEMMA TurnIsKept ==
    ASSUME NEW s, NEW l, NEW K, TalkSound(s, l, K),
           NEW u \in NeutralMessages, u.role = "assistant", CallsSound(u.calls, l, K),
           NEW r, Talk(r), ResultsOf(u.calls, r)
    PROVE  TalkSound(s \o <<u>> \o r, l, K)
<1> DEFINE t == s \o <<u>> \o r
<1>1. /\ Talk(t) /\ Len(t) = Len(s) + 1 + Len(r) /\ Len(s) \in Nat /\ Len(r) \in Nat
      /\ \A i \in 1 .. Len(s) : t[i] = s[i]
      /\ t[Len(s) + 1] = u
      /\ \A i \in 1 .. Len(r) : t[Len(s) + 1 + i] = r[i]
  <2>1. s \in Seq(NeutralMessages) /\ r \in Seq(NeutralMessages)
      BY DEF TalkSound, Talk
  <2>2. PICK a : a = s \o <<u>>
      OBVIOUS
  <2>3. /\ a \in Seq(NeutralMessages) /\ Len(a) = Len(s) + 1 /\ Len(s) \in Nat
        /\ (\A i \in 1 .. Len(s) : a[i] = s[i]) /\ a[Len(s) + 1] = u
      BY <2>1, <2>2
  <2>4. /\ t \in Seq(NeutralMessages) /\ Len(t) = Len(a) + Len(r) /\ Len(r) \in Nat
        /\ \A i \in 1 .. Len(a) : t[i] = a[i]
        /\ \A i \in 1 .. Len(r) : t[Len(a) + i] = r[i]
    <3>1. PICK b : b = a \o r
        OBVIOUS
    <3>2. /\ b \in Seq(NeutralMessages) /\ Len(b) = Len(a) + Len(r) /\ Len(r) \in Nat
          /\ \A i \in 1 .. Len(a) : b[i] = a[i]
          /\ \A i \in 1 .. Len(r) : b[Len(a) + i] = r[i]
      <4>1. a \in Seq(NeutralMessages) /\ r \in Seq(NeutralMessages)
          BY <2>1, <2>3
      <4>2. b \in Seq(NeutralMessages) /\ Len(b) = Len(a) + Len(r)
          BY <3>1, <4>1
      <4>3. Len(r) \in Nat /\ Len(a) \in Nat
          BY <4>1
      <4>4. \A i \in 1 .. Len(a) : b[i] = a[i]
          BY <3>1, <4>1
      <4>5. \A i \in 1 .. Len(r) : b[Len(a) + i] = r[i]
          BY <3>1, <4>1
      <4> QED BY <4>2, <4>3, <4>4, <4>5
    <3> QED BY <2>2, <3>1, <3>2
  <2>5. \A i \in 1 .. Len(s) : t[i] = s[i]
      BY <2>3, <2>4
  <2>6. t[Len(s) + 1] = u
      BY <2>3, <2>4
  <2>7. \A i \in 1 .. Len(r) : t[Len(s) + 1 + i] = r[i]
      BY <2>3, <2>4
  <2> QED BY <2>3, <2>4, <2>5, <2>6, <2>7 DEF Talk
<1> HIDE DEF t
<1>0. Len(t) = Len(s) + 1 + Len(r) /\ Len(s) \in Nat /\ Len(r) \in Nat
    BY <1>1
<1>2. ASSUME NEW i \in 1 .. Len(t)
      PROVE  /\ CallsSound(t[i].calls, l, K)
             /\ t[i].role # "assistant" => t[i].calls = <<>>
             /\ t[i].role = "tool" => \E j \in 1 .. i - 1 : AnswersTo(t, j, i)
  <2>1. CASE i = Len(s) + 1
      BY <1>1, <2>1
  <2>2. CASE i \in 1 .. Len(s)
    <3>1. t[i] = s[i]
        BY <1>1, <2>2
    <3>2. /\ CallsSound(s[i].calls, l, K)
          /\ s[i].role # "assistant" => s[i].calls = <<>>
          /\ s[i].role = "tool" => \E j \in 1 .. i - 1 : AnswersTo(s, j, i)
        BY <2>2 DEF TalkSound
    <3>3. ASSUME s[i].role = "tool" PROVE \E j \in 1 .. i - 1 : AnswersTo(t, j, i)
      <4>1. PICK j \in 1 .. i - 1 : AnswersTo(s, j, i)
          BY <3>2, <3>3
      <4>2. AnswersTo(t, j, i)
          BY <1>1, <2>2, <4>1, AnswersStay
      <4> QED BY <4>2
    <3> QED BY <3>1, <3>2, <3>3
  <2>3. CASE i > Len(s) + 1
    <3>1. PICK h : h = i - (Len(s) + 1)
        OBVIOUS
    <3>a. i \in Nat /\ Len(s) \in Nat /\ Len(r) \in Nat /\ i <= Len(s) + 1 + Len(r)
        BY <1>0
    <3>2. h \in 1 .. Len(r) /\ i = Len(s) + 1 + h /\ Len(s) + 1 \in 1 .. i - 1
        BY <2>3, <3>1, <3>a
    <3>3. t[i] = r[h]
        BY <1>1, <3>2
    <3>4. r[h].role = "tool" /\ r[h].calls = <<>> /\ r[h].answers = u.calls[h].id
        BY <3>2 DEF ResultsOf
    <3>5. \A j \in Len(s) + 2 .. i : t[j].role = "tool"
      <4>1. SUFFICES ASSUME NEW j \in Len(s) + 2 .. i PROVE t[j].role = "tool"
          OBVIOUS
      <4>2. PICK g : g = j - (Len(s) + 1)
          OBVIOUS
      <4>3. g \in 1 .. Len(r) /\ j = Len(s) + 1 + g
          BY <1>1, <3>2, <4>2
      <4>4. t[j] = r[g]
          BY <1>1, <4>3
      <4> QED BY <4>3, <4>4 DEF ResultsOf
    <3>6. (Len(s) + 1) + 1 = Len(s) + 2 /\ i - (Len(s) + 1) = h
        BY <1>1, <3>2
    <3>7. AnswersTo(t, Len(s) + 1, i)
        BY <1>1, <3>2, <3>3, <3>4, <3>5, <3>6 DEF AnswersTo, ResultsOf
    <3> QED BY <3>2, <3>3, <3>4, <3>7, NoCallsAreSound
  <2> QED BY <1>1, <2>1, <2>2, <2>3
<1>3. TalkSound(t, l, K)
    BY <1>1, <1>2 DEF TalkSound
<1> QED BY <1>3 DEF t

--------------------------------------------------------------------------------
(* The assembler hands the calls on in order of index.                         *)

Rank(S, i) == Cardinality({j \in S : j <= i})

LEMMA RanksAreFilled ==
    ASSUME NEW n \in Nat, NEW S \in SUBSET (1 .. n)
    PROVE  /\ IsFiniteSet(S) /\ Cardinality(S) \in Nat /\ Cardinality(S) <= n
           /\ \A k \in 1 .. Cardinality(S) : \E i \in S : Rank(S, i) = k
<1>1. IsFiniteSet(1 .. n) /\ Cardinality(1 .. n) = n
    BY FS_Interval
<1>2. IsFiniteSet(S) /\ Cardinality(S) <= n
    BY <1>1, FS_Subset
<1>3. PICK c : c = Cardinality(S)
    OBVIOUS
<1>4. c \in Nat
    BY <1>2, <1>3, FS_CardinalityType
<1>5. IsFiniteSet(1 .. c) /\ Cardinality(1 .. c) = c
    BY <1>4, FS_Interval
<1>6. ASSUME NEW i \in S
      PROVE  IsFiniteSet({j \in S : j <= i}) /\ Rank(S, i) \in 1 .. c
  <2>1. IsFiniteSet({j \in S : j <= i}) /\ Cardinality({j \in S : j <= i}) <= c
      BY <1>2, <1>3, FS_Subset
  <2>2. Cardinality({j \in S : j <= i}) \in Nat
      BY <2>1, FS_CardinalityType
  <2>3. i \in {j \in S : j <= i}
      OBVIOUS
  <2>4. Cardinality({j \in S : j <= i}) # 0
      BY <2>1, <2>3, FS_EmptySet
  <2> QED BY <1>4, <2>1, <2>2, <2>4 DEF Rank
<1>7. ASSUME NEW i \in S, NEW h \in S, h < i
      PROVE  Rank(S, h) # Rank(S, i)
  <2>a. i \in Nat /\ h \in Nat /\ \A j \in S : j \in Nat
      OBVIOUS
  <2>b. \A j \in S : j <= h => j <= i
      BY <1>7, <2>a
  <2>1. {j \in S : j <= h} \subseteq {j \in S : j <= i}
      BY <2>b
  <2>2. i \in {j \in S : j <= i} /\ i \notin {j \in S : j <= h}
      BY <1>7
  <2> QED BY <1>6, <2>1, <2>2, FS_Subset DEF Rank
<1>8. PICK f : f = [i \in S |-> Rank(S, i)]
    OBVIOUS
<1>9. f \in [S -> 1 .. c]
    BY <1>6, <1>8
<1>10. \A i, h \in S : f[i] = f[h] => i = h
  <2>1. SUFFICES ASSUME NEW i \in S, NEW h \in S, i # h PROVE f[i] # f[h]
      OBVIOUS
  <2>2. i < h \/ h < i
      BY <2>1
  <2> QED BY <1>7, <1>8, <2>2
<1>11. f \in Injection(S, 1 .. c)
    BY <1>9, <1>10 DEF Injection, IsInjective
<1>12. f \in Surjection(S, 1 .. c)
    BY <1>3, <1>5, <1>11, FS_Injection
<1>13. \A k \in 1 .. c : \E i \in S : Rank(S, i) = k
    BY <1>8, <1>12 DEF Surjection
<1> QED BY <1>2, <1>3, <1>4, <1>13

\* All of them, in their own order.
LEMMA RankOfAll ==
    ASSUME NEW n \in Nat, NEW i \in 1 .. n
    PROVE  Rank(1 .. n, i) = i
<1>1. {j \in 1 .. n : j <= i} = 1 .. i
    OBVIOUS
<1>2. Cardinality(1 .. i) = i
    BY FS_Interval
<1> QED BY <1>1, <1>2 DEF Rank


LEMMA StreamFields ==
    ASSUME NEW s, NEW K, StreamSound(s, K)
    PROVE  /\ s.at \in {"idle", "asks", "streams"} /\ s.provider \in Providers /\ s.turn \in Nat
           /\ s.meant \in Seq([pieces : Nat, named : BOOLEAN]) /\ s.heard \in Seq(Nat)
           /\ s.calls \in Seq(CallRecords) /\ s.finish \in {"stop", "length", NoValue}
           /\ DOMAIN s.meant = 1 .. Len(s.meant) /\ DOMAIN s.heard = 1 .. Len(s.meant)
           /\ Len(s.meant) \in Nat /\ Len(s.calls) \in Nat
           /\ \A i \in 1 .. Len(s.meant) :
                s.meant[i].pieces \in Nat /\ s.meant[i].named \in BOOLEAN /\ s.heard[i] \in Nat
           /\ s = [at |-> s.at, provider |-> s.provider, turn |-> s.turn, meant |-> s.meant,
                   heard |-> s.heard, calls |-> s.calls, finish |-> s.finish]
<1>1. /\ s.at \in {"idle", "asks", "streams"} /\ s.provider \in Providers /\ s.turn \in Nat
      /\ s.meant \in Seq([pieces : Nat, named : BOOLEAN]) /\ s.heard \in Seq(Nat)
      /\ s.calls \in Seq(CallRecords) /\ s.finish \in {"stop", "length", NoValue}
      /\ s = [at |-> s.at, provider |-> s.provider, turn |-> s.turn, meant |-> s.meant,
              heard |-> s.heard, calls |-> s.calls, finish |-> s.finish]
    BY DEF StreamSound, Streams
<1>2. /\ DOMAIN s.meant = 1 .. Len(s.meant) /\ DOMAIN s.heard = 1 .. Len(s.meant)
      /\ Len(s.meant) \in Nat /\ Len(s.calls) \in Nat
    BY <1>1, LenProperties DEF StreamSound
<1>3. ASSUME NEW i \in 1 .. Len(s.meant)
      PROVE  s.meant[i].pieces \in Nat /\ s.meant[i].named \in BOOLEAN /\ s.heard[i] \in Nat
  <2>1. s.meant[i] \in [pieces : Nat, named : BOOLEAN]
      BY <1>1, ElementOfSeq
  <2>2. s.heard[i] \in Nat
      BY <1>1, ElementOfSeq DEF StreamSound
  <2> QED BY <2>1, <2>2
<1> QED BY <1>1, <1>2, <1>3

LEMMA CalledIs ==
    ASSUME AdapterAssumption, StreamSound(stream, signed), NEW i \in 1 .. Len(stream.meant)
    PROVE  /\ Called(i) \in CallRecords
           /\ Called(i).id = IF stream.meant[i].named THEN <<0, i>> ELSE <<stream.turn, i>>
           /\ Called(i).name = <<stream.turn, i>>
           /\ Called(i).args = Args(i)
           /\ Called(i).signature = IF stream.provider = "google" THEN <<stream.turn, i>> ELSE NoValue
           /\ Called(i).name[1] = stream.turn
<1>1. i \in Nat /\ stream.turn \in Nat /\ 0 \in Nat
    BY StreamFields
<1>2. <<0, i>> \in Names /\ <<stream.turn, i>> \in Names /\ <<stream.turn, i>>[1] = stream.turn
    BY <1>1, PairsAreNames
<1>3. Args(i) \in {"given", "none"}
    BY DEF Args
<1>4. PICK a : a = Args(i)
    OBVIOUS
<1>5. Called(i) = [id |-> IF stream.meant[i].named THEN <<0, i>> ELSE <<stream.turn, i>>,
                   name |-> <<stream.turn, i>>, args |-> a,
                   signature |-> IF stream.provider = "google" THEN <<stream.turn, i>> ELSE NoValue]
    BY <1>4 DEF Called
<1> QED BY <1>2, <1>3, <1>4, <1>5 DEF CallRecords

LEMMA FlushedAre ==
    ASSUME AdapterAssumption, StreamSound(stream, signed), SignedSound(stream, signed),
           stream.at = "streams", stream.provider # "google"
    PROVE  /\ CallsSound(Flushed, stream.turn, signed)
           /\ (\A i \in DOMAIN stream.meant : Whole(i)) =>
                /\ Len(Flushed) = Len(stream.meant)
                /\ \A i \in 1 .. Len(stream.meant) : MeantCall(stream, i, Flushed[i])
<1>1. PICK n, S, f, c : n = Len(stream.meant) /\ S = Begun /\ f = Flushed /\ c = Cardinality(S)
    OBVIOUS
<1>2. n \in Nat /\ DOMAIN stream.meant = 1 .. n /\ S \in SUBSET (1 .. n)
    BY <1>1, StreamFields DEF Begun
<1>3. /\ IsFiniteSet(S) /\ c \in Nat /\ c <= n
      /\ \A k \in 1 .. c : \E i \in S : Rank(S, i) = k
  <2>1. /\ IsFiniteSet(S) /\ Cardinality(S) \in Nat /\ Cardinality(S) <= n
        /\ \A k \in 1 .. Cardinality(S) : \E i \in S : Rank(S, i) = k
      BY <1>2, RanksAreFilled
  <2>2. c = Cardinality(S)
      BY <1>1
  <2> QED BY <2>1, <2>2
<1>4. f = [k \in 1 .. c |-> Called(CHOOSE i \in S : Rank(S, i) = k)]
    BY <1>1 DEF Flushed, Rank
<1>5. \A k \in 1 .. c : \E i \in S : Rank(S, i) = k /\ f[k] = Called(i)
    BY <1>3, <1>4
<1>6. ASSUME NEW i \in S
      PROVE  /\ Called(i) \in CallRecords /\ Called(i).name[1] <= stream.turn
             /\ Called(i).id = <<0, i>> /\ Called(i).name = <<stream.turn, i>>
             /\ Called(i).signature = IF Called(i).name \in signed THEN Called(i).name ELSE NoValue
             /\ i \in 1 .. n
  <2>1. i \in 1 .. Len(stream.meant) /\ i \in Nat /\ stream.turn \in Nat
      BY <1>1, <1>2, StreamFields
  <2>2. stream.meant[i].named
      BY <2>1 DEF StreamSound
  <2>3. <<stream.turn, i>>[1] = stream.turn
      BY <2>1, PairsAreNames
  <2>4. <<stream.turn, i>> \notin signed
      BY <2>1, <2>3 DEF SignedSound
  <2>5. PICK q : q = Called(i)
      OBVIOUS
  <2>6. /\ q \in CallRecords /\ q.name[1] = stream.turn /\ q.name = <<stream.turn, i>>
        /\ q.id = <<0, i>> /\ q.signature = NoValue
      BY <2>1, <2>2, <2>5, CalledIs
  <2>7. q.name \notin signed /\ q.name[1] <= stream.turn
      BY <2>1, <2>4, <2>6
  <2> QED BY <1>1, <2>1, <2>5, <2>6, <2>7
<1>7. \A k \in 1 .. c : f[k] \in CallRecords
    BY <1>5, <1>6
<1>8. f \in Seq(CallRecords) /\ Len(f) = c
  <2>1. DOMAIN f = 1 .. c /\ f = [k \in 1 .. c |-> f[k]]
      BY <1>4
  <2>2. f \in [1 .. c -> CallRecords]
      BY <1>7, <2>1
  <2> QED BY <1>3, <2>1, <2>2
<1>9. CallsSound(f, stream.turn, signed)
  <2>1. ASSUME NEW k \in 1 .. Len(f)
        PROVE  /\ f[k].name[1] <= stream.turn
               /\ f[k].signature = IF f[k].name \in signed THEN f[k].name ELSE NoValue
    <3>1. PICK i \in S : f[k] = Called(i)
        BY <1>5, <1>8
    <3> QED BY <1>6, <3>1
  <2>2. ASSUME NEW k \in 1 .. Len(f), NEW h \in 1 .. Len(f), f[k].id = f[h].id
        PROVE  k = h
    <3>1. PICK i \in S : Rank(S, i) = k /\ f[k] = Called(i)
        BY <1>5, <1>8
    <3>2. PICK j \in S : Rank(S, j) = h /\ f[h] = Called(j)
        BY <1>5, <1>8
    <3>3. <<0, i>> = <<0, j>>
        BY <1>6, <2>2, <3>1, <3>2
    <3> QED BY <3>1, <3>2, <3>3
  <2> QED BY <1>8, <2>1, <2>2 DEF CallsSound
<1>10. ASSUME \A i \in DOMAIN stream.meant : Whole(i)
       PROVE  /\ Len(f) = n
              /\ \A i \in 1 .. n : MeantCall(stream, i, f[i])
  <2>1. \A i \in 1 .. n : stream.heard[i] = stream.meant[i].pieces + 1 /\ stream.meant[i].pieces \in Nat
      BY <1>1, <1>2, <1>10, StreamFields DEF Whole
  <2>2. S = 1 .. n
      BY <1>1, <1>2, <2>1 DEF Begun
  <2>3. c = n
      BY <1>1, <1>2, <2>2, FS_Interval
  <2>4. ASSUME NEW k \in 1 .. n PROVE MeantCall(stream, k, f[k])
    <3>1. PICK i \in S : Rank(S, i) = k /\ f[k] = Called(i)
        BY <1>5, <2>3
    <3>2. i = k
        BY <1>2, <2>2, <3>1, RankOfAll
    <3>3. f[k].name = <<stream.turn, k>>
        BY <1>6, <3>1, <3>2
    <3>4. f[k].args = Args(k)
        BY <1>1, <3>1, <3>2, CalledIs
    <3>5. Whole(k)
        BY <1>2, <1>10
    <3> QED BY <3>3, <3>4, <3>5 DEF MeantCall, Args
  <2> QED BY <1>8, <2>3, <2>4
<1> QED BY <1>1, <1>9, <1>10

LEMMA HandedOnAre ==
    ASSUME AdapterAssumption, StreamSound(stream, signed), SignedSound(stream, signed),
           stream.at = "streams"
    PROVE  /\ CallsSound(stream.calls, stream.turn, signed)
           /\ stream.provider = "google" /\ (\A i \in DOMAIN stream.meant : Whole(i)) =>
                /\ Len(stream.calls) = Len(stream.meant)
                /\ \A i \in 1 .. Len(stream.meant) : MeantCall(stream, i, stream.calls[i])
<1>1. CASE stream.provider # "google"
  <2>1. stream.calls = <<>>
      BY <1>1 DEF StreamSound
  <2> QED BY <1>1, <2>1, NoCallsAreSound
<1>2. CASE stream.provider = "google"
  <2>1. PICK calls, n : calls = stream.calls /\ n = Len(stream.meant)
      OBVIOUS
  <2>2. calls \in Seq(CallRecords) /\ Len(calls) \in Nat /\ n \in Nat /\ stream.turn \in Nat /\ stream.turn > 0
      BY <2>1, StreamFields DEF StreamSound
  <2>3. Len(calls) <= n
      BY <1>2, <2>1 DEF StreamSound
  <2>4. ASSUME NEW i \in 1 .. Len(calls)
        PROVE  /\ MeantCall(stream, i, calls[i])
               /\ calls[i].name = <<stream.turn, i>> /\ calls[i].name[1] = stream.turn
               /\ calls[i].id = IF stream.meant[i].named THEN <<0, i>> ELSE <<stream.turn, i>>
               /\ calls[i].signature = <<stream.turn, i>> /\ <<stream.turn, i>> \in signed
    <3>1. /\ MeantCall(stream, i, calls[i])
          /\ calls[i].id = IF stream.meant[i].named THEN <<0, i>> ELSE <<stream.turn, i>>
          /\ calls[i].signature = <<stream.turn, i>> /\ <<stream.turn, i>> \in signed
        BY <1>2, <2>1 DEF StreamSound
    <3>2. <<stream.turn, i>>[1] = stream.turn
        BY <2>2, PairsAreNames
    <3> QED BY <3>1, <3>2 DEF MeantCall
  <2>5. ASSUME NEW k \in 1 .. Len(calls), NEW h \in 1 .. Len(calls), calls[k].id = calls[h].id
        PROVE  k = h
    <3>1. calls[k].id = <<0, k>> \/ calls[k].id = <<stream.turn, k>>
        BY <2>4
    <3>2. calls[h].id = <<0, h>> \/ calls[h].id = <<stream.turn, h>>
        BY <2>4
    <3> QED BY <2>5, <3>1, <3>2
  <2>6. CallsSound(calls, stream.turn, signed)
    <3>1. ASSUME NEW k \in 1 .. Len(calls)
          PROVE  /\ calls[k].name[1] <= stream.turn
                 /\ calls[k].signature = IF calls[k].name \in signed THEN calls[k].name ELSE NoValue
      <4>1. calls[k].name[1] = stream.turn /\ calls[k].name \in signed /\ calls[k].signature = calls[k].name
          BY <2>4
      <4> QED BY <2>2, <4>1
    <3> QED BY <2>2, <2>5, <3>1 DEF CallsSound
  <2>7. ASSUME \A i \in DOMAIN stream.meant : Whole(i) PROVE Len(calls) = n
    <3>1. SUFFICES ASSUME Len(calls) < n PROVE FALSE
        BY <2>2, <2>3
    <3>2. Len(calls) + 1 \in 1 .. n /\ Len(calls) + 1 \in Len(calls) + 1 .. n
        BY <2>2, <3>1
    <3>3. stream.heard[Len(calls) + 1] = 0
        BY <1>2, <2>1, <3>2 DEF StreamSound
    <3>4. DOMAIN stream.meant = 1 .. n /\ stream.meant[Len(calls) + 1].pieces \in Nat
        BY <2>1, <3>2, StreamFields
    <3>5. Whole(Len(calls) + 1)
        BY <2>7, <3>2, <3>4
    <3> QED BY <3>3, <3>4, <3>5 DEF Whole
  <2> QED BY <2>1, <2>4, <2>6, <2>7
<1> QED BY <1>1, <1>2

--------------------------------------------------------------------------------
(* Every step keeps the invariant.                                            *)

LEMMA NeutralIs ==
    ASSUME NEW role \in {"system", "user", "assistant", "tool"}, NEW content \in Contents \cup {Empty}
    PROVE  LET m == Neutral(role, content) IN
           /\ m \in NeutralMessages /\ m.role = role /\ m.content = content /\ m.calls = <<>>
           /\ m = [role |-> role, content |-> content, reasoning |-> FALSE, calls |-> <<>>,
                   answers |-> NoValue]
<1>1. <<>> \in Seq(CallRecords)
    OBVIOUS
<1> QED BY <1>1 DEF Neutral, NeutralMessages

LEMMA SessionStarts ==
    ASSUME AdapterAssumption, AdapterInit
    PROVE  AdapterIInv
<1>1. PICK s, K, c : s = stream /\ K = signed /\ c = convo
    OBVIOUS
<1>2. /\ s = [at |-> "idle", provider |-> "openai", turn |-> 0, meant |-> <<>>, heard |-> <<>>,
              calls |-> <<>>, finish |-> NoValue]
      /\ K = {}
      /\ c = <<Neutral("system", Content(FALSE, <<"text">>))>>
    BY <1>1 DEF AdapterInit, NoStream
<1>3. s \in Streams
    BY <1>2 DEF Streams, Providers
<1>4. StreamSound(s, K)
  <2>1. s.finish # "stop"
      BY <1>2 DEF AdapterAssumption
  <2> QED BY <1>2, <1>3, <2>1 DEF StreamSound
<1>5. SignedSound(s, K)
    BY <1>2 DEF SignedSound
<1>6. TalkSound(c, 0, K)
  <2>1. Content(FALSE, <<"text">>) \in Contents
      BY DEF Contents
  <2>2. PICK m : m = Neutral("system", Content(FALSE, <<"text">>))
      OBVIOUS
  <2>3. m \in NeutralMessages /\ m.role = "system" /\ m.calls = <<>>
      BY <2>1, <2>2, NeutralIs
  <2>4. TalkSound(<<>>, 0, K)
      BY DEF TalkSound, Talk
  <2>5. TalkSound(Append(<<>>, m), 0, K)
      BY <2>3, <2>4, MessageIsAdded
  <2>6. c = Append(<<>>, m)
      BY <1>2, <2>2
  <2> QED BY <2>5, <2>6
<1>7. LastTurn(s) = 0
    BY <1>2 DEF LastTurn
<1> QED BY <1>1, <1>4, <1>5, <1>6, <1>7 DEF AdapterIInv

LEMMA SessionIsRead ==
    ASSUME AdapterAssumption, AdapterIInv, ReadSession
    PROVE  AdapterIInv'
<1>1. PICK s, t, K, c : s = stream' /\ t = stream.turn /\ K = signed /\ c = convo'
    OBVIOUS
<1>2. stream.at = "idle" /\ signed' = K /\ StreamSound(stream, K) /\ SignedSound(stream, K)
    BY <1>1 DEF ReadSession, AdapterIInv
<1>3. t \in Nat /\ LastTurn(stream) = t
    BY <1>1, <1>2, StreamFields DEF LastTurn
<1>4. PICK provider \in Providers :
        s = [NoStream EXCEPT !.at = "asks", !.provider = provider, !.turn = t]
    BY <1>1 DEF ReadSession
<1>5. s = [at |-> "asks", provider |-> provider, turn |-> t, meant |-> <<>>, heard |-> <<>>,
           calls |-> <<>>, finish |-> NoValue]
    BY <1>4 DEF NoStream
<1>6. s \in Streams
    BY <1>3, <1>5 DEF Streams
<1>7. StreamSound(s, K)
  <2>1. s.finish # "stop"
      BY <1>5 DEF AdapterAssumption
  <2> QED BY <1>5, <1>6, <2>1 DEF StreamSound
<1>8. SignedSound(s, K)
    BY <1>1, <1>2, <1>5 DEF SignedSound
<1>9. TalkSound(c, t, K)
  <2>1. TalkSound(convo, t, K)
      BY <1>1, <1>3 DEF AdapterIInv
  <2>2. Replayed(convo) = convo
      BY <2>1, SessionIsReadBack DEF TalkSound
  <2>3. Content(TRUE, <<"text", "image">>) \in Contents
      BY DEF Contents
  <2>4. PICK m : m = Neutral("user", Content(TRUE, <<"text", "image">>))
      OBVIOUS
  <2>5. m \in NeutralMessages /\ m.role = "user" /\ m.calls = <<>>
      BY <2>3, <2>4, NeutralIs
  <2>6. c = Append(convo, m)
      BY <1>1, <2>2, <2>4 DEF ReadSession
  <2> QED BY <2>1, <2>5, <2>6, MessageIsAdded
<1>10. LastTurn(s) = t
    BY <1>5 DEF LastTurn
<1> QED BY <1>1, <1>2, <1>7, <1>8, <1>9, <1>10 DEF AdapterIInv

LEMMA RequestIsSent ==
    ASSUME AdapterAssumption, AdapterIInv, Request
    PROVE  AdapterIInv'
<1>1. PICK s, t, p, K, c : s = stream' /\ t = stream.turn /\ p = stream.provider /\ K = signed /\ c = convo
    OBVIOUS
<1>2. /\ stream.at = "asks" /\ signed' = K /\ convo' = c
      /\ StreamSound(stream, K) /\ SignedSound(stream, K) /\ TalkSound(c, LastTurn(stream), K)
    BY <1>1 DEF Request, AdapterIInv
<1>3. t \in Nat /\ p \in Providers /\ LastTurn(stream) = t
    BY <1>1, <1>2, StreamFields DEF LastTurn
<1>4. PICK x : x = Cardinality({i \in DOMAIN convo : convo[i].role = "tool"})
    OBVIOUS
<1>5. x \in Nat
  <2>1. DOMAIN convo = 1 .. Len(convo) /\ Len(convo) \in Nat
      BY <1>1, <1>2, LenProperties DEF TalkSound, Talk
  <2>2. IsFiniteSet(1 .. Len(convo))
      BY <2>1, FS_Interval
  <2>3. IsFiniteSet({i \in DOMAIN convo : convo[i].role = "tool"})
      BY <2>1, <2>2, FS_Subset
  <2> QED BY <1>4, <2>3, FS_CardinalityType
<1>a. PICK n \in 0 .. MaxCalls - x :
        \E meant \in [1 .. n -> [pieces : 0 .. MaxPieces, named : BOOLEAN]] :
        /\ \A i \in 1 .. n : IF p = "google" THEN meant[i].pieces <= 1 ELSE meant[i].named
        /\ s = [NoStream EXCEPT !.at = "streams", !.provider = p, !.turn = t + 1,
                                !.meant = meant, !.heard = [i \in 1 .. n |-> 0]]
    BY <1>1, <1>4 DEF Request
<1>6. PICK meant \in [1 .. n -> [pieces : 0 .. MaxPieces, named : BOOLEAN]] :
        /\ \A i \in 1 .. n : IF p = "google" THEN meant[i].pieces <= 1 ELSE meant[i].named
        /\ s = [NoStream EXCEPT !.at = "streams", !.provider = p, !.turn = t + 1,
                                !.meant = meant, !.heard = [i \in 1 .. n |-> 0]]
    BY <1>a
<1>7. n \in Nat
    BY <1>5, <1>a DEF AdapterAssumption
<1>8. PICK heard : heard = [i \in 1 .. n |-> 0]
    OBVIOUS
<1>9. s = [at |-> "streams", provider |-> p, turn |-> t + 1, meant |-> meant, heard |-> heard,
           calls |-> <<>>, finish |-> NoValue]
    BY <1>6, <1>8 DEF NoStream
<1>10. /\ meant \in Seq([pieces : Nat, named : BOOLEAN]) /\ Len(meant) = n
       /\ heard \in Seq(Nat) /\ Len(heard) = n
       /\ \A i \in 1 .. n : meant[i].pieces \in Nat
       /\ \A i \in 1 .. n : heard[i] = 0
  <2>1. \A i \in 1 .. n : meant[i] \in [pieces : Nat, named : BOOLEAN]
      BY <1>6 DEF AdapterAssumption
  <2>2. meant \in [1 .. n -> [pieces : Nat, named : BOOLEAN]]
      BY <1>6, <2>1
  <2>3. heard \in [1 .. n -> Nat]
      BY <1>8
  <2>4. meant \in Seq([pieces : Nat, named : BOOLEAN]) /\ Len(meant) = n
    <3>1. PICK R : R = [pieces : Nat, named : BOOLEAN]
        OBVIOUS
    <3>2. meant \in [1 .. n -> R]
        BY <2>2, <3>1
    <3>3. meant \in Seq(R) /\ Len(meant) = n
        BY <1>7, <3>2
    <3> QED BY <3>1, <3>3
  <2>5. heard \in Seq(Nat) /\ Len(heard) = n
      BY <1>7, <2>3
  <2>6. \A i \in 1 .. n : meant[i].pieces \in Nat
      BY <2>1
  <2> QED BY <1>8, <2>4, <2>5, <2>6
<1>11. s \in Streams
    BY <1>3, <1>9, <1>10 DEF Streams
<1>12. StreamSound(s, K)
  <2>1. s.finish # "stop"
      BY <1>9 DEF AdapterAssumption
  <2>2. \A i \in 1 .. n : s.heard[i] <= s.meant[i].pieces + 1
      BY <1>9, <1>10
  <2>3. Len(s.calls) = 0 /\ s.calls = <<>> /\ s.turn > 0 /\ s.finish = NoValue
      BY <1>3, <1>9
  <2>4. \A i \in 1 .. n : s.provider # "google" => s.meant[i].named
      BY <1>6, <1>9
  <2>5. Len(s.heard) = n /\ Len(s.meant) = n /\ \A i \in 1 .. n : s.heard[i] = 0
      BY <1>9, <1>10
  <2> QED BY <1>7, <1>11, <2>1, <2>2, <2>3, <2>4, <2>5 DEF StreamSound
<1>13. SignedSound(s, K)
  <2>1. K \subseteq Names /\ \A y \in K : y[1] <= t /\ y[1] \in Nat
      BY <1>1, <1>2, NamesArePairs DEF SignedSound
  <2>2. \A y \in K : y[1] < t + 1
      BY <1>3, <2>1
  <2> QED BY <1>3, <1>9, <2>1, <2>2 DEF SignedSound
<1>14. LastTurn(s) = t
    BY <1>3, <1>9 DEF LastTurn
<1> QED BY <1>1, <1>2, <1>3, <1>12, <1>13, <1>14 DEF AdapterIInv

LEMMA DeltaIsHeard ==
    ASSUME AdapterAssumption, AdapterIInv, NEW i \in DOMAIN stream.meant, Delta(i)
    PROVE  AdapterIInv'
<1>1. PICK o, s, K, c : o = stream /\ s = stream' /\ K = signed /\ c = convo
    OBVIOUS
<1>2. /\ o.at = "streams" /\ o.provider # "google" /\ o.heard[i] # o.meant[i].pieces + 1
      /\ s = [o EXCEPT !.heard[i] = @ + 1] /\ signed' = K /\ convo' = c
      /\ StreamSound(o, K) /\ SignedSound(o, K) /\ TalkSound(c, LastTurn(o), K)
    BY <1>1 DEF Delta, Whole, AdapterIInv
<1>3. PICK n, heard : n = Len(o.meant) /\ heard = [o.heard EXCEPT ![i] = o.heard[i] + 1]
    OBVIOUS
<1>4. /\ n \in Nat /\ i \in 1 .. n /\ o.heard \in Seq(Nat) /\ Len(o.heard) = n
      /\ \A j \in 1 .. n : o.heard[j] \in Nat /\ o.meant[j].pieces \in Nat
    BY <1>1, <1>2, <1>3, StreamFields DEF StreamSound
<1>5. s = [at |-> o.at, provider |-> o.provider, turn |-> o.turn, meant |-> o.meant,
           heard |-> heard, calls |-> o.calls, finish |-> o.finish]
  <2>1. s = [o EXCEPT !.heard = heard]
      BY <1>2, <1>3
  <2>2. o = [at |-> o.at, provider |-> o.provider, turn |-> o.turn, meant |-> o.meant,
             heard |-> o.heard, calls |-> o.calls, finish |-> o.finish]
      BY <1>2, StreamFields
  <2> HIDE <1>2, <1>3
  <2>3. DOMAIN o = {"at", "provider", "turn", "meant", "heard", "calls", "finish"}
      BY <2>2
  <2> QED BY <2>1, <2>3
<1>6. /\ heard \in Seq(Nat) /\ Len(heard) = n /\ heard[i] = o.heard[i] + 1
      /\ \A j \in 1 .. n : j # i => heard[j] = o.heard[j]
    BY <1>3, <1>4
<1>7. s \in Streams
  <2>1. /\ o.at \in {"idle", "asks", "streams"} /\ o.provider \in Providers /\ o.turn \in Nat
        /\ o.meant \in Seq([pieces : Nat, named : BOOLEAN])
        /\ o.calls \in Seq(CallRecords) /\ o.finish \in {"stop", "length", NoValue}
      BY <1>2, StreamFields
  <2> QED BY <1>5, <1>6, <2>1 DEF Streams
<1>8. StreamSound(s, K)
  <2>1. ASSUME NEW j \in 1 .. n
        PROVE  heard[j] <= o.meant[j].pieces + 1 /\ o.meant[j].named
    <3>1. o.heard[j] <= o.meant[j].pieces + 1 /\ o.meant[j].named
        BY <1>2, <1>3 DEF StreamSound
    <3>2. heard[j] <= o.meant[j].pieces + 1
      <4>1. CASE j = i
        <5>1. /\ heard[i] = o.heard[i] + 1 /\ o.heard[i] \in Nat /\ o.meant[i].pieces \in Nat
              /\ o.heard[i] <= o.meant[i].pieces + 1 /\ o.heard[i] # o.meant[i].pieces + 1
            BY <1>2, <1>4, <1>6, <3>1, <4>1
        <5> QED BY <4>1, <5>1
      <4>2. CASE j # i
          BY <1>6, <3>1, <4>2
      <4> QED BY <4>1, <4>2
    <3> QED BY <3>1, <3>2
  <2>2. o.finish = NoValue /\ o.turn > 0 /\ o.calls = <<>>
      BY <1>2 DEF StreamSound
  <2>3. s.finish # "stop" /\ s.finish = NoValue
      BY <1>5, <2>2 DEF AdapterAssumption
  <2>4. s.at = "streams" /\ s.provider # "google" /\ s.turn > 0 /\ s.calls = <<>>
      BY <1>2, <1>5, <2>2
  <2>5. /\ Len(s.heard) = Len(s.meant)
        /\ \A j \in 1 .. Len(s.meant) : s.heard[j] <= s.meant[j].pieces + 1 /\ s.meant[j].named
      BY <1>3, <1>5, <1>6, <2>1
  <2> QED BY <1>7, <2>3, <2>4, <2>5 DEF StreamSound
<1>9. SignedSound(s, K) /\ LastTurn(s) = LastTurn(o)
    BY <1>2, <1>5 DEF SignedSound, LastTurn
<1> QED BY <1>1, <1>2, <1>8, <1>9 DEF AdapterIInv

LEMMA FunctionIsCalled ==
    ASSUME AdapterAssumption, AdapterIInv, NEW i \in DOMAIN stream.meant, FunctionCall(i)
    PROVE  AdapterIInv'
<1>1. PICK o, s, K, L, c, t : o = stream /\ s = stream' /\ K = signed /\ L = signed' /\ c = convo /\ t = o.turn
    OBVIOUS
<1>2. /\ o.at = "streams" /\ o.provider = "google" /\ o.heard[i] = 0 /\ convo' = c
      /\ \A j \in 1 .. i - 1 : o.heard[j] = o.meant[j].pieces + 1
      /\ L = K \cup {<<t, i>>}
      /\ StreamSound(o, K) /\ SignedSound(o, K) /\ TalkSound(c, LastTurn(o), K)
    BY <1>1 DEF FunctionCall, Whole, AdapterIInv
<1>3. PICK n, m, calls, heard, q :
        /\ n = Len(o.meant) /\ m = Len(o.calls)
        /\ q = [Called(i) EXCEPT !.args = IF o.meant[i].pieces > 0 THEN "given" ELSE "none"]
        /\ calls = Append(o.calls, q)
        /\ heard = [o.heard EXCEPT ![i] = o.meant[i].pieces + 1]
    OBVIOUS
<1>4. /\ n \in Nat /\ i \in 1 .. n /\ o.heard \in Seq(Nat) /\ Len(o.heard) = n
      /\ \A j \in 1 .. n : o.heard[j] \in Nat /\ o.meant[j].pieces \in Nat
      /\ t \in Nat /\ t > 0 /\ m \in Nat /\ m <= n /\ o.calls \in Seq(CallRecords)
  <2>1. /\ n \in Nat /\ o.heard \in Seq(Nat) /\ o.calls \in Seq(CallRecords) /\ m \in Nat
        /\ o.turn \in Nat /\ DOMAIN o.meant = 1 .. n
        /\ \A j \in 1 .. n : o.heard[j] \in Nat /\ o.meant[j].pieces \in Nat
      BY <1>2, <1>3, StreamFields
  <2>2. Len(o.heard) = n /\ o.turn > 0 /\ m <= n
      BY <1>2, <1>3 DEF StreamSound
  <2>3. i \in 1 .. n /\ t = o.turn
      BY <1>1, <2>1
  <2> QED BY <2>1, <2>2, <2>3
<1>5. s = [at |-> o.at, provider |-> o.provider, turn |-> t, meant |-> o.meant,
           heard |-> heard, calls |-> calls, finish |-> o.finish]
  <2>1. s = [[o EXCEPT !.heard[i] = o.meant[i].pieces + 1] EXCEPT !.calls = Append(@, q)]
      BY <1>1, <1>3 DEF FunctionCall
  <2>2. o = [at |-> o.at, provider |-> o.provider, turn |-> o.turn, meant |-> o.meant,
             heard |-> o.heard, calls |-> o.calls, finish |-> o.finish]
      BY <1>2, StreamFields
  <2>3. DOMAIN o = {"at", "provider", "turn", "meant", "heard", "calls", "finish"}
      BY <2>2
  <2>4. PICK h : h = [o EXCEPT !.heard = heard]
      OBVIOUS
  <2>5. h = [at |-> o.at, provider |-> o.provider, turn |-> o.turn, meant |-> o.meant,
             heard |-> heard, calls |-> o.calls, finish |-> o.finish]
      BY <2>3, <2>4
  <2>6. s = [h EXCEPT !.calls = calls]
    <3>1. h = [o EXCEPT !.heard[i] = o.meant[i].pieces + 1]
        BY <1>3, <2>4
    <3>2. h.calls = o.calls
        BY <2>5
    <3> QED BY <1>3, <2>1, <3>1, <3>2
  <2>7. t = o.turn
      BY <1>1
  <2> QED BY <2>5, <2>6, <2>7
<1>6. i = m + 1
  <2>1. ~ (i <= m)
    <3>1. SUFFICES ASSUME i <= m PROVE FALSE
        OBVIOUS
    <3>2. i \in 1 .. m
        BY <1>4, <3>1
    <3>3. o.heard[i] = o.meant[i].pieces + 1
        BY <1>2, <1>3, <3>2 DEF StreamSound
    <3>4. o.heard[i] = 0 /\ o.meant[i].pieces \in Nat
        BY <1>2, <1>4
    <3> QED BY <3>3, <3>4
  <2>2. ~ (i > m + 1)
    <3>1. SUFFICES ASSUME i > m + 1 PROVE FALSE
        OBVIOUS
    <3>2. m + 1 \in m + 1 .. n /\ m + 1 \in 1 .. i - 1 /\ m + 1 \in 1 .. n
        BY <1>4, <3>1
    <3>3. o.heard[m + 1] = 0
        BY <1>2, <1>3, <3>2 DEF StreamSound
    <3>4. o.heard[m + 1] = o.meant[m + 1].pieces + 1 /\ o.meant[m + 1].pieces \in Nat
        BY <1>2, <1>4, <3>2
    <3> QED BY <3>3, <3>4
  <2> QED BY <1>4, <2>1, <2>2
<1>7. /\ heard \in Seq(Nat) /\ Len(heard) = n /\ heard[i] = o.meant[i].pieces + 1
      /\ \A j \in 1 .. n : j # i => heard[j] = o.heard[j]
  <2>1. PICK v, h : v = o.meant[i].pieces + 1 /\ h = o.heard
      OBVIOUS
  <2>2. v \in Nat /\ h \in Seq(Nat) /\ Len(h) = n /\ i \in 1 .. n /\ n \in Nat
      BY <1>4, <2>1
  <2>3. heard = [h EXCEPT ![i] = v]
      BY <1>3, <2>1
  <2>4. /\ heard \in Seq(Nat) /\ Len(heard) = n /\ heard[i] = v
        /\ \A j \in 1 .. n : j # i => heard[j] = h[j]
      BY <2>2, <2>3
  <2> QED BY <2>1, <2>4
<1>8. /\ q \in CallRecords /\ q.name = <<t, i>>
      /\ q.args = IF o.meant[i].pieces > 0 THEN "given" ELSE "none"
      /\ q.id = IF o.meant[i].named THEN <<0, i>> ELSE <<t, i>>
      /\ q.signature = <<t, i>>
  <2>1. PICK r : r = Called(i)
      OBVIOUS
  <2>2. /\ r \in CallRecords /\ r.name = <<t, i>> /\ r.signature = <<t, i>>
        /\ r.id = IF o.meant[i].named THEN <<0, i>> ELSE <<t, i>>
      BY <1>1, <1>2, <1>3, <1>4, <2>1, CalledIs
  <2>3. q = [r EXCEPT !.args = IF o.meant[i].pieces > 0 THEN "given" ELSE "none"]
      BY <1>3, <2>1
  <2> QED BY <2>2, <2>3 DEF CallRecords
<1>9. /\ calls \in Seq(CallRecords) /\ Len(calls) = m + 1 /\ calls[i] = q
      /\ \A j \in 1 .. m : calls[j] = o.calls[j]
    BY <1>3, <1>4, <1>6, <1>8
<1>10. s \in Streams
    BY <1>2, <1>4, <1>5, <1>7, <1>9, StreamFields DEF Streams
<1>11. o.finish = NoValue /\ s.finish = NoValue /\ s.finish # "stop"
    BY <1>2, <1>5 DEF StreamSound, AdapterAssumption
<1>12. ASSUME NEW j \in 1 .. n
       PROVE  heard[j] <= o.meant[j].pieces + 1
  <2>1. o.heard[j] <= o.meant[j].pieces + 1
      BY <1>2, <1>3 DEF StreamSound
  <2>2. CASE j = i
      BY <1>4, <1>7, <2>2
  <2>3. CASE j # i
      BY <1>7, <2>1, <2>3
  <2> QED BY <2>2, <2>3
<1>13. ASSUME NEW j \in 1 .. m + 1
       PROVE  /\ heard[j] = o.meant[j].pieces + 1
              /\ calls[j].name = <<t, j>>
              /\ calls[j].args = IF o.meant[j].pieces > 0 THEN "given" ELSE "none"
              /\ calls[j].id = IF o.meant[j].named THEN <<0, j>> ELSE <<t, j>>
              /\ calls[j].signature = <<t, j>> /\ <<t, j>> \in L
  <2>1. CASE j = i
      BY <1>2, <1>7, <1>8, <1>9, <2>1
  <2>2. CASE j # i
    <3>1. j \in 1 .. m /\ j \in 1 .. n
        BY <1>4, <1>6, <2>2
    <3>2. /\ o.heard[j] = o.meant[j].pieces + 1
          /\ MeantCall(o, j, o.calls[j])
          /\ o.calls[j].id = IF o.meant[j].named THEN <<0, j>> ELSE <<t, j>>
          /\ o.calls[j].signature = <<t, j>> /\ <<t, j>> \in K
      <4>1. j \in 1 .. Len(o.calls) /\ o.turn = t
          BY <1>1, <1>3, <3>1
      <4> QED BY <1>2, <4>1 DEF StreamSound
    <3>3. heard[j] = o.heard[j] /\ calls[j] = o.calls[j]
        BY <1>7, <1>9, <2>2, <3>1
    <3> QED BY <1>1, <1>2, <3>2, <3>3 DEF MeantCall
  <2> QED BY <2>1, <2>2
<1>14. ASSUME NEW j \in (m + 1) + 1 .. n PROVE heard[j] = 0
  <2>1. j \in m + 1 .. n /\ j # i /\ j \in 1 .. n
      BY <1>4, <1>6
  <2>2. o.heard[j] = 0
      BY <1>2, <1>3, <2>1 DEF StreamSound
  <2> QED BY <1>7, <2>1, <2>2
<1>15. StreamSound(s, L)
  <2>1. /\ s.at = "streams" /\ s.provider = "google" /\ s.turn = t /\ s.meant = o.meant
        /\ s.heard = heard /\ s.calls = calls
      BY <1>2, <1>5
  <2>2. Len(s.heard) = n /\ Len(s.meant) = n /\ Len(s.calls) = m + 1 /\ m + 1 <= n
      BY <1>3, <1>4, <1>6, <1>7, <1>9, <2>1
  <2>3. \A j \in 1 .. m + 1 :
            /\ s.heard[j] = s.meant[j].pieces + 1
            /\ MeantCall(s, j, s.calls[j])
            /\ s.calls[j].id = IF s.meant[j].named THEN <<0, j>> ELSE <<s.turn, j>>
            /\ s.calls[j].signature = <<s.turn, j>> /\ <<s.turn, j>> \in L
      BY <1>13, <2>1 DEF MeantCall
  <2>4. \A j \in 1 .. n : s.heard[j] <= s.meant[j].pieces + 1
      BY <1>12, <2>1
  <2>5. \A j \in (m + 1) + 1 .. n : s.heard[j] = 0
      BY <1>14, <2>1
  <2>6. s.turn > 0
      BY <1>4, <2>1
  <2> QED BY <1>10, <1>11, <2>1, <2>2, <2>3, <2>4, <2>5, <2>6 DEF StreamSound
<1>16. <<t, i>> \in Names /\ <<t, i>>[1] = t
    BY <1>4, PairsAreNames
<1>17. SignedSound(s, L)
  <2>1. K \subseteq Names /\ \A x \in K : x[1] <= t
      BY <1>1, <1>2 DEF SignedSound
  <2>2. L \subseteq Names /\ \A x \in L : x[1] <= t
    <3>1. \A x \in L : x \in K \/ x = <<t, i>>
        BY <1>2
    <3>2. L \subseteq Names
        BY <1>16, <2>1, <3>1
    <3>3. t <= t
        BY <1>4
    <3> QED BY <1>16, <2>1, <3>1, <3>2, <3>3
  <2>3. s.turn = t /\ s.provider = "google"
      BY <1>2, <1>5
  <2> QED BY <2>2, <2>3 DEF SignedSound
<1>18. TalkSound(c, t - 1, L)
  <2>1. LastTurn(o) = t - 1
      BY <1>1, <1>2 DEF LastTurn
  <2>2. ASSUME NEW x \in Names, x[1] <= t - 1 PROVE x \in L <=> x \in K
    <3>1. x # <<t, i>>
        BY <1>4, <1>16, <2>2
    <3> QED BY <1>2, <3>1
  <2>3. t - 1 \in Int /\ t - 1 <= t - 1
      BY <1>4
  <2>4. PICK l : l = t - 1
      OBVIOUS
  <2>5. TalkSound(c, l, K) /\ l \in Int /\ l <= l
      BY <1>2, <2>1, <2>3, <2>4
  <2>6. \A x \in Names : x[1] <= l => (x \in L <=> x \in K)
      BY <2>2, <2>4
  <2>7. TalkSound(c, l, L)
      BY <2>5, <2>6, TalkStaysSound
  <2> QED BY <2>4, <2>7
<1>19. LastTurn(s) = t - 1
    BY <1>2, <1>5 DEF LastTurn
<1> QED BY <1>1, <1>2, <1>15, <1>17, <1>18, <1>19 DEF AdapterIInv

LEMMA ResultsAre ==
    ASSUME NEW calls \in Seq(CallRecords), NEW content \in Contents \cup {Empty}
    PROVE  Talk(Results(calls, content)) /\ ResultsOf(calls, Results(calls, content))
<1>1. PICK r, n : r = Results(calls, content) /\ n = Len(calls)
    OBVIOUS
<1>2. n \in Nat /\ DOMAIN calls = 1 .. n
    BY <1>1, LenProperties
<1>3. r = [i \in 1 .. n |-> [Neutral("tool", content) EXCEPT !.answers = calls[i].id]]
    BY <1>1, <1>2 DEF Results
<1>4. ASSUME NEW i \in 1 .. n
      PROVE  /\ r[i] \in NeutralMessages /\ r[i].role = "tool" /\ r[i].calls = <<>>
             /\ r[i].answers = calls[i].id
  <2>1. PICK m, id : m = Neutral("tool", content) /\ id = calls[i].id
      OBVIOUS
  <2>2. id \in Names
      BY <1>1, <2>1, CallIn, CallFields
  <2>3. /\ m \in NeutralMessages
        /\ m = [role |-> "tool", content |-> content, reasoning |-> FALSE, calls |-> <<>>,
                answers |-> NoValue]
      BY <2>1, NeutralIs
  <2>4. r[i] = [m EXCEPT !.answers = id]
      BY <1>3, <2>1
  <2>5. r[i] = [role |-> "tool", content |-> content, reasoning |-> FALSE, calls |-> <<>>, answers |-> id]
      BY <2>3, <2>4
  <2>6. <<>> \in Seq(CallRecords)
      OBVIOUS
  <2> QED BY <2>1, <2>2, <2>5, <2>6 DEF NeutralMessages
<1>5. r \in Seq(NeutralMessages) /\ Len(r) = n
  <2>1. r \in [1 .. n -> NeutralMessages]
      BY <1>3, <1>4
  <2> QED BY <1>2, <2>1
<1>6. Talk(r) /\ ResultsOf(calls, r)
    BY <1>1, <1>4, <1>5 DEF Talk, ResultsOf
<1> QED BY <1>1, <1>6

\* A turn that ends with some calls.
LEMMA TurnIsOver ==
    ASSUME AdapterAssumption, AdapterIInv, stream.at = "streams",
           NEW calls, CallsSound(calls, stream.turn, signed),
           NEW finish \in {"stop", "length", NoValue},
           finish = "stop" =>
              /\ Len(calls) = Len(stream.meant)
              /\ \A i \in 1 .. Len(stream.meant) : MeantCall(stream, i, calls[i]),
           TurnEnds(calls, finish), UNCHANGED signed
    PROVE  AdapterIInv'
<1>1. PICK o, s, K, c, d, t :
        o = stream /\ s = stream' /\ K = signed /\ c = convo /\ d = convo' /\ t = stream.turn
    OBVIOUS
<1>2. /\ signed' = K /\ StreamSound(o, K) /\ SignedSound(o, K) /\ TalkSound(c, LastTurn(o), K)
      /\ s = [o EXCEPT !.at = IF calls = <<>> THEN "idle" ELSE "asks",
                       !.calls = calls, !.finish = finish]
    BY <1>1 DEF AdapterIInv, TurnEnds
<1>3. /\ calls \in Seq(CallRecords) /\ t \in Nat /\ t > 0 /\ o.at = "streams" /\ o.turn = t
  <2>1. calls \in Seq(CallRecords)
      BY DEF CallsSound
  <2>2. o.at = "streams" /\ o.turn = t
      BY <1>1
  <2>3. o.turn \in Nat
      BY <1>2, StreamFields
  <2>4. o.turn > 0
      BY <1>2, <2>2 DEF StreamSound
  <2> QED BY <2>1, <2>2, <2>3, <2>4
<1>4. PICK at \in {"idle", "asks"} : at = IF calls = <<>> THEN "idle" ELSE "asks"
    OBVIOUS
<1>5. s = [at |-> at, provider |-> o.provider, turn |-> t, meant |-> o.meant,
           heard |-> o.heard, calls |-> calls, finish |-> finish]
  <2>1. o = [at |-> o.at, provider |-> o.provider, turn |-> o.turn, meant |-> o.meant,
             heard |-> o.heard, calls |-> o.calls, finish |-> o.finish]
      BY <1>2, StreamFields
  <2>2. DOMAIN o = {"at", "provider", "turn", "meant", "heard", "calls", "finish"}
      BY <2>1
  <2>3. s = [o EXCEPT !.at = at, !.calls = calls, !.finish = finish]
      BY <1>2, <1>4
  <2> QED BY <1>3, <2>2, <2>3
<1>6. s \in Streams
  <2>1. /\ o.provider \in Providers /\ o.meant \in Seq([pieces : Nat, named : BOOLEAN])
        /\ o.heard \in Seq(Nat)
      BY <1>2, StreamFields
  <2> QED BY <1>3, <1>5, <2>1 DEF Streams
<1>7. StreamSound(s, K)
  <2>1. /\ s.at # "streams" /\ s.provider = o.provider /\ s.turn = t /\ s.meant = o.meant
        /\ s.heard = o.heard /\ s.calls = calls /\ s.finish = finish
      BY <1>5
  <2>2. /\ Len(s.heard) = Len(s.meant)
        /\ \A i \in 1 .. Len(s.meant) :
            /\ s.heard[i] <= s.meant[i].pieces + 1
            /\ s.provider # "google" => s.meant[i].named
      BY <1>2, <2>1 DEF StreamSound
  <2>3. s.finish = "stop" =>
            /\ Len(s.calls) = Len(s.meant)
            /\ \A i \in 1 .. Len(s.meant) : MeantCall(s, i, s.calls[i])
    <3>1. SUFFICES ASSUME finish = "stop"
                   PROVE  /\ Len(s.calls) = Len(s.meant)
                          /\ \A i \in 1 .. Len(s.meant) : MeantCall(s, i, s.calls[i])
        BY <2>1
    <3>2. Len(calls) = Len(o.meant) /\ \A i \in 1 .. Len(o.meant) : MeantCall(o, i, calls[i])
        BY <1>1, <3>1
    <3> QED BY <1>3, <2>1, <3>2 DEF MeantCall
  <2> QED BY <1>6, <2>1, <2>2, <2>3 DEF StreamSound
<1>8. SignedSound(s, K) /\ LastTurn(s) = t
  <2>1. K \subseteq Names /\ \A x \in K : x[1] <= t
      BY <1>2, <1>3 DEF SignedSound
  <2> QED BY <1>5, <2>1 DEF SignedSound, LastTurn
<1>9. TalkSound(d, t, K)
  <2>1. PICK content \in (IF calls = <<>> THEN {Empty} ELSE Contents), said \in BOOLEAN,
             reasoning \in (IF stream.provider = "openai" THEN {FALSE} ELSE BOOLEAN) :
            d = c \o <<Turn(said, reasoning, calls)>> \o Results(calls, content)
      BY <1>1 DEF TurnEnds
  <2>2. content \in Contents \cup {Empty} /\ reasoning \in BOOLEAN
      BY <2>1
  <2>3. TalkSound(c, t, K)
    <3>1. LastTurn(o) = t - 1
        BY <1>3 DEF LastTurn
    <3>2. PICK l : l = t - 1
        OBVIOUS
    <3>3. l \in Int /\ t \in Int /\ l <= t
        BY <1>3, <3>2
    <3>4. TalkSound(c, l, K)
        BY <1>2, <3>1, <3>2
    <3> QED BY <3>3, <3>4, TalkStaysSound
  <2>4. PICK u, r, k : /\ u = Turn(said, reasoning, calls) /\ r = Results(calls, content)
                       /\ k = IF said THEN Content(FALSE, <<"text">>) ELSE Empty
      OBVIOUS
  <2>5. k \in Contents \cup {Empty}
      BY <2>4 DEF Contents
  <2>6. u = [role |-> "assistant", content |-> k, reasoning |-> reasoning, calls |-> calls,
             answers |-> NoValue]
    <3>1. PICK m : m = Neutral("assistant", k)
        OBVIOUS
    <3>2. m = [role |-> "assistant", content |-> k, reasoning |-> FALSE, calls |-> <<>>, answers |-> NoValue]
        BY <2>5, <3>1, NeutralIs
    <3>3. u = [m EXCEPT !.reasoning = reasoning, !.calls = calls]
        BY <2>4, <3>1 DEF Turn
    <3> QED BY <3>2, <3>3
  <2>7. u \in NeutralMessages /\ u.role = "assistant" /\ u.calls = calls
      BY <1>3, <2>2, <2>5, <2>6 DEF NeutralMessages
  <2>8. Talk(r) /\ ResultsOf(calls, r)
      BY <1>3, <2>2, <2>4, ResultsAre
  <2>9. CallsSound(u.calls, t, K) /\ ResultsOf(u.calls, r)
      BY <1>1, <2>7, <2>8
  <2>10. d = c \o <<u>> \o r
      BY <2>1, <2>4
  <2> QED BY <2>3, <2>7, <2>8, <2>9, <2>10, TurnIsKept
<1> QED BY <1>1, <1>2, <1>7, <1>8, <1>9 DEF AdapterIInv

LEMMA TurnIsFinished ==
    ASSUME AdapterAssumption, AdapterIInv, FinishTurn
    PROVE  AdapterIInv'
<1>1. stream.at = "streams" /\ StreamSound(stream, signed) /\ SignedSound(stream, signed)
    BY DEF FinishTurn, AdapterIInv
<1>2. PICK finish \in {"stop", "length"} :
        /\ finish = "stop" => \A i \in DOMAIN stream.meant : Whole(i)
        /\ TurnEnds(Emitted, finish)
    BY DEF FinishTurn
<1>3. PICK calls : calls = Emitted
    OBVIOUS
<1>4. /\ CallsSound(calls, stream.turn, signed)
      /\ (\A i \in DOMAIN stream.meant : Whole(i)) =>
            /\ Len(calls) = Len(stream.meant)
            /\ \A i \in 1 .. Len(stream.meant) : MeantCall(stream, i, calls[i])
  <2>1. CASE stream.provider = "google"
    <3>1. calls = stream.calls
        BY <1>3, <2>1 DEF Emitted
    <3> QED BY <1>1, <2>1, <3>1, HandedOnAre
  <2>2. CASE stream.provider # "google"
    <3>1. calls = Flushed
        BY <1>3, <2>2 DEF Emitted
    <3> QED BY <1>1, <2>2, <3>1, FlushedAre
  <2> QED BY <2>1, <2>2
<1>5. finish = "stop" =>
        /\ Len(calls) = Len(stream.meant)
        /\ \A i \in 1 .. Len(stream.meant) : MeantCall(stream, i, calls[i])
    BY <1>2, <1>4
<1>6. TurnEnds(calls, finish) /\ UNCHANGED signed
    BY <1>2, <1>3 DEF FinishTurn
<1> QED BY <1>1, <1>4, <1>5, <1>6, TurnIsOver

LEMMA StreamIsCut ==
    ASSUME AdapterAssumption, AdapterIInv, Cut
    PROVE  AdapterIInv'
<1>1. stream.at = "streams" /\ StreamSound(stream, signed) /\ SignedSound(stream, signed)
    BY DEF Cut, AdapterIInv
<1>2. PICK calls : calls = stream.calls
    OBVIOUS
<1>3. CallsSound(calls, stream.turn, signed)
    BY <1>1, <1>2, HandedOnAre
<1>4. TurnEnds(calls, NoValue) /\ UNCHANGED signed
    BY <1>2 DEF Cut
<1>5. NoValue # "stop"
    BY DEF AdapterAssumption
<1> QED BY <1>1, <1>3, <1>4, <1>5, TurnIsOver

LEMMA AdapterStep ==
    ASSUME AdapterAssumption, AdapterIInv, [AdapterNext]_adapterVars
    PROVE  AdapterIInv'
<1>1. CASE ReadSession
    BY <1>1, SessionIsRead
<1>2. CASE Request
    BY <1>2, RequestIsSent
<1>3. CASE FinishTurn
    BY <1>3, TurnIsFinished
<1>4. CASE Cut
    BY <1>4, StreamIsCut
<1>5. ASSUME NEW i \in DOMAIN stream.meant, Delta(i) PROVE AdapterIInv'
    BY <1>5, DeltaIsHeard
<1>6. ASSUME NEW i \in DOMAIN stream.meant, FunctionCall(i) PROVE AdapterIInv'
    BY <1>6, FunctionIsCalled
<1>7. CASE UNCHANGED adapterVars
  <2>1. stream' = stream /\ signed' = signed /\ convo' = convo
      BY <1>7 DEF adapterVars
  <2> QED BY <2>1 DEF AdapterIInv
<1> QED BY <1>1, <1>2, <1>3, <1>4, <1>5, <1>6, <1>7 DEF AdapterNext

\* The inductive invariant of the adapters, for every number of turns, calls and pieces.
THEOREM AdapterInvariant == AdapterSpec => []AdapterIInv
<1>1. AdapterInit => AdapterIInv
    BY SessionStarts, AdapterAssumption
<1>2. AdapterIInv /\ [AdapterNext]_adapterVars => AdapterIInv'
    BY AdapterStep, AdapterAssumption
<1> QED BY <1>1, <1>2, PTL DEF AdapterSpec

--------------------------------------------------------------------------------
(* What the invariant says of calls and requests.                              *)

LEMMA CallsAreMeant ==
    AdapterIInv => CallsAreTheModels
<1>1. SUFFICES ASSUME AdapterIInv, stream.finish = "stop"
               PROVE  /\ Len(stream.calls) = Len(stream.meant)
                      /\ \A i \in DOMAIN stream.meant :
                          /\ stream.calls[i].name = <<stream.turn, i>>
                          /\ stream.calls[i].args = IF stream.meant[i].pieces > 0 THEN "given" ELSE "none"
    BY DEF CallsAreTheModels
<1>2. StreamSound(stream, signed)
    BY <1>1 DEF AdapterIInv
<1>3. DOMAIN stream.meant = 1 .. Len(stream.meant)
    BY <1>2, StreamFields
<1>4. /\ Len(stream.calls) = Len(stream.meant)
      /\ \A i \in 1 .. Len(stream.meant) : MeantCall(stream, i, stream.calls[i])
    BY <1>1, <1>2 DEF StreamSound
<1> QED BY <1>3, <1>4 DEF MeantCall

\* The walk finds the turn that a result answers, and in it the call.
LEMMA ResultIsNamed ==
    ASSUME NEW c, NEW l, NEW K, TalkSound(c, l, K), NEW t, NEW i \in 1 .. Len(c), t \in 1 .. i - 1,
           AnswersTo(c, t, i)
    PROVE  NameAmong(c, 1 .. i, c[i].answers) = c[t].calls[i - t].name
<1> DEFINE asking == {j \in 1 .. i : \E k \in DOMAIN c[j].calls : c[j].calls[k].id = c[i].answers}
<1>1. \A j \in 1 .. Len(c) : CallsSound(c[j].calls, l, K) /\ (c[j].role # "assistant" => c[j].calls = <<>>)
    BY DEF TalkSound
<1>2. Len(c) \in Nat /\ t \in 1 .. Len(c) /\ t \in 1 .. i /\ i \in Nat /\ t \in Nat
    BY DEF TalkSound, Talk
<1>3. PICK calls, h, id : calls = c[t].calls /\ h = i - t /\ id = c[i].answers
    OBVIOUS
<1>4. /\ calls \in Seq(CallRecords) /\ h \in 1 .. Len(calls) /\ DOMAIN calls = 1 .. Len(calls)
      /\ calls[h].id = id
      /\ \A k, m \in 1 .. Len(calls) : calls[k].id = calls[m].id => k = m
  <2>1. CallsSound(calls, l, K)
      BY <1>1, <1>2, <1>3
  <2>2. calls \in Seq(CallRecords) /\ \A k, m \in 1 .. Len(calls) : calls[k].id = calls[m].id => k = m
      BY <2>1 DEF CallsSound
  <2>3. h \in 1 .. Len(calls) /\ calls[h].id = id
      BY <1>3 DEF AnswersTo
  <2>4. DOMAIN calls = 1 .. Len(calls)
      BY <2>2, LenProperties
  <2> QED BY <2>2, <2>3, <2>4
<1>5. t \in asking
    BY <1>2, <1>3, <1>4
<1>6. ASSUME NEW j \in asking PROVE j <= t
  <2>1. SUFFICES ASSUME j > t PROVE FALSE
      BY <1>2
  <2>2. j \in t + 1 .. i /\ j \in 1 .. Len(c)
      BY <1>2, <2>1
  <2>3. c[j].role = "tool"
      BY <2>2 DEF AnswersTo
  <2>4. c[j].calls = <<>>
      BY <1>1, <2>2, <2>3
  <2>5. DOMAIN c[j].calls = {}
      BY <2>4
  <2> QED BY <2>5
<1>7. Max(asking) = t
  <2>1. \A x \in asking : x \in Int
      OBVIOUS
  <2>2. \A x \in asking : (\A y \in asking : x >= y) => x = t
      BY <1>2, <1>5, <1>6, <2>1
  <2>3. \A y \in asking : t >= y
      BY <1>2, <1>6, <2>1
  <2> HIDE DEF asking
  <2> QED BY <1>5, <2>2, <2>3 DEF Max
<1>8. \A k \in DOMAIN calls : calls[k].id = id => k = h
    BY <1>4
<1>9. (CHOOSE k \in DOMAIN calls : calls[k].id = id) = h
    BY <1>4, <1>8
<1>10. NameAmong(c, 1 .. i, c[i].answers) =
         IF asking = {} THEN NoValue
         ELSE c[Max(asking)].calls[CHOOSE k \in DOMAIN c[Max(asking)].calls :
                                      c[Max(asking)].calls[k].id = c[i].answers].name
    BY Zenon DEF NameAmong
<1>11. NameAmong(c, 1 .. i, c[i].answers) = calls[CHOOSE k \in DOMAIN calls : calls[k].id = id].name
  <2>1. asking # {}
      BY <1>5
  <2> HIDE DEF asking
  <2> QED BY <1>3, <1>7, <1>10, <2>1, Zenon
<1> QED BY <1>3, <1>9, <1>11, Zenon

LEMMA TurnIsBefore ==
    ASSUME NEW l, NEW K, TalkSound(convo, l, K), NEW i \in 1 .. Len(convo), NEW t \in 1 .. i - 1,
           AnswersTo(convo, t, i)
    PROVE  TurnBefore(i) = t /\ Answered(i) = convo[t].calls[i - t]
<1> DEFINE turns == {j \in 1 .. i : convo[j].role = "assistant"}
<1>1. i \in Nat /\ t \in Nat /\ t \in 1 .. i /\ \A x \in turns : x \in Nat
    OBVIOUS
<1>2. t \in turns
    BY <1>1 DEF AnswersTo
<1>3. ASSUME NEW j \in turns PROVE t >= j
  <2>1. SUFFICES ASSUME j > t PROVE FALSE
      BY <1>1
  <2>2. j \in t + 1 .. i
      BY <1>1, <2>1
  <2>3. convo[j].role = "tool"
      BY <2>2 DEF AnswersTo
  <2>4. convo[j].role = "assistant"
      OBVIOUS
  <2> QED BY <2>3, <2>4
<1> HIDE DEF turns
<1>4. Max(turns) = t
  <2>1. \A x \in turns : (\A y \in turns : x >= y) => x = t
      BY <1>1, <1>2, <1>3
  <2> QED BY <1>2, <1>3, <2>1 DEF Max
<1>5. TurnBefore(i) = t
    BY <1>4 DEF TurnBefore, turns
<1> QED BY <1>5 DEF Answered

LEMMA ContentIs ==
    ASSUME NEW content \in Contents \cup {Empty}
    PROVE  /\ content.blocks \in {<<>>, <<"text">>, <<"text", "image">>}
           /\ content.blocks = <<>> <=> content = Empty
BY DEF Contents, Empty, Content

LEMMA TextIsKept ==
    ASSUME NEW content \in Contents \cup {Empty}
    PROVE  /\ TextOnly(content).list = FALSE
           /\ TextOnly(content).blocks = <<>> <=> content = Empty
<1>1. PICK b, S : b = content.blocks /\ S = {k \in DOMAIN b : b[k] = "text"}
    OBVIOUS
<1>2. TextOnly(content) = [list |-> FALSE, blocks |-> [i \in 1 .. Cardinality(S) |-> "text"]]
    BY <1>1 DEF TextOnly, OfKind, Content
<1>3. CASE b = <<>>
  <2>1. S = {}
      BY <1>1, <1>3
  <2>2. Cardinality(S) = 0
      BY <2>1, FS_EmptySet
  <2>3. TextOnly(content).blocks = <<>>
      BY <1>2, <2>2
  <2>4. content = Empty
      BY <1>1, <1>3, ContentIs
  <2>5. TextOnly(content).list = FALSE
      BY <1>2
  <2> QED BY <2>3, <2>4, <2>5
<1>4. CASE b = <<"text">> \/ b = <<"text", "image">>
  <2>1. S = {1}
      BY <1>1, <1>4
  <2>2. Cardinality(S) = 1
      BY <2>1, FS_Singleton
  <2>3. TextOnly(content).blocks # <<>>
    <3>1. PICK f : f = [i \in 1 .. 1 |-> "text"]
        OBVIOUS
    <3>2. 1 \in DOMAIN f
        BY <3>1
    <3>3. f # <<>>
        BY <3>2
    <3> QED BY <1>2, <2>2, <3>1, <3>3
  <2>4. b # <<>>
      BY <1>4
  <2>5. content # Empty
      BY <1>1, <2>4, ContentIs
  <2>6. TextOnly(content).list = FALSE
      BY <1>2
  <2> QED BY <2>3, <2>5, <2>6
<1> QED BY <1>1, <1>3, <1>4, ContentIs

\* The parts of a result.
ShowsItsImages(c, i) ==
    /\ ResponseParts(c, i)[1].name = Named(c, i)
    /\ Cardinality({k \in DOMAIN ResponseParts(c, i) : ResponseParts(c, i)[k].kind = "image"})
         = Cardinality({k \in DOMAIN c[i].content.blocks : c[i].content.blocks[k] = "image"})

LEMMA ResponseIs ==
    ASSUME NEW c, NEW i, c[i].content \in Contents \cup {Empty}
    PROVE  ShowsItsImages(c, i)
<1>1. PICK b, S, n, p, first, rest :
        /\ b = c[i].content.blocks /\ S = {k \in DOMAIN b : b[k] = "image"} /\ n = Cardinality(S)
        /\ p = ResponseParts(c, i) /\ first = Part("response", Named(c, i), NoValue)
        /\ rest = [k \in 1 .. n |-> Plain("image")]
    OBVIOUS
<1>2. n \in Nat
  <2>1. b \in {<<>>, <<"text">>, <<"text", "image">>}
      BY <1>1, ContentIs
  <2>2. DOMAIN b \subseteq 1 .. 2
      BY <2>1
  <2>3. IsFiniteSet(1 .. 2)
    <3>1. PICK two \in Nat : two = 2
        OBVIOUS
    <3>2. IsFiniteSet(1 .. two)
        BY FS_Interval
    <3> QED BY <3>1, <3>2
  <2>4. IsFiniteSet(S)
      BY <1>1, <2>2, <2>3, FS_Subset
  <2> QED BY <1>1, <2>4, FS_CardinalityType
<1>3. p = <<first>> \o rest
  <2>1. PICK f : f = [k \in 1 .. n |-> "image"]
      OBVIOUS
  <2>2. OfKind(b, "image") = f
      BY <1>1, <2>1 DEF OfKind
  <2>3. PICK d : d = Content(TRUE, f)
      OBVIOUS
  <2>4. d.blocks = f
      BY <2>3 DEF Content
  <2>5. ContentParts(d) = rest
      BY <1>1, <2>1, <2>4 DEF ContentParts
  <2>6. p = <<first>> \o ContentParts(Content(TRUE, OfKind(b, "image")))
      BY <1>1, Zenon DEF ResponseParts
  <2> QED BY <2>2, <2>3, <2>5, <2>6
<1>4. PICK x : x = Plain("image")
    OBVIOUS
<1>5. first.kind = "response" /\ first.name = Named(c, i) /\ x.kind = "image"
    BY <1>1, <1>4 DEF Part, Plain
<1>6. rest \in Seq({x, first}) /\ Len(rest) = n /\ \A k \in 1 .. n : rest[k] = x
    BY <1>1, <1>2, <1>4
<1>7. /\ DOMAIN p = 1 .. n + 1 /\ p[1] = first
      /\ \A k \in 2 .. n + 1 : p[k] = x
  <2>1. <<first>> \in Seq({x, first}) /\ Len(<<first>>) = 1 /\ <<first>>[1] = first
      OBVIOUS
  <2>2. p \in Seq({x, first}) /\ Len(p) = n + 1
      BY <1>2, <1>3, <1>6, <2>1
  <2>3. p[1] = first
      BY <1>2, <1>3, <1>6, <2>1
  <2>4. ASSUME NEW k \in 2 .. n + 1 PROVE p[k] = x
    <3>1. k - 1 \in 1 .. n /\ k \in 1 .. n + 1 /\ k > 1
        BY <1>2
    <3>2. p[k] = rest[k - 1]
        BY <1>2, <1>3, <1>6, <2>1, <3>1
    <3> QED BY <1>6, <3>1, <3>2
  <2>5. DOMAIN p = 1 .. n + 1
      BY <2>2, LenProperties
  <2> QED BY <2>3, <2>4, <2>5
<1>8. {k \in DOMAIN p : p[k].kind = "image"} = 2 .. n + 1
  <2>1. \A k \in 1 .. n + 1 : p[k].kind = "image" <=> k \in 2 .. n + 1
    <3>1. SUFFICES ASSUME NEW k \in 1 .. n + 1 PROVE p[k].kind = "image" <=> k \in 2 .. n + 1
        OBVIOUS
    <3>2. k = 1 \/ k \in 2 .. n + 1
        BY <1>2
    <3>3. 1 \notin 2 .. n + 1
        BY <1>2
    <3> QED BY <1>5, <1>7, <3>2, <3>3
  <2>2. 2 .. n + 1 \subseteq 1 .. n + 1
      BY <1>2
  <2> QED BY <1>7, <2>1, <2>2
<1>9. Cardinality(2 .. n + 1) = n
    BY <1>2, FS_Interval
<1>10. p[1].name = Named(c, i)
    BY <1>5, <1>7
<1>11. Cardinality({k \in DOMAIN p : p[k].kind = "image"}) = n
    BY <1>8, <1>9
<1> QED BY <1>1, <1>10, <1>11, Zenon DEF ShowsItsImages

LEMMA Behind ==
    ASSUME NEW P, NEW a \in Seq(P), NEW b \in Seq(P)
    PROVE  /\ DOMAIN (a \o b) = 1 .. Len(a) + Len(b) /\ Len(a) \in Nat /\ Len(b) \in Nat
           /\ \A k \in 1 .. Len(a) : (a \o b)[k] = a[k]
           /\ \A k \in 1 .. Len(b) : (a \o b)[Len(a) + k] = b[k]
<1>1. a \o b \in Seq(P) /\ Len(a \o b) = Len(a) + Len(b)
    OBVIOUS
<1>2. DOMAIN (a \o b) = 1 .. Len(a) + Len(b)
    BY <1>1, LenProperties
<1>3. \A k \in 1 .. Len(a) : (a \o b)[k] = a[k]
    OBVIOUS
<1>4. \A k \in 1 .. Len(b) : (a \o b)[Len(a) + k] = b[k]
    OBVIOUS
<1> QED BY <1>2, <1>3, <1>4, LenProperties

\* The parts of a turn of the model.
SignaturesAre(parts, K) ==
    \A k \in DOMAIN parts :
        parts[k].kind = "call" =>
            parts[k].signature = IF parts[k].name \in K THEN parts[k].name ELSE NoValue

ModelParts(m) == ContentParts(m.content) \o [k \in DOMAIN m.calls |-> CallPart(m.calls[k])]

LEMMA SignaturesGo ==
    ASSUME NEW m \in NeutralMessages, NEW l, NEW K, CallsSound(m.calls, l, K), NEW parts,
           parts = ModelParts(m)
    PROVE  SignaturesAre(parts, K)
<1>1. PICK a, b, P, calls : /\ a = ContentParts(m.content) /\ calls = m.calls
                            /\ b = [k \in DOMAIN m.calls |-> CallPart(m.calls[k])]
                            /\ P = {a[k] : k \in DOMAIN a} \cup {b[k] : k \in DOMAIN b}
    OBVIOUS
<1>2. calls \in Seq(CallRecords) /\ DOMAIN calls = 1 .. Len(calls) /\ Len(calls) \in Nat
  <2>1. calls \in Seq(CallRecords)
      BY <1>1 DEF CallsSound
  <2> QED BY <2>1, LenProperties
<1>3. b = [k \in 1 .. Len(calls) |-> CallPart(calls[k])]
    BY <1>1, <1>2
<1>4. /\ b \in Seq(P) /\ Len(b) = Len(calls)
      /\ \A k \in 1 .. Len(b) : b[k] = CallPart(calls[k])
  <2>1. b \in [1 .. Len(calls) -> P]
      BY <1>1, <1>3
  <2> QED BY <1>2, <1>3, <2>1
<1>5. /\ a \in Seq(P) /\ Len(a) \in Nat
      /\ \A k \in 1 .. Len(a) : a[k].kind # "call"
  <2>1. PICK blocks : blocks = m.content.blocks
      OBVIOUS
  <2>2. blocks \in {<<>>, <<"text">>, <<"text", "image">>}
      BY <2>1, NeutralFields, ContentIs
  <2>3. PICK n \in Nat : DOMAIN blocks = 1 .. n /\ \A k \in 1 .. n : blocks[k] \in {"text", "image"}
    <3>1. CASE blocks = <<>>
        BY <3>1
    <3>2. CASE blocks = <<"text">>
        BY <3>2
    <3>3. CASE blocks = <<"text", "image">>
        BY <3>3
    <3> QED BY <2>2, <3>1, <3>2, <3>3
  <2>4. a = [k \in 1 .. n |-> Plain(blocks[k])]
      BY <1>1, <2>1, <2>3 DEF ContentParts
  <2>5. a \in [1 .. n -> P]
      BY <1>1, <2>4
  <2>6. \A k \in 1 .. n : a[k].kind = blocks[k]
      BY <2>4 DEF Plain, Part
  <2>7. a \in Seq(P) /\ Len(a) = n
      BY <2>4, <2>5
  <2> QED BY <2>3, <2>6, <2>7
<1>6. ASSUME NEW k \in DOMAIN parts, parts[k].kind = "call"
      PROVE  parts[k].signature = IF parts[k].name \in K THEN parts[k].name ELSE NoValue
  <2>1. parts = a \o b
      BY <1>1, Zenon DEF ModelParts
  <2>2. a \in Seq(P) /\ b \in Seq(P)
      BY <1>4, <1>5
  <2>p. /\ DOMAIN parts = 1 .. Len(a) + Len(b) /\ Len(a) \in Nat /\ Len(b) \in Nat
        /\ \A j \in 1 .. Len(a) : parts[j] = a[j]
        /\ \A j \in 1 .. Len(b) : parts[Len(a) + j] = b[j]
    <3>1. /\ DOMAIN (a \o b) = 1 .. Len(a) + Len(b) /\ Len(a) \in Nat /\ Len(b) \in Nat
          /\ \A j \in 1 .. Len(a) : (a \o b)[j] = a[j]
          /\ \A j \in 1 .. Len(b) : (a \o b)[Len(a) + j] = b[j]
        BY <2>2, Behind
    <3>2. parts = a \o b
        BY <2>1
    <3> QED BY <3>1, <3>2, Zenon
  <2>3. k \in 1 .. Len(a) + Len(b) /\ Len(b) \in Nat
      BY <2>p
  <2>4. ~ (k <= Len(a))
    <3>1. SUFFICES ASSUME k <= Len(a) PROVE FALSE
        OBVIOUS
    <3>2. k \in 1 .. Len(a)
        BY <1>5, <2>3, <3>1
    <3>3. parts[k] = a[k]
        BY <2>p, <3>2
    <3> QED BY <1>5, <1>6, <3>2, <3>3
  <2>5. PICK h : h = k - Len(a)
      OBVIOUS
  <2>6. h \in 1 .. Len(b) /\ k = Len(a) + h
      BY <1>5, <2>3, <2>4, <2>5
  <2>7. parts[k] = b[h]
      BY <2>p, <2>6
  <2>8. parts[k].name = calls[h].name /\ parts[k].signature = calls[h].signature
    <3>1. b[h] = CallPart(calls[h])
        BY <1>4, <2>6
    <3> QED BY <2>7, <3>1 DEF CallPart, Part
  <2>9. calls[h].signature = IF calls[h].name \in K THEN calls[h].name ELSE NoValue
      BY <1>1, <1>4, <2>6 DEF CallsSound
  <2> QED BY <2>8, <2>9
<1> QED BY <1>6 DEF SignaturesAre

LEMMA PartsAre ==
    ASSUME NEW c, Talk(c), NEW i \in 1 .. Len(c)
    PROVE  /\ c[i].role = "tool" => GeminiContents(c)[i].parts = ResponseParts(c, i)
           /\ c[i].role = "assistant" => GeminiContents(c)[i].parts = ModelParts(c[i])
<1>1. DOMAIN c = 1 .. Len(c)
    BY LenProperties DEF Talk
<1>2. ASSUME c[i].role # "system"
      PROVE  GeminiContents(c)[i].parts = GeminiParts(c, i)
  <2>1. i \in Dialogue(c)
      BY <1>1, <1>2 DEF Dialogue
  <2>2. GeminiContents(c)[i] = [role |-> IF c[i].role = "assistant" THEN "model" ELSE "user",
                                parts |-> GeminiParts(c, i)]
      BY <2>1 DEF GeminiContents
  <2> QED BY <2>2
<1>3. ASSUME c[i].role = "tool" PROVE GeminiParts(c, i) = ResponseParts(c, i)
    BY <1>3, Zenon DEF GeminiParts
<1>4. ASSUME c[i].role = "assistant" PROVE GeminiParts(c, i) = ModelParts(c[i])
  <2>1. c[i].role # "tool"
      BY <1>4
  <2> QED BY <2>1, Zenon DEF GeminiParts, ModelParts
<1> QED BY <1>2, <1>3, <1>4

LEMMA RequestsAreSound ==
    AdapterIInv => RequestsAreFaithful
<1>1. SUFFICES ASSUME AdapterIInv, stream.at = "asks", NEW i \in DOMAIN convo
               PROVE
        LET contents == GeminiContents(convo)
            flat == ChatMessages(convo, "deepseek")
            Images(content) == {k \in DOMAIN content.blocks : content.blocks[k] = "image"}
            Shown(parts) == {k \in DOMAIN parts : parts[k].kind = "image"} IN
            /\ convo[i].role = "tool" =>
                /\ contents[i].parts[1].name = Answered(i).name
                /\ Cardinality(Shown(contents[i].parts)) = Cardinality(Images(convo[i].content))
            /\ convo[i].role = "assistant" => \A k \in DOMAIN contents[i].parts :
                LET part == contents[i].parts[k] IN
                part.kind = "call" =>
                    part.signature = IF part.name \in signed THEN part.name ELSE NoValue
            /\ ~flat[i].content.list
            /\ flat[i].content.blocks = <<>> <=> convo[i].content = Empty
            /\ flat[i].reasoning = convo[i].reasoning
    BY DEF RequestsAreFaithful
<1>2. PICK l : l = LastTurn(stream)
    OBVIOUS
<1>3. TalkSound(convo, l, signed)
    BY <1>1, <1>2 DEF AdapterIInv
<1>4. Talk(convo) /\ i \in 1 .. Len(convo)
    BY <1>1, <1>3, LenProperties DEF TalkSound, Talk
<1>5. PICK m : m = convo[i]
    OBVIOUS
<1>6. m \in NeutralMessages
    BY <1>4, <1>5, NeutralIn
<1>7. m.content \in Contents \cup {Empty} /\ m.reasoning \in BOOLEAN
    BY <1>6, NeutralFields
<1>8. ASSUME convo[i].role = "tool"
      PROVE  /\ GeminiContents(convo)[i].parts[1].name = Answered(i).name
             /\ Cardinality({k \in DOMAIN GeminiContents(convo)[i].parts :
                                GeminiContents(convo)[i].parts[k].kind = "image"})
                  = Cardinality({k \in DOMAIN convo[i].content.blocks : convo[i].content.blocks[k] = "image"})
  <2>1. PICK t \in 1 .. i - 1 : AnswersTo(convo, t, i)
      BY <1>3, <1>4, <1>8 DEF TalkSound
  <2>2. Answered(i) = convo[t].calls[i - t]
      BY <1>3, <1>4, <2>1, TurnIsBefore
  <2>3. NameAmong(convo, 1 .. i, convo[i].answers) = convo[t].calls[i - t].name
      BY <1>3, <1>4, <2>1, ResultIsNamed
  <2>4. Named(convo, i) = Answered(i).name
      BY <2>2, <2>3, Zenon DEF Named
  <2>5. GeminiContents(convo)[i].parts = ResponseParts(convo, i)
      BY <1>4, <1>8, PartsAre
  <2>6. convo[i].content \in Contents \cup {Empty}
      BY <1>5, <1>7
  <2>7. /\ ResponseParts(convo, i)[1].name = Named(convo, i)
        /\ Cardinality({k \in DOMAIN ResponseParts(convo, i) : ResponseParts(convo, i)[k].kind = "image"})
             = Cardinality({k \in DOMAIN convo[i].content.blocks : convo[i].content.blocks[k] = "image"})
    <3>1. ShowsItsImages(convo, i)
        BY <2>6, ResponseIs
    <3> QED BY <3>1, Zenon DEF ShowsItsImages
  <2> QED BY <2>4, <2>5, <2>7, Zenon
<1>9. ASSUME convo[i].role = "assistant"
      PROVE  \A k \in DOMAIN GeminiContents(convo)[i].parts :
                GeminiContents(convo)[i].parts[k].kind = "call" =>
                    GeminiContents(convo)[i].parts[k].signature =
                        IF GeminiContents(convo)[i].parts[k].name \in signed
                        THEN GeminiContents(convo)[i].parts[k].name ELSE NoValue
  <2>1. PICK parts : parts = GeminiContents(convo)[i].parts
      OBVIOUS
  <2>2. parts = ModelParts(m)
      BY <1>4, <1>5, <1>9, <2>1, PartsAre
  <2>3. PICK K : K = signed
      OBVIOUS
  <2>4. CallsSound(m.calls, l, K)
      BY <1>3, <1>4, <1>5, <2>3 DEF TalkSound
  <2>5. \A k \in DOMAIN parts :
            parts[k].kind = "call" =>
               parts[k].signature = IF parts[k].name \in K THEN parts[k].name ELSE NoValue
    <3>1. SignaturesAre(parts, K)
        BY <1>6, <2>2, <2>4, SignaturesGo
    <3> QED BY <3>1 DEF SignaturesAre
  <2> QED BY <2>1, <2>3, <2>5
<1>10. /\ ~ ChatMessages(convo, "deepseek")[i].content.list
       /\ ChatMessages(convo, "deepseek")[i].content.blocks = <<>> <=> convo[i].content = Empty
       /\ ChatMessages(convo, "deepseek")[i].reasoning = convo[i].reasoning
  <2>1. PICK f, t : f = ChatMessages(convo, "deepseek")[i] /\ t = TextOnly(m.content)
      OBVIOUS
  <2>2. f = ChatMessage(m, "deepseek")
      BY <1>1, <1>5, <2>1 DEF ChatMessages
  <2>3. f.content = t /\ f.reasoning = m.reasoning
      BY <1>7, <2>1, <2>2 DEF ChatMessage
  <2>4. t.list = FALSE /\ (t.blocks = <<>> <=> m.content = Empty)
      BY <1>7, <2>1, TextIsKept
  <2> QED BY <1>5, <2>1, <2>3, <2>4
<1> QED BY <1>8, <1>9, <1>10

\* The calls of a turn the model finished are those it meant, in its order, and whichever
\* provider is asked next is told of every call and its result (openai.py, gemini.py).
THEOREM AdaptersAreFaithful == AdapterSpec => [](CallsAreTheModels /\ RequestsAreFaithful)
BY AdapterInvariant, CallsAreMeant, RequestsAreSound, PTL

LEMMA AdaptersStayTyped == AdapterIInv => AdapterTypeOK
<1> SUFFICES ASSUME AdapterIInv PROVE AdapterTypeOK
    OBVIOUS
<1>1. ASSUME NEW i \in DOMAIN convo
      PROVE  /\ convo[i].role \in {"system", "user", "assistant", "tool"}
             /\ convo[i].content \in Contents \cup {Empty} /\ convo[i].reasoning \in BOOLEAN
             /\ \A k \in DOMAIN convo[i].calls : convo[i].calls[k].args \in {"given", "none"}
  <2>1. Talk(convo)
      BY DEF AdapterIInv, TalkSound
  <2>2. i \in 1 .. Len(convo)
      BY <2>1 DEF Talk
  <2>3. PICK m \in NeutralMessages : m = convo[i]
      BY <2>1, <2>2, NeutralIn
  <2>4. ASSUME NEW k \in DOMAIN m.calls
        PROVE  m.calls[k].args \in {"given", "none"}
    <3>1. m.calls \in Seq(CallRecords)
        BY NeutralFields
    <3>2. m.calls[k] \in CallRecords
        BY <3>1, CallIn
    <3> QED BY <3>2, CallFields
  <2> QED BY <2>3, <2>4, NeutralFields
<1>2. /\ stream.at \in {"idle", "asks", "streams"} /\ stream.provider \in Providers
      /\ \A i \in DOMAIN stream.meant : stream.heard[i] \in 0 .. stream.meant[i].pieces + 1
  <2>1. PICK s : s = stream
      OBVIOUS
  <2>2. s \in Streams /\ Len(s.heard) = Len(s.meant)
      BY <2>1 DEF AdapterIInv, StreamSound
  <2>3. /\ s.at \in {"idle", "asks", "streams"} /\ s.provider \in Providers
        /\ s.meant \in Seq([pieces : Nat, named : BOOLEAN]) /\ s.heard \in Seq(Nat)
      BY <2>2 DEF Streams
  <2>4. ASSUME NEW i \in DOMAIN s.meant
        PROVE  s.heard[i] \in 0 .. s.meant[i].pieces + 1
    <3>1. i \in 1 .. Len(s.meant) /\ i \in 1 .. Len(s.heard)
        BY <2>2, <2>3
    <3>2. s.heard[i] \in Nat /\ s.meant[i] \in [pieces : Nat, named : BOOLEAN]
        BY <2>3, <3>1, ElementOfSeq
    <3>3. s.heard[i] <= s.meant[i].pieces + 1
        BY <2>1, <3>1 DEF AdapterIInv, StreamSound
    <3> QED BY <3>2, <3>3
  <2> QED BY <2>1, <2>3, <2>4
<1> QED BY <1>1, <1>2 DEF AdapterTypeOK

--------------------------------------------------------------------------------
(* The session: the loop and the adapters together.                             *)

\* The inductive invariant of the agent's loop, for every number of retries, turns, tools,
\* runs and messages kept.
THEOREM AgentInvariant == AgentSpec => []AgentIInv
<1>1. AgentInit => AgentIInv
    BY AgentStarts, AgentAssumption
<1>2. AgentIInv /\ [AgentNext]_agentVars => AgentIInv'
    BY AgentStep, AgentAssumption
<1> QED BY <1>1, <1>2, PTL DEF AgentSpec

\* The loop and the adapters keep their types.
THEOREM SessionsStayTyped == SessionsSpec => [](AgentTypeOK /\ AdapterTypeOK)
<1>1. AgentIInv => AgentTypeOK
    BY AgentHolds, AgentAssumption
<1> QED BY <1>1, AdaptersStayTyped, AgentInvariant, AdapterInvariant, PTL DEF SessionsSpec

\* What a session stores can be handed to a provider again, tools that acted are not run
\* again behind the consumer's back, and what the adapters make of both is faithful
\* (core.py, session.py, adapters/openai.py, adapters/gemini.py).
THEOREM RunsCanAlwaysBeTrusted == SessionsSpec => []RunsCanBeTrusted
<1>1. AgentIInv => TranscriptsReplay /\ StreamsActOnce
    BY AgentHolds, AgentAssumption
<1>2. AgentSpec => [](TranscriptsReplay /\ StreamsActOnce)
    BY <1>1, AgentInvariant, PTL
<1> QED BY <1>2, AdaptersAreFaithful, PTL DEF SessionsSpec, RunsCanBeTrusted

--------------------------------------------------------------------------------
(* Reading.  The impressions of a file are one reading, and a reader at work goes on *)
(* from a version that is still there and is not its own request's.                *)

Impressions == [request : Requests, start : Nat, pages : Nat, status : {"finished", "reading"}]

Readers == [pc : {"off", "fetch", "read", "write", "settle"}, base : Nat, start : Nat, frontier : Nat,
            calls : 0 .. MaxReads, ended : BOOLEAN]

\* The impressions of one file: one reading, and no version after its own.
OneReading(s, total) ==
    /\ s \in Seq(Impressions)
    /\ \A i \in 1 .. Len(s) :
        /\ s[i].start = (IF i = 1 THEN 0 ELSE s[i - 1].pages)
        /\ s[i].pages > s[i].start \/ s[i].status = "finished"
        /\ s[i].pages <= total
        /\ s[i].status = "finished" => s[i].pages = total
        /\ i > 1 => s[i].request # s[i - 1].request

\* A reader goes on from the version it read, which is not its own request's.
GoesOn(r, x, s, total) ==
    /\ x.base <= Len(s)
    /\ x.start = (IF x.base = 0 THEN 0 ELSE s[x.base].pages)
    /\ x.base > 0 => s[x.base].request # r
    /\ x.start <= x.frontier /\ x.frontier <= total
    /\ x.ended => x.frontier = total
    /\ x.pc = "write" => x.ended \/ x.frontier > x.start

Length(t, f) == Len(Paginate(t[f]))

ReaderSound(r, x, d, s, total) ==
    /\ x.pc = "off" => x = NotReading
    /\ x.pc # "off" => d = "queued" /\ GoesOn(r, x, s, total)

ReadingSound(t, w, d, rd, im) ==
    /\ t \in [Files -> Texts]
    /\ w \in [Requests -> Files \cup {NoFile}]
    /\ d \in [Requests -> {"none", "queued", "done", "parked"}]
    /\ rd \in [Requests -> Readers]
    /\ DOMAIN im = Files
    /\ \A f \in Files : OneReading(im[f], Length(t, f))
    /\ \A r \in Requests : d[r] # "none" => w[r] \in Files
    /\ \A r \in Requests : ReaderSound(r, rd[r], d[r], im[w[r]], Length(t, w[r]))

ReadingIInv == ReadingSound(text, wanted, delivery, reader, impressions)

LEMMA ReaderFields ==
    ASSUME NEW x \in Readers
    PROVE  /\ x.pc \in {"off", "fetch", "read", "write", "settle"} /\ x.base \in Nat /\ x.start \in Nat
           /\ x.frontier \in Nat /\ x.calls \in 0 .. MaxReads /\ x.ended \in BOOLEAN
           /\ x = [pc |-> x.pc, base |-> x.base, start |-> x.start, frontier |-> x.frontier,
                   calls |-> x.calls, ended |-> x.ended]
BY DEF Readers

LEMMA NobodyReads ==
    ASSUME ReadingAssumption
    PROVE  /\ NotReading \in Readers /\ NotReading.pc = "off"
           /\ NotReading = [pc |-> "off", base |-> 0, start |-> 0, frontier |-> 0, calls |-> 0, ended |-> FALSE]
BY DEF NotReading, Readers, ReadingAssumption

LEMMA PagesAreCounted ==
    ASSUME ReadingAssumption, NEW t \in [Files -> Texts], NEW f \in Files
    PROVE  Length(t, f) \in Nat
<1>1. t[f] \in Texts
    OBVIOUS
<1>2. \A paras \in Texts : Len(Paginate(paras)) \in Nat
    BY DEF ReadingAssumption
<1> QED BY <1>1, <1>2, Zenon DEF Length

LEMMA ImpressionIn ==
    ASSUME NEW s, NEW total, OneReading(s, total), NEW i \in 1 .. Len(s)
    PROVE  /\ s[i] \in Impressions /\ s[i].start \in Nat /\ s[i].pages \in Nat
           /\ s[i].pages <= total
<1>1. s[i] \in Impressions
    BY ElementOfSeq DEF OneReading
<1> QED BY <1>1 DEF Impressions, OneReading

\* One reader moves, and its delivery may.
LEMMA ReaderMoves ==
    ASSUME NEW t, NEW w, NEW d, NEW rd, NEW im, ReadingSound(t, w, d, rd, im),
           NEW r \in Requests, NEW x \in Readers, NEW to \in {"none", "queued", "done", "parked"},
           to # "none" => w[r] \in Files, ReaderSound(r, x, to, im[w[r]], Length(t, w[r]))
    PROVE  ReadingSound(t, w, [d EXCEPT ![r] = to], [rd EXCEPT ![r] = x], im)
<1>1. PICK e, rf : e = [d EXCEPT ![r] = to] /\ rf = [rd EXCEPT ![r] = x]
    OBVIOUS
<1>2. /\ d \in [Requests -> {"none", "queued", "done", "parked"}] /\ rd \in [Requests -> Readers]
    BY DEF ReadingSound
<1>3. /\ e \in [Requests -> {"none", "queued", "done", "parked"}] /\ rf \in [Requests -> Readers]
      /\ e[r] = to /\ rf[r] = x
      /\ \A q \in Requests : q # r => e[q] = d[q] /\ rf[q] = rd[q]
    BY <1>1, <1>2
<1>4. ASSUME NEW q \in Requests
      PROVE  (e[q] # "none" => w[q] \in Files) /\ ReaderSound(q, rf[q], e[q], im[w[q]], Length(t, w[q]))
  <2>1. CASE q = r
      BY <1>3, <2>1
  <2>2. CASE q # r
      BY <1>3, <2>2 DEF ReadingSound
  <2> QED BY <2>1, <2>2
<1>5. ReadingSound(t, w, e, rf, im)
    BY <1>3, <1>4 DEF ReadingSound
<1> QED BY <1>1, <1>5

LEMMA NoReaderMoves ==
    ASSUME NEW t, NEW w, NEW d, NEW rd, NEW im, ReadingSound(t, w, d, rd, im), NEW r \in Requests
    PROVE  d = [d EXCEPT ![r] = d[r]] /\ rd = [rd EXCEPT ![r] = rd[r]]
BY DEF ReadingSound

\* A reader that leaves.
LEMMA ReaderLeaves ==
    ASSUME ReadingAssumption, ReadingIInv, NEW r \in Requests, NEW to \in {"queued", "done", "parked"},
           delivery[r] # "none", LeavesReading(r, to), UNCHANGED <<text, wanted, impressions>>
    PROVE  ReadingIInv'
<1>1. PICK t, w, d, rd, im : t = text /\ w = wanted /\ d = delivery /\ rd = reader /\ im = impressions
    OBVIOUS
<1>2. ReadingSound(t, w, d, rd, im) /\ w[r] \in Files
    BY <1>1 DEF ReadingIInv, ReadingSound
<1>3. /\ reader' = [rd EXCEPT ![r] = NotReading] /\ delivery' = [d EXCEPT ![r] = to]
      /\ text' = t /\ wanted' = w /\ impressions' = im
    BY <1>1 DEF LeavesReading, Step
<1>4. NotReading \in Readers /\ ReaderSound(r, NotReading, to, im[w[r]], Length(t, w[r]))
    BY NobodyReads DEF ReaderSound
<1>5. ReadingSound(t, w, [d EXCEPT ![r] = to], [rd EXCEPT ![r] = NotReading], im)
    BY <1>2, <1>4, ReaderMoves
<1> QED BY <1>3, <1>5 DEF ReadingIInv

\* A reader that goes on.
LEMMA ReaderGoesOn ==
    ASSUME ReadingAssumption, ReadingIInv, NEW r \in Requests, NEW x \in Readers,
           delivery[r] = "queued", x.pc # "off",
           GoesOn(r, x, impressions[wanted[r]], Total(wanted[r])),
           Step(r, x), UNCHANGED <<text, wanted, delivery, impressions>>
    PROVE  ReadingIInv'
<1>1. PICK t, w, d, rd, im : t = text /\ w = wanted /\ d = delivery /\ rd = reader /\ im = impressions
    OBVIOUS
<1>2. ReadingSound(t, w, d, rd, im) /\ w[r] \in Files
    BY <1>1 DEF ReadingIInv, ReadingSound
<1>3. /\ reader' = [rd EXCEPT ![r] = x] /\ delivery' = [d EXCEPT ![r] = "queued"]
      /\ text' = t /\ wanted' = w /\ impressions' = im
    BY <1>1, <1>2, NoReaderMoves DEF Step
<1>4. Total(wanted[r]) = Length(t, w[r])
    BY <1>1, Zenon DEF Total, Length
<1>5. ReaderSound(r, x, "queued", im[w[r]], Length(t, w[r]))
    BY <1>1, <1>4 DEF ReaderSound
<1>6. ReadingSound(t, w, [d EXCEPT ![r] = "queued"], [rd EXCEPT ![r] = x], im)
    BY <1>2, <1>5, ReaderMoves
<1> QED BY <1>3, <1>6 DEF ReadingIInv

\* What a reader at work knows.
LEMMA AtWork ==
    ASSUME ReadingAssumption, ReadingIInv, NEW r \in Requests, reader[r].pc # "off"
    PROVE  /\ reader[r] \in Readers /\ delivery[r] = "queued" /\ wanted[r] \in Files
           /\ GoesOn(r, reader[r], impressions[wanted[r]], Total(wanted[r]))
           /\ OneReading(impressions[wanted[r]], Total(wanted[r]))
           /\ Total(wanted[r]) \in Nat
<1>1. PICK t, w, d, rd, im : t = text /\ w = wanted /\ d = delivery /\ rd = reader /\ im = impressions
    OBVIOUS
<1>2. ReadingSound(t, w, d, rd, im)
    BY <1>1 DEF ReadingIInv
<1>3. Total(wanted[r]) = Length(t, w[r])
    BY <1>1, Zenon DEF Total, Length
<1>4. rd[r] \in Readers /\ ReaderSound(r, rd[r], d[r], im[w[r]], Length(t, w[r])) /\ rd[r].pc # "off"
    BY <1>1, <1>2 DEF ReadingSound
<1>5. d[r] = "queued" /\ GoesOn(r, rd[r], im[w[r]], Length(t, w[r]))
    BY <1>4 DEF ReaderSound
<1>6. w[r] \in Files /\ t \in [Files -> Texts]
    BY <1>2, <1>5 DEF ReadingSound
<1>7. OneReading(im[w[r]], Length(t, w[r])) /\ Length(t, w[r]) \in Nat
    BY <1>2, <1>6, PagesAreCounted DEF ReadingSound
<1> QED BY <1>1, <1>3, <1>4, <1>5, <1>6, <1>7

LEMMA BooksAreRead ==
    ASSUME ReadingAssumption, ReadingIInv, NEW r \in Requests, NEW file \in Files, ReadBook(r, file)
    PROVE  ReadingIInv'
<1>1. PICK t, w, d, rd, im : t = text /\ w = wanted /\ d = delivery /\ rd = reader /\ im = impressions
    OBVIOUS
<1>2. ReadingSound(t, w, d, rd, im)
    BY <1>1 DEF ReadingIInv
<1>3. PICK v, e : v = [w EXCEPT ![r] = file] /\ e = [d EXCEPT ![r] = "queued"]
    OBVIOUS
<1>4. /\ wanted' = v /\ delivery' = e /\ text' = t /\ reader' = rd /\ impressions' = im
      /\ w[r] = NoFile
    BY <1>1, <1>3 DEF ReadBook
<1>5. /\ w \in [Requests -> Files \cup {NoFile}]
      /\ d \in [Requests -> {"none", "queued", "done", "parked"}]
    BY <1>2 DEF ReadingSound
<1>6. /\ v \in [Requests -> Files \cup {NoFile}]
      /\ e \in [Requests -> {"none", "queued", "done", "parked"}]
      /\ v[r] = file /\ e[r] = "queued"
      /\ \A q \in Requests : q # r => v[q] = w[q] /\ e[q] = d[q]
    BY <1>3, <1>5
<1>7. w[r] \notin Files
    BY <1>4 DEF ReadingAssumption
<1>8. rd[r] = NotReading
  <2>1. d[r] = "none"
      BY <1>2, <1>5, <1>7 DEF ReadingSound
  <2>2. ReaderSound(r, rd[r], d[r], im[w[r]], Length(t, w[r]))
      BY <1>2 DEF ReadingSound
  <2> QED BY <2>1, <2>2 DEF ReaderSound
<1>9. ASSUME NEW q \in Requests
      PROVE  (e[q] # "none" => v[q] \in Files) /\ ReaderSound(q, rd[q], e[q], im[v[q]], Length(t, v[q]))
  <2>1. CASE q = r
    <3>1. ReaderSound(r, NotReading, e[r], im[v[r]], Length(t, v[r]))
        BY NobodyReads DEF ReaderSound
    <3> QED BY <1>6, <1>8, <2>1, <3>1
  <2>2. CASE q # r
      BY <1>2, <1>6, <2>2 DEF ReadingSound
  <2> QED BY <2>1, <2>2
<1>10. ReadingSound(t, v, e, rd, im)
    BY <1>2, <1>6, <1>9 DEF ReadingSound
<1> QED BY <1>4, <1>10 DEF ReadingIInv

LEMMA ReadingsBegin ==
    ASSUME ReadingAssumption, ReadingIInv, NEW r \in Requests, BeginsReading(r)
    PROVE  ReadingIInv'
<1>1. PICK f, s, n : f = wanted[r] /\ s = impressions[f] /\ n = Len(s)
    OBVIOUS
<1>2. delivery[r] = "queued" /\ f \in Files
    BY <1>1 DEF BeginsReading, ReadingIInv, ReadingSound
<1>3. OneReading(s, Total(f)) /\ Total(f) \in Nat
  <2>1. text \in [Files -> Texts] /\ OneReading(s, Length(text, f))
      BY <1>1, <1>2 DEF ReadingIInv, ReadingSound
  <2>2. Total(f) = Length(text, f)
      BY Zenon DEF Total, Length
  <2> QED BY <1>2, <2>1, <2>2, PagesAreCounted
<1>4. CASE AlreadyRead(r, f)
  <2>1. LeavesReading(r, "done")
      BY <1>1, <1>4 DEF BeginsReading
  <2> QED BY <1>2, <2>1, ReaderLeaves DEF BeginsReading
<1>5. CASE ~AlreadyRead(r, f)
  <2>1. s \in Seq(Impressions) /\ n \in Nat
      BY <1>1, <1>3 DEF OneReading
  <2>2. PICK p : p = IF s = <<>> THEN 0 ELSE s[n].pages
      OBVIOUS
  <2>3. PICK x : x = [NotReading EXCEPT !.pc = "fetch", !.base = n, !.start = p, !.frontier = p]
      OBVIOUS
  <2>4. Step(r, x) /\ UNCHANGED <<delivery, text, wanted, impressions>>
    <3>1. Step(r, [NotReading EXCEPT !.pc = "fetch", !.base = Len(impressions[f]), !.start = p,
                                     !.frontier = p])
          /\ UNCHANGED <<delivery, text, wanted, impressions>>
        BY <1>1, <1>5, <2>2 DEF BeginsReading, NewestImpression
    <3>2. n = Len(impressions[f])
        BY <1>1
    <3> QED BY <2>3, <3>1, <3>2
  <2>5. /\ p \in Nat /\ p <= Total(f) /\ p = (IF n = 0 THEN 0 ELSE s[n].pages)
        /\ n > 0 => s[n].request # r
    <3>1. CASE s = <<>>
        BY <1>1, <1>3, <2>2, <3>1
    <3>2. CASE s # <<>>
      <4>1. n > 0 /\ n \in 1 .. Len(s)
          BY <1>1, <2>1, <3>2
      <4>2. s[n].pages \in Nat /\ s[n].pages <= Total(f)
          BY <1>3, <4>1, ImpressionIn
      <4>3. s[n].request # r
          BY <1>1, <1>5, <3>2 DEF AlreadyRead, NewestImpression
      <4> QED BY <2>2, <3>2, <4>1, <4>2, <4>3
    <3> QED BY <3>1, <3>2
  <2>6. /\ x \in Readers /\ x.pc = "fetch" /\ x.base = n /\ x.start = p /\ x.frontier = p
        /\ ~x.ended
    <3>1. n \in Nat /\ p \in Nat
        BY <2>1, <2>5
    <3>2. NotReading \in Readers /\ ~NotReading.ended
        BY NobodyReads
    <3> QED BY <2>3, <3>1, <3>2 DEF Readers
  <2>7. GoesOn(r, x, s, Total(f))
      BY <1>1, <1>3, <2>1, <2>5, <2>6 DEF GoesOn
  <2> QED BY <1>1, <1>2, <2>4, <2>6, <2>7, ReaderGoesOn
<1> QED BY <1>4, <1>5

LEMMA BooksAreFetched ==
    ASSUME ReadingAssumption, ReadingIInv, NEW r \in Requests, Fetches(r)
    PROVE  ReadingIInv'
<1>1. PICK x : x = reader[r]
    OBVIOUS
<1>2. /\ x.pc = "fetch" /\ x \in Readers /\ delivery[r] = "queued"
      /\ GoesOn(r, x, impressions[wanted[r]], Total(wanted[r]))
    BY <1>1, AtWork DEF Fetches
<1>3. CASE Step(r, [x EXCEPT !.pc = "read"]) /\ UNCHANGED delivery
  <2>1. PICK y : y = [x EXCEPT !.pc = "read"]
      OBVIOUS
  <2>2. /\ y \in Readers /\ y.pc = "read" /\ y.base = x.base /\ y.start = x.start
        /\ y.frontier = x.frontier /\ y.ended = x.ended
      BY <1>2, <2>1 DEF Readers
  <2>3. GoesOn(r, y, impressions[wanted[r]], Total(wanted[r]))
      BY <1>2, <2>2 DEF GoesOn
  <2> QED BY <1>2, <1>3, <2>1, <2>2, <2>3, ReaderGoesOn DEF Fetches
<1>4. CASE LeavesReading(r, "done")
    BY <1>2, <1>4, ReaderLeaves DEF Fetches
<1> QED BY <1>1, <1>3, <1>4 DEF Fetches

LEMMA PagesAreRead ==
    ASSUME ReadingAssumption, ReadingIInv, NEW r \in Requests, Reads(r)
    PROVE  ReadingIInv'
<1>1. PICK x, total : x = reader[r] /\ total = Total(wanted[r])
    OBVIOUS
<1>2. /\ x.pc = "read" /\ x \in Readers /\ delivery[r] = "queued" /\ total \in Nat
      /\ GoesOn(r, x, impressions[wanted[r]], total)
    BY <1>1, AtWork DEF Reads
<1>3. PICK y : y = IF x.frontier < total THEN [x EXCEPT !.frontier = @ + 1, !.calls = @ + 1]
                   ELSE [x EXCEPT !.ended = TRUE]
    OBVIOUS
<1>4. Step(r, y) /\ x.calls < MaxReads
    BY <1>1, <1>3 DEF Reads
<1>5. /\ x.base \in Nat /\ x.start \in Nat /\ x.frontier \in Nat /\ x.calls \in Nat /\ MaxReads \in Nat
      /\ x.start <= x.frontier /\ x.frontier <= total
      /\ x.ended => x.frontier = total
    BY <1>2 DEF GoesOn, Readers, ReadingAssumption
<1>6. /\ y \in Readers /\ y.pc = "read" /\ y.base = x.base /\ y.start = x.start
      /\ y.frontier = (IF x.frontier < total THEN x.frontier + 1 ELSE x.frontier)
      /\ y.ended = (IF x.frontier < total THEN x.ended ELSE TRUE)
  <2>1. CASE x.frontier < total
    <3>1. y = [x EXCEPT !.frontier = x.frontier + 1, !.calls = x.calls + 1]
        BY <1>3, <2>1
    <3>2. x.calls + 1 \in 0 .. MaxReads /\ x.frontier + 1 \in Nat
        BY <1>4, <1>5
    <3> QED BY <1>2, <2>1, <3>1, <3>2 DEF Readers
  <2>2. CASE ~(x.frontier < total)
    <3>1. y = [x EXCEPT !.ended = TRUE]
        BY <1>3, <2>2
    <3> QED BY <1>2, <2>2, <3>1 DEF Readers
  <2> QED BY <2>1, <2>2
<1>7. GoesOn(r, y, impressions[wanted[r]], total)
    BY <1>2, <1>5, <1>6 DEF GoesOn
<1> QED BY <1>1, <1>2, <1>4, <1>6, <1>7, ReaderGoesOn DEF Reads

LEMMA ReadersStop ==
    ASSUME ReadingAssumption, ReadingIInv, NEW r \in Requests, Stops(r)
    PROVE  ReadingIInv'
<1>1. PICK x : x = reader[r]
    OBVIOUS
<1>2. /\ x.pc = "read" /\ x \in Readers /\ delivery[r] = "queued"
      /\ GoesOn(r, x, impressions[wanted[r]], Total(wanted[r]))
    BY <1>1, AtWork DEF Stops
<1>3. CASE (x.ended \/ x.frontier > x.start) /\ Step(r, [x EXCEPT !.pc = "write"]) /\ UNCHANGED delivery
  <2>1. PICK y : y = [x EXCEPT !.pc = "write"]
      OBVIOUS
  <2>2. /\ y \in Readers /\ y.pc = "write" /\ y.base = x.base /\ y.start = x.start
        /\ y.frontier = x.frontier /\ y.ended = x.ended
      BY <1>2, <2>1 DEF Readers
  <2>3. GoesOn(r, y, impressions[wanted[r]], Total(wanted[r]))
      BY <1>2, <1>3, <2>2 DEF GoesOn
  <2> QED BY <1>2, <1>3, <2>1, <2>2, <2>3, ReaderGoesOn DEF Stops
<1>4. CASE LeavesReading(r, "done")
    BY <1>2, <1>4, ReaderLeaves DEF Stops
<1> QED BY <1>1, <1>3, <1>4 DEF Stops

LEMMA ReadersSettle ==
    ASSUME ReadingAssumption, ReadingIInv, NEW r \in Requests, Settles(r) \/ Breaks(r) \/ Replays(r)
    PROVE  ReadingIInv'
<1>1. CASE Settles(r)
  <2>1. delivery[r] # "none" /\ LeavesReading(r, "done") /\ UNCHANGED <<text, wanted, impressions>>
      BY <1>1, AtWork DEF Settles
  <2> QED BY <2>1, ReaderLeaves
<1>2. CASE Breaks(r)
  <2>1. /\ delivery[r] # "none" /\ UNCHANGED <<text, wanted, impressions>>
        /\ LeavesReading(r, "queued") \/ LeavesReading(r, "parked")
      BY <1>2, AtWork DEF Breaks
  <2> QED BY <2>1, ReaderLeaves
<1>3. CASE Replays(r)
  <2>1. delivery[r] # "none" /\ LeavesReading(r, "queued") /\ UNCHANGED <<text, wanted, impressions>>
      BY <1>3 DEF Replays
  <2> QED BY <2>1, ReaderLeaves
<1> QED BY <1>1, <1>2, <1>3

\* A version is appended to the newest: every reading of the file goes on.
LEMMA VersionsAreAppended ==
    ASSUME NEW s, NEW total \in Nat, OneReading(s, total), NEW v \in Impressions,
           v.start = (IF Len(s) = 0 THEN 0 ELSE s[Len(s)].pages),
           v.pages > v.start \/ v.status = "finished", v.pages <= total,
           v.status = "finished" => v.pages = total,
           Len(s) > 0 => s[Len(s)].request # v.request
    PROVE  /\ OneReading(Append(s, v), total)
           /\ \A r \in Requests : \A x \in Readers :
                  GoesOn(r, x, s, total) => GoesOn(r, x, Append(s, v), total)
<1>1. PICK n, z : n = Len(s) /\ z = Append(s, v)
    OBVIOUS
<1>2. s \in Seq(Impressions) /\ n \in Nat
    BY <1>1 DEF OneReading
<1>3. /\ z \in Seq(Impressions) /\ Len(z) = n + 1 /\ z[n + 1] = v
      /\ \A i \in 1 .. n : z[i] = s[i]
    BY <1>1, <1>2
<1>4. OneReading(z, total)
  <2>1. ASSUME NEW i \in 1 .. n + 1
        PROVE  /\ z[i].start = (IF i = 1 THEN 0 ELSE z[i - 1].pages)
               /\ z[i].pages > z[i].start \/ z[i].status = "finished"
               /\ z[i].pages <= total
               /\ z[i].status = "finished" => z[i].pages = total
               /\ i > 1 => z[i].request # z[i - 1].request
    <3>1. CASE i = n + 1
      <4>1. z[i] = v /\ i - 1 = n /\ (i = 1 <=> n = 0)
          BY <1>2, <1>3, <3>1
      <4>2. n > 0 => z[i - 1] = s[n]
          BY <1>2, <1>3, <4>1
      <4> QED BY <1>1, <1>2, <4>1, <4>2
    <3>2. CASE i # n + 1
      <4>1. i \in 1 .. n /\ z[i] = s[i] /\ (i > 1 <=> i # 1) /\ (i # 1 => z[i - 1] = s[i - 1])
          BY <1>2, <1>3, <3>2
      <4>2. /\ s[i].start = (IF i = 1 THEN 0 ELSE s[i - 1].pages)
            /\ s[i].pages > s[i].start \/ s[i].status = "finished"
            /\ s[i].pages <= total
            /\ s[i].status = "finished" => s[i].pages = total
            /\ i > 1 => s[i].request # s[i - 1].request
          BY <1>1, <4>1 DEF OneReading
      <4> QED BY <4>1, <4>2
    <3> QED BY <3>1, <3>2
  <2> QED BY <1>3, <2>1 DEF OneReading
<1>5. ASSUME NEW r \in Requests, NEW x \in Readers, GoesOn(r, x, s, total)
      PROVE  GoesOn(r, x, z, total)
  <2>1. x.base \in Nat /\ x.base <= n
      BY <1>1, <1>5, ReaderFields DEF GoesOn
  <2>2. x.base <= Len(z) /\ (x.base # 0 => z[x.base] = s[x.base])
      BY <1>2, <1>3, <2>1
  <2> QED BY <1>5, <2>1, <2>2 DEF GoesOn
<1> QED BY <1>1, <1>4, <1>5

LEMMA ImpressionsAreWritten ==
    ASSUME ReadingAssumption, ReadingIInv, NEW r \in Requests, Writes(r)
    PROVE  ReadingIInv'
<1>1. PICK t, w, d, rd, im, x, y, f :
          /\ t = text /\ w = wanted /\ d = delivery /\ rd = reader /\ im = impressions
          /\ x = reader[r] /\ y = [x EXCEPT !.pc = "settle"] /\ f = wanted[r]
    OBVIOUS
<1>2. PICK total, s : total = Total(f) /\ s = im[f]
    OBVIOUS
<1>3. /\ x.pc = "write" /\ x \in Readers /\ delivery[r] = "queued" /\ total \in Nat /\ f \in Files
      /\ GoesOn(r, x, s, total) /\ OneReading(s, total)
    BY <1>1, <1>2, AtWork DEF Writes
<1>4. /\ y \in Readers /\ y.pc = "settle" /\ y.base = x.base /\ y.start = x.start
      /\ y.frontier = x.frontier /\ y.ended = x.ended
    BY <1>1, <1>3 DEF Readers
<1>5. GoesOn(r, y, s, total)
    BY <1>3, <1>4 DEF GoesOn
<1>6. Step(r, y) /\ UNCHANGED <<text, wanted, delivery>>
    BY <1>1 DEF Writes
<1>7. PICK v : v = [request |-> r, start |-> x.start, pages |-> x.frontier,
                    status |-> IF x.ended THEN "finished" ELSE "reading"]
    OBVIOUS
<1>8. impressions' = IF Len(s) = x.base THEN [im EXCEPT ![f] = Append(s, v)] ELSE im
  <2>1. impressions' = IF Stands(r, f) THEN [im EXCEPT ![f] = Append(@, v)] ELSE im
      BY <1>1, <1>7 DEF Writes
  <2>2. Stands(r, f) <=> Len(s) = x.base
      BY <1>1, <1>2 DEF Stands
  <2> QED BY <1>2, <2>1, <2>2
<1>9. CASE Len(s) # x.base
  <2>1. UNCHANGED impressions
      BY <1>1, <1>8, <1>9
  <2> QED BY <1>1, <1>2, <1>3, <1>4, <1>5, <1>6, <2>1, ReaderGoesOn
<1>10. CASE Len(s) = x.base
  <2>1. PICK z, jm, rf : z = Append(s, v) /\ jm = [im EXCEPT ![f] = z] /\ rf = [rd EXCEPT ![r] = y]
      OBVIOUS
  <2>2. ReadingSound(t, w, d, rd, im)
      BY <1>1 DEF ReadingIInv
  <2>3. /\ x.start \in Nat /\ x.frontier \in Nat /\ x.start <= x.frontier
        /\ x.frontier <= total /\ x.ended \in BOOLEAN
        /\ x.ended => x.frontier = total
        /\ x.ended \/ x.frontier > x.start
        /\ x.start = (IF Len(s) = 0 THEN 0 ELSE s[Len(s)].pages)
        /\ Len(s) > 0 => s[Len(s)].request # r
      BY <1>3, <1>10, ReaderFields DEF GoesOn
  <2>4. /\ v \in Impressions /\ v.request = r /\ v.start = x.start /\ v.pages = x.frontier
        /\ v.status = (IF x.ended THEN "finished" ELSE "reading")
      BY <1>7, <2>3 DEF Impressions
  <2>5. v.status = "finished" <=> x.ended
      BY <2>3, <2>4
  <2>6. /\ OneReading(z, total)
        /\ \A q \in Requests : \A u \in Readers : GoesOn(q, u, s, total) => GoesOn(q, u, z, total)
      BY <1>3, <2>1, <2>3, <2>4, <2>5, VersionsAreAppended
  <2>7. total = Length(t, f)
      BY <1>1, <1>2, Zenon DEF Total, Length
  <2>8. DOMAIN im = Files /\ rd \in [Requests -> Readers]
      BY <2>2 DEF ReadingSound
  <2>9. /\ DOMAIN jm = Files /\ jm[f] = z /\ (\A g \in Files : g # f => jm[g] = im[g])
        /\ rf \in [Requests -> Readers] /\ rf[r] = y
        /\ \A q \in Requests : q # r => rf[q] = rd[q]
      BY <1>3, <1>4, <2>1, <2>8
  <2>10. ASSUME NEW g \in Files
         PROVE  OneReading(jm[g], Length(t, g))
    <3>1. CASE g = f
        BY <2>6, <2>7, <2>9, <3>1
    <3>2. CASE g # f
        BY <2>2, <2>9, <3>2 DEF ReadingSound
    <3> QED BY <3>1, <3>2
  <2>11. ASSUME NEW q \in Requests
         PROVE  ReaderSound(q, rf[q], d[q], jm[w[q]], Length(t, w[q]))
    <3>1. CASE q = r
      <4>1. GoesOn(r, y, z, total)
          BY <1>4, <1>5, <2>6
      <4>2. ReaderSound(r, y, "queued", z, total)
          BY <1>4, <4>1 DEF ReaderSound
      <4> QED BY <1>1, <1>3, <2>7, <2>9, <3>1, <4>2
    <3>2. CASE q # r
      <4>1. /\ ReaderSound(q, rd[q], d[q], im[w[q]], Length(t, w[q])) /\ rf[q] = rd[q]
            /\ rd[q] \in Readers /\ (d[q] # "none" => w[q] \in Files)
          BY <2>2, <2>9, <3>2 DEF ReadingSound
      <4>2. CASE w[q] = f
          BY <1>2, <2>6, <2>7, <2>9, <4>1, <4>2 DEF ReaderSound
      <4>3. CASE w[q] # f
        <5>1. CASE rd[q].pc = "off"
            BY <4>1, <5>1 DEF ReaderSound
        <5>2. CASE rd[q].pc # "off"
          <6>1. w[q] \in Files
              BY <4>1, <5>2 DEF ReaderSound
          <6> QED BY <2>9, <4>1, <4>3, <6>1
        <5> QED BY <5>1, <5>2
      <4> QED BY <4>2, <4>3
    <3> QED BY <3>1, <3>2
  <2>12. ReadingSound(t, w, d, rf, jm)
      BY <2>2, <2>9, <2>10, <2>11 DEF ReadingSound
  <2>13. text' = t /\ wanted' = w /\ delivery' = d /\ reader' = rf /\ impressions' = jm
      BY <1>1, <1>2, <1>6, <1>8, <1>10, <2>1 DEF Step
  <2> QED BY <2>12, <2>13 DEF ReadingIInv
<1> QED BY <1>9, <1>10

LEMMA ReadingStarts == ReadingAssumption /\ ReadingInit => ReadingIInv
<1> SUFFICES ASSUME ReadingAssumption, ReadingInit
             PROVE  ReadingIInv
    OBVIOUS
<1>1. /\ text \in [Files -> Texts]
      /\ wanted \in [Requests -> Files \cup {NoFile}]
      /\ delivery \in [Requests -> {"none", "queued", "done", "parked"}]
      /\ reader \in [Requests -> Readers]
      /\ DOMAIN impressions = Files
    BY NobodyReads DEF ReadingInit
<1>2. ASSUME NEW f \in Files
      PROVE  OneReading(impressions[f], Length(text, f))
  <2>1. impressions[f] = <<>>
      BY DEF ReadingInit
  <2> QED BY <2>1 DEF OneReading
<1>3. ASSUME NEW r \in Requests
      PROVE  /\ delivery[r] # "none" => wanted[r] \in Files
             /\ ReaderSound(r, reader[r], delivery[r], impressions[wanted[r]], Length(text, wanted[r]))
  <2>1. delivery[r] = "none" /\ reader[r] = NotReading
      BY DEF ReadingInit
  <2> QED BY <2>1, NobodyReads DEF ReaderSound
<1> QED BY <1>1, <1>2, <1>3 DEF ReadingIInv, ReadingSound

LEMMA ReadingStep == ReadingAssumption /\ ReadingIInv /\ [ReadingNext]_readingVars => ReadingIInv'
<1> SUFFICES ASSUME ReadingAssumption, ReadingIInv, [ReadingNext]_readingVars
             PROVE  ReadingIInv'
    OBVIOUS
<1>1. CASE UNCHANGED readingVars
    BY <1>1 DEF readingVars, ReadingIInv
<1>2. CASE ReadingNext
  <2>1. PICK r \in Requests :
            \/ \E file \in Files : ReadBook(r, file)
            \/ BeginsReading(r) \/ Fetches(r) \/ Reads(r) \/ Stops(r) \/ Writes(r) \/ Settles(r)
            \/ Breaks(r) \/ Replays(r)
      BY <1>2 DEF ReadingNext
  <2> QED BY <2>1, BooksAreRead, ReadingsBegin, BooksAreFetched, PagesAreRead, ReadersStop,
             ImpressionsAreWritten, ReadersSettle
<1> QED BY <1>1, <1>2

LEMMA ReadingHolds ==
    ASSUME ReadingAssumption, ReadingIInv
    PROVE  ReadingTypeOK /\ ReadingCanBeTrusted
<1>1. ReadingTypeOK
  <2>1. ASSUME NEW r \in Requests
        PROVE  /\ reader[r].pc \in {"off", "fetch", "read", "write", "settle"}
               /\ reader[r].start <= reader[r].frontier /\ reader[r].calls \in 0 .. MaxReads
               /\ reader[r].pc # "off" => wanted[r] # NoFile /\ delivery[r] = "queued"
    <3>1. reader[r] \in Readers /\ (reader[r].pc = "off" => reader[r] = NotReading)
        BY DEF ReadingIInv, ReadingSound, ReaderSound
    <3>2. CASE reader[r].pc = "off"
        BY <3>1, <3>2, NobodyReads, ReaderFields
    <3>3. CASE reader[r].pc # "off"
        BY <3>1, <3>3, AtWork, ReaderFields DEF GoesOn, ReadingAssumption
    <3> QED BY <3>2, <3>3
  <2> QED BY <2>1 DEF ReadingTypeOK, ReadingIInv, ReadingSound
<1>2. ASSUME NEW f \in Files, NEW i \in DOMAIN impressions[f]
      PROVE  /\ impressions[f][i].start = (IF i = 1 THEN 0 ELSE impressions[f][i - 1].pages)
             /\ impressions[f][i].pages > impressions[f][i].start \/ impressions[f][i].status = "finished"
             /\ impressions[f][i].pages <= Total(f)
             /\ impressions[f][i].status = "finished" => impressions[f][i].pages = Total(f)
             /\ i > 1 => impressions[f][i].request # impressions[f][i - 1].request
  <2>1. PICK s, total : s = impressions[f] /\ total = Total(f)
      OBVIOUS
  <2>2. total = Length(text, f)
      BY <2>1, Zenon DEF Total, Length
  <2>3. OneReading(s, total)
      BY <2>1, <2>2 DEF ReadingIInv, ReadingSound
  <2>4. i \in 1 .. Len(s)
      BY <2>1, <2>3 DEF OneReading
  <2> QED BY <2>1, <2>3, <2>4 DEF OneReading
<1> QED BY <1>1, <1>2 DEF ReadingCanBeTrusted, ReadingIsContinuous, RepeatsNeedAnother

\* The inductive invariant of reading, for every set of files, requests and texts.
THEOREM ReadingInvariant == ReadingSpec => []ReadingIInv
BY ReadingAssumption, ReadingStarts, ReadingStep, PTL DEF ReadingSpec

\* Reading keeps its types.
THEOREM ReadingStaysTyped == ReadingSpec => []ReadingTypeOK
<1>1. ReadingIInv => ReadingTypeOK
    BY ReadingHolds, ReadingAssumption
<1> QED BY <1>1, ReadingInvariant, PTL

\* However requests overlap, die and come again, the impressions of a file are one reading,
\* and a request that is delivered again does not read on unless another wrote in between
\* (nodes/reading.py, book_impression.py).
THEOREM ReadingCanAlwaysBeTrusted == ReadingSpec => []ReadingCanBeTrusted
<1>1. ReadingIInv => ReadingCanBeTrusted
    BY ReadingHolds, ReadingAssumption
<1> QED BY <1>1, ReadingInvariant, PTL
================================================================================
