-------------------------------- MODULE Versions -------------------------------
(***************************************************************************)
(* Versioned rows (runtime/persist.py, data/session.py).                    *)
(*                                                                         *)
(* insert_append numbers the versions of a key under an advisory lock; with *)
(* expected_current_ver it writes only if the version its caller loaded is  *)
(* still the newest.  insert_idempotent writes a row once.  Each call is a  *)
(* transaction of its own: what it wrote is visible from its commit on.     *)
(***************************************************************************)
EXTENDS Naturals, FiniteSets

CONSTANTS
    Writers,    \* sessions that write
    DataKeys,   \* natural keys
    LockOf,     \* the lock of each key: keys may share one
    Free,       \* no writer
    MaxVer,     \* bound on versions
    Failures    \* bound on statements and commits that fail

VARIABLES
    table,      \* committed versions of each key: [ver, base, cas]
    once,       \* how many committed rows of insert_idempotent each key has
    lock,       \* holder of each advisory lock
    session,    \* the writers' transactions
    failures

\* There are keys and writers, finitely many of these; nobody is no writer.
ASSUME VersionsAssumption ==
    /\ DataKeys # {} /\ Writers # {} /\ IsFiniteSet(Writers)
    /\ Free \notin Writers
    /\ MaxVer \in Nat /\ Failures \in Nat

Locks == {LockOf[k] : k \in DataKeys}

\* base: the version the caller had loaded; cas: with expected_current_ver.
NoSession == [pc |-> "idle", key |-> CHOOSE k \in DataKeys : TRUE, base |-> 0,
              cas |-> FALSE, ver |-> 0, wrote |-> 0]

Vers(k) == {row.ver : row \in table[k]}
Newest(k) == IF table[k] = {} THEN 0 ELSE CHOOSE v \in Vers(k) : \A u \in Vers(k) : u <= v

\* Types; a transaction that numbers holds the lock of its key.
VersionsTypeOK ==
    /\ table \in [DataKeys -> SUBSET [ver : 1 .. MaxVer, base : 0 .. MaxVer, cas : BOOLEAN]]
    /\ once \in [DataKeys -> 0 .. Cardinality(Writers)]
    /\ lock \in [Locks -> Writers \cup {Free}]
    /\ \A w \in Writers :
        session[w].pc \in {"number", "insert", "commit"} => lock[LockOf[session[w].key]] = w

VersionsInit ==
    /\ table = [k \in DataKeys |-> {}]
    /\ once = [k \in DataKeys |-> 0]
    /\ lock = [l \in Locks |-> Free]
    /\ session = [w \in Writers |-> NoSession]
    /\ failures = 0

InSession(w, pc) == session[w].pc = pc
Goes(w, new) == session' = [session EXCEPT ![w] = [f \in DOMAIN @ |->
                               IF f \in DOMAIN new THEN new[f] ELSE @[f]]]

--------------------------------------------------------------------------------
\* A caller reads the newest version (select_latest) and then calls insert_append.
Load(w) ==
    /\ InSession(w, "idle")
    /\ \E k \in DataKeys, cas \in BOOLEAN :
        /\ Newest(k) < MaxVer
        /\ Goes(w, [pc |-> "lock", key |-> k, base |-> Newest(k), cas |-> cas])
    /\ UNCHANGED <<table, once, lock, failures>>

\* Wrong variant: each table locks for itself only in name, nobody waits.
LockUnheld(w) ==
    /\ InSession(w, "lock")
    /\ lock' = [lock EXCEPT ![LockOf[session[w].key]] = w]
    /\ Goes(w, [pc |-> "number"])
    /\ UNCHANGED <<table, once, failures>>

\* pg_advisory_xact_lock waits.
Lock(w) ==
    /\ InSession(w, "lock")
    /\ lock[LockOf[session[w].key]] = Free
    /\ lock' = [lock EXCEPT ![LockOf[session[w].key]] = w]
    /\ Goes(w, [pc |-> "number"])
    /\ UNCHANGED <<table, once, failures>>

\* MAX(ver) + 1, or expected + 1.
Number(w) ==
    /\ InSession(w, "number")
    /\ LET s == session[w] IN
       Goes(w, [pc |-> "insert", ver |-> 1 + (IF s.cas THEN s.base ELSE Newest(s.key))])
    /\ UNCHANGED <<table, once, lock, failures>>

\* Wrong variant: the version is pinned but not compared.
StaleNever(w) == FALSE

\* The WHERE of the INSERT of expected_current_ver.
Stale(w) == session[w].cas /\ Newest(session[w].key) # session[w].base

\* The INSERT; 0 rows when stale.
Insert(w) ==
    /\ InSession(w, "insert")
    /\ session[w].ver <= MaxVer
    /\ Goes(w, [pc |-> "commit", wrote |-> IF Stale(w) THEN 0 ELSE 1])
    /\ UNCHANGED <<table, once, lock, failures>>

Unlock(w) == lock' = [l \in Locks |-> IF lock[l] = w THEN Free ELSE lock[l]]

\* get_session commits; the lock goes with the transaction.
Commit(w) ==
    /\ InSession(w, "commit")
    /\ LET s == session[w] IN
       table' = IF s.wrote = 0 THEN table
                ELSE [table EXCEPT ![s.key] = @ \cup
                         {[ver |-> s.ver, base |-> s.base, cas |-> s.cas]}]
    /\ Unlock(w)
    /\ session' = [session EXCEPT ![w] = NoSession]
    /\ UNCHANGED <<once, failures>>

\* insert_idempotent: one statement, ON CONFLICT DO NOTHING.  A row another
\* transaction has inserted and not committed is waited for.
InsertOnce(w) ==
    /\ InSession(w, "idle")
    /\ \E k \in DataKeys :
        /\ \A o \in Writers : InSession(o, "once") => session[o].key # k \/ session[o].wrote = 0
        /\ Goes(w, [pc |-> "once", key |-> k, wrote |-> IF once[k] = 0 THEN 1 ELSE 0])
    /\ UNCHANGED <<table, once, lock, failures>>

CommitOnce(w) ==
    /\ InSession(w, "once")
    /\ once' = [once EXCEPT ![session[w].key] = @ + session[w].wrote]
    /\ session' = [session EXCEPT ![w] = NoSession]
    /\ UNCHANGED <<table, lock, failures>>

\* A statement or the commit fails, or the process dies: rolled back.
RollsBack(w) ==
    /\ ~InSession(w, "idle") /\ failures < Failures
    /\ failures' = failures + 1
    /\ Unlock(w)
    /\ session' = [session EXCEPT ![w] = NoSession]
    /\ UNCHANGED <<table, once>>

VersionsNext ==
    \E w \in Writers :
        \/ Load(w) \/ Lock(w) \/ Number(w) \/ Insert(w) \/ Commit(w)
        \/ InsertOnce(w) \/ CommitOnce(w) \/ RollsBack(w)

versionVars == <<table, once, lock, session, failures>>

VersionsSpec == VersionsInit /\ [][VersionsNext]_versionVars
--------------------------------------------------------------------------------
\* Whatever writers race and whatever rolls back: the versions of a key are 1 to n
\* without a gap or a duplicate, a version written with expected_current_ver
\* follows the very one its writer had loaded, and insert_idempotent leaves one row.
VersionsAreAChain ==
    \A k \in DataKeys :
        /\ Vers(k) = 1 .. Cardinality(table[k])
        /\ \A row \in table[k] : row.cas => row.base = row.ver - 1
        /\ once[k] <= 1
================================================================================
