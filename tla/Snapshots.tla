------------------------------- MODULE Snapshots -------------------------------
(***************************************************************************)
(* Two copies a process keeps of what others decide: the dynamic             *)
(* configuration of its lane, a snapshot for at most TTL that any thread may  *)
(* refresh (py-shared, dynamic_config.py), and the skills, loaded again when   *)
(* their files look different (skills/registry.py, skills/loader.py).         *)
(***************************************************************************)
EXTENDS Naturals, SequencesExt, FiniteSetsExt

CONSTANTS
    Threads,        \* callers of dynamic_config.get
    Raws,           \* what a key may be set to
    TTL, MaxTime,   \* _CACHE_TTL; bound on the clock
    Dirs,           \* directories of skills, in the order of their names
    Titles,         \* names a frontmatter may give
    MaxEdits,       \* bound on edits of the files
    Missing         \* no value, no name

ASSUME SnapshotsAssumption ==
    /\ TTL \in Nat \ {0} /\ MaxTime \in Nat /\ MaxEdits \in Nat

VARIABLES
    clock,
    config,     \* the key's value at the paas-engine
    answers,    \* history: by time, what a request could be told
    cached,     \* _cache of the lane: the key in the snapshot, and its expiry
    thread,     \* get, per thread
    files,      \* SKILL.md by directory: its name, whether it has a description, its mtime
    edits,      \* how often a file was written or removed
    registry,   \* _skills: by name, the directory and the mtime it was read at
    reload,     \* skill_reload_loop: what it is at, last_snapshot and current
    unseen      \* history: a file changed between the first load and the first snapshot, or
                \* came between a snapshot and its load

configVars == <<clock, config, answers, cached, thread>>
skillVars == <<files, edits, registry, reload, unseen>>
snapshotVars == <<configVars, skillVars>>

Values == Raws \cup {Missing}
NoFile == [title |-> Missing, described |-> FALSE, mtime |-> 0]
Calm == [pc |-> "idle", since |-> 0, got |-> Missing]

SnapshotsInit ==
    /\ clock = 0 /\ config \in Values /\ answers = [t \in {0} |-> {config}]
    /\ cached = [value |-> Missing, until |-> 0]
    /\ thread = [r \in Threads |-> Calm]
    /\ files = [d \in ToSet(Dirs) |-> NoFile] /\ edits = 0 /\ registry = [n \in {} |-> NoFile]
    /\ reload = [pc |-> "boot", last |-> files, now |-> files]
    /\ unseen = FALSE

SnapshotsTypeOK ==
    /\ clock \in 0 .. MaxTime /\ config \in Values
    /\ DOMAIN answers = 0 .. clock /\ \A t \in 0 .. clock : answers[t] \subseteq Values
    /\ cached.value \in Values /\ cached.until \in 0 .. MaxTime + TTL
    /\ \A r \in Threads : thread[r].pc \in {"idle", "fetch", "store", "done"}
    /\ DOMAIN files = ToSet(Dirs) /\ edits \in 0 .. MaxEdits
    /\ \A n \in DOMAIN registry : registry[n].described
    /\ reload.pc \in {"boot", "first", "sleep", "load", "loaded"}
--------------------------------------------------------------------------------
(* Dynamic configuration.                                                   *)

Tick ==
    /\ clock < MaxTime /\ clock' = clock + 1
    /\ answers' = [t \in 0 .. clock' |-> IF t = clock' THEN {config} ELSE answers[t]]
    /\ UNCHANGED <<config, cached, thread, skillVars>>

\* An operator sets or removes the key.
Configure ==
    /\ config' \in Values \ {config}
    /\ answers' = [answers EXCEPT ![clock] = @ \cup {config'}]
    /\ UNCHANGED <<clock, cached, thread, skillVars>>

Valid == clock < cached.until

\* _get_snapshot under the lock: a valid snapshot is served, for another one goes ahead.
Asks(r) ==
    /\ thread[r].pc = "idle"
    /\ thread' = [thread EXCEPT ![r] =
           [pc |-> IF Valid THEN "done" ELSE "fetch", since |-> clock,
            got |-> IF Valid THEN cached.value ELSE Missing]]
    /\ UNCHANGED <<clock, config, answers, cached, skillVars>>

\* _fetch_snapshot without the lock; any failure is an empty snapshot.
Fetch(r) ==
    /\ thread[r].pc = "fetch"
    /\ \/ /\ thread' = [thread EXCEPT ![r] = [@ EXCEPT !.pc = "store", !.got = config]]
          /\ UNCHANGED answers
       \/ /\ thread' = [thread EXCEPT ![r] = [@ EXCEPT !.pc = "store", !.got = Missing]]
          /\ answers' = [answers EXCEPT ![clock] = @ \cup {Missing}]
    /\ UNCHANGED <<clock, config, cached, skillVars>>

\* Wrong variant: the time to live begins when the answer is stored.
ExpiryFromNow(r) == clock + TTL

\* now + _CACHE_TTL, with now taken before the request.
Expiry(r) == thread[r].since + TTL

\* The snapshot is stored, whatever another thread stored meanwhile.
Store(r) ==
    /\ thread[r].pc = "store"
    /\ cached' = [value |-> thread[r].got, until |-> Expiry(r)]
    /\ thread' = [thread EXCEPT ![r].pc = "done"]
    /\ UNCHANGED <<clock, config, answers, skillVars>>

\* get: what the snapshot lacks is the caller's default.
Answer(r) ==
    /\ thread[r].pc = "done"
    /\ thread' = [thread EXCEPT ![r] = Calm]
    /\ UNCHANGED <<clock, config, answers, cached, skillVars>>

--------------------------------------------------------------------------------
(* Skills.                                                                  *)

\* parse_skill_file: a file without a description is refused; the name is the frontmatter's
\* or the directory's.
Parses(file) == file.described
NameOf(d, file) == IF file.title = Missing THEN d ELSE file.title

\* load_all: the directories in order, those that do not parse left out, the later of two
\* with one name kept.
Loaded(fs) ==
    FoldLeft(LAMBDA skills, d :
                IF Parses(fs[d])
                  THEN [n \in DOMAIN skills \cup {NameOf(d, fs[d])} |->
                           IF n = NameOf(d, fs[d]) THEN fs[d] ELSE skills[n]]
                  ELSE skills,
             [n \in {} |-> NoFile], Dirs)

\* Somebody writes or removes a SKILL.md; every write has an mtime of its own.
Edit(d) ==
    /\ edits < MaxEdits /\ edits' = edits + 1
    /\ \E file \in {NoFile} \cup
                  [title : Titles \cup {Missing}, described : BOOLEAN, mtime : {edits'}] :
        files' = [files EXCEPT ![d] = file]
    /\ unseen' = (unseen \/ reload.pc = "first"
                    \/ (reload.pc = "load" /\ reload.now[d] = NoFile))
    /\ UNCHANGED <<configVars, registry, reload>>

\* The lifespan loads the skills, and the loop takes its first snapshot.
Boots ==
    /\ reload.pc = "boot"
    /\ registry' = Loaded(files)
    /\ reload' = [reload EXCEPT !.pc = "first"]
    /\ UNCHANGED <<configVars, files, edits, unseen>>

FirstSnapshot ==
    /\ reload.pc = "first"
    /\ reload' = [pc |-> "sleep", last |-> files, now |-> files]
    /\ UNCHANGED <<configVars, files, edits, registry, unseen>>

\* After its interval: a snapshot of the mtimes (those of the scripts left out), which differs from the last one.  One that
\* raises, or does not differ, changes nothing.
Differs ==
    /\ reload.pc = "sleep" /\ files # reload.last
    /\ reload' = [reload EXCEPT !.pc = "load", !.now = files]
    /\ UNCHANGED <<configVars, files, edits, registry, unseen>>

\* load_all, which may read later files than the snapshot saw.
Reloads ==
    /\ reload.pc = "load"
    /\ registry' = Loaded(files)
    /\ reload' = [reload EXCEPT !.pc = "loaded"]
    /\ UNCHANGED <<configVars, files, edits, unseen>>

\* Wrong variant: the snapshot remembered is one of after the load.
SeenAfter == files

\* last_snapshot: what was compared, before the load.
Seen == reload.now

Remembers ==
    /\ reload.pc = "loaded"
    /\ reload' = [reload EXCEPT !.pc = "sleep", !.last = Seen]
    /\ UNCHANGED <<configVars, files, edits, registry, unseen>>

SettingsNext ==
    \/ Tick \/ Configure
    \/ \E r \in Threads : Asks(r) \/ Fetch(r) \/ Store(r) \/ Answer(r)

SkillsNext ==
    \/ Boots \/ FirstSnapshot \/ Differs \/ Reloads \/ Remembers
    \/ \E d \in ToSet(Dirs) : Edit(d)

SnapshotsNext == SettingsNext \/ SkillsNext

SnapshotsSpec == SnapshotsInit /\ [][SnapshotsNext]_snapshotVars
--------------------------------------------------------------------------------
\* What a thread is answered was the value of its key, or a request for it failed, at most
\* TTL before it asked; however long a request takes and whichever thread stored last.
ConfigIsFresh ==
    \A r \in Threads : thread[r].pc = "done" =>
        \E t \in DOMAIN answers : t + TTL > thread[r].since /\ thread[r].got \in answers[t]

\* A registry that the next look will not change holds what the files say, unless one
\* changed before the first look, or came and went behind a later one.
SkillsAreCurrent ==
    reload.pc = "sleep" /\ files = reload.last /\ ~unseen => registry = Loaded(files)
================================================================================
