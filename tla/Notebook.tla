-------------------------------- MODULE Notebook --------------------------------
(***************************************************************************)
(* The notebook and its reminders (domain/notebook.py, the notebook tools   *)
(* of the life round and of the bedtime review, life_schedule_reminder_node *)
(* of life_wake.py).                                                       *)
(*                                                                         *)
(* A round and a review write entries, note in a dict of their own which    *)
(* entry is to remind of itself when, and hang out one delayed tick for     *)
(* each when they end.  A tick that comes due reads its entry and is        *)
(* dropped if the entry is settled or was moved.                           *)
(***************************************************************************)
EXTENDS Naturals, FiniteSets

CONSTANTS
    Entries,        \* bound: the entries of the notebook
    MaxHour,        \* bound on time
    MaxEdits,       \* bound on edits
    NoteLimit       \* bound on each of NoteEvents

\* A writer's run fails, before or after its dict is worked off; hanging out a tick
\* fails; the node that handles a tick fails.
NoteEvents == {"run", "emit", "node"}

Writers == {"life", "review"}
Statuses == {"active", "done", "dropped"}
Times == 1 .. MaxHour
None == 0           \* remind_at = None

ASSUME NotebookAssumption ==
    /\ MaxHour \in Nat /\ NoteLimit \in [NoteEvents -> Nat]
    /\ None \notin Entries

VARIABLES
    hour,           \* now
    book,           \* entry -> its newest version; only entries written have one
    writer,         \* per writer: whether it runs, its dict, the edit under way
    ticks,          \* the delayed ticks
    nodes,          \* ticks being handled, with the entry as it was read
    reminded,       \* the reminders delivered to her mailbox
    edits,          \* edits so far
    crossed,        \* entries that two writers edited at the same time
    trouble         \* how often each of NoteEvents happened

noteVars == <<hour, book, writer, ticks, nodes, reminded, edits, crossed, trouble>>

NoEdit == [entry |-> None, old |-> None]
Unstarted == [on |-> FALSE, dict |-> <<>>, edit |-> NoEdit]
Written == DOMAIN book
Versions == [status : Statuses, remind : {None} \cup Times]

NotesTypeOK ==
    /\ hour \in 0 .. MaxHour
    /\ Written \subseteq Entries /\ \A e \in Written : book[e] \in Versions
    /\ \A w \in Writers : DOMAIN writer[w].dict \subseteq Written
    /\ ticks \subseteq [entry : Written, at : Times]
    /\ \A n \in nodes : n.tick.entry \in Written
    /\ reminded \subseteq [entry : Written, at : Times]

NotesInit ==
    /\ hour = 0
    /\ book = <<>>
    /\ writer = [w \in Writers |-> Unstarted]
    /\ ticks = {} /\ nodes = {} /\ reminded = {}
    /\ edits = 0 /\ crossed = {}
    /\ trouble = [e \in NoteEvents |-> 0]

Trouble(e) == trouble[e] < NoteLimit[e] /\ trouble' = [trouble EXCEPT ![e] = @ + 1]

With(f, e, v) == [x \in DOMAIN f \cup {e} |-> IF x = e THEN v ELSE f[x]]

TimePasses ==
    /\ hour < MaxHour
    /\ hour' = hour + 1
    /\ UNCHANGED <<book, writer, ticks, nodes, reminded, edits, crossed, trouble>>

--------------------------------------------------------------------------------
\* A life round begins, or a review: of the round that fell asleep, or of the morning.
Begins(w) ==
    /\ ~writer[w].on /\ edits < MaxEdits
    /\ writer' = [writer EXCEPT ![w] = [Unstarted EXCEPT !.on = TRUE]]
    /\ UNCHANGED <<hour, book, ticks, nodes, reminded, edits, crossed, trouble>>

\* Wrong variant: an entry that has a time in the dict keeps it.
EntersFirst(dict, e, time) == IF e \in DOMAIN dict THEN dict ELSE With(dict, e, time)

\* schedule_reminders: the last time of an entry counts, None if it was taken away.
Enters(dict, e, time) == With(dict, e, time)

\* note_todo and note_entry: one insert; only the life round has this tool.
NoteTodo ==
    /\ writer["life"].on /\ writer["life"].edit = NoEdit /\ edits < MaxEdits
    /\ \E e \in Entries \ Written, time \in {None} \cup Times :
        /\ book' = With(book, e, [status |-> "active", remind |-> time])
        /\ writer' = IF time = None THEN writer
                     ELSE [writer EXCEPT !["life"].dict = Enters(@, e, time)]
    /\ edits' = edits + 1
    /\ UNCHANGED <<hour, ticks, nodes, reminded, crossed, trouble>>

\* update_entry reads the newest version.
EditReads(w) ==
    /\ writer[w].on /\ writer[w].edit = NoEdit /\ edits < MaxEdits
    /\ edits' = edits + 1
    /\ \E e \in Written : writer' = [writer EXCEPT ![w].edit = [entry |-> e, old |-> book[e]]]
    /\ UNCHANGED <<hour, book, ticks, nodes, reminded, crossed, trouble>>

\* ... and appends one, the fields that were not given taken from what it read.
\* edit_note and tidy_notebook_entry then note the time in their dict.
EditWrites(w) ==
    /\ writer[w].edit # NoEdit
    /\ LET e == writer[w].edit.entry
           old == writer[w].edit.old
       IN /\ \E status \in {old.status} \cup Statuses, time \in {None} \cup Times, timed \in BOOLEAN :
                /\ ~timed => time = None
                /\ book' = [book EXCEPT ![e] = [status |-> status,
                                                remind |-> IF timed THEN time ELSE old.remind]]
                /\ writer' = [writer EXCEPT ![w].edit = NoEdit,
                                            ![w].dict = IF timed THEN Enters(@, e, time) ELSE @]
          /\ crossed' = IF book[e] = old THEN crossed ELSE crossed \cup {e}
    /\ nodes' = {[n EXCEPT !.moved = n.moved \/ n.tick.entry = writer[w].edit.entry] : n \in nodes}
    /\ UNCHANGED <<hour, ticks, reminded, edits, trouble>>

\* fire_schedule_reminders: one tick for each entry that has a time, at once if it is
\* past; one that cannot be sent is logged and the others go out.
Ends(w) ==
    /\ writer[w].on /\ writer[w].edit = NoEdit
    /\ LET due == {[entry |-> e, at |-> writer[w].dict[e]] :
                        e \in {d \in DOMAIN writer[w].dict : writer[w].dict[d] # None}}
       IN \/ ticks' = ticks \cup due /\ UNCHANGED trouble
          \/ \E t \in due : ticks' = ticks \cup (due \ {t}) /\ Trouble("emit")
    /\ writer' = [writer EXCEPT ![w] = Unstarted]
    /\ UNCHANGED <<hour, book, nodes, reminded, edits, crossed>>

\* The run raises, a later step of its round does, or the process dies: what it wrote
\* stays, its dict is gone.
RunFails(w) ==
    /\ writer[w].on /\ Trouble("run")
    /\ writer' = [writer EXCEPT ![w] = Unstarted]
    /\ UNCHANGED <<hour, book, ticks, nodes, reminded, edits, crossed>>

--------------------------------------------------------------------------------
\* _schedule_reminder_gate_passes.
Gate(tick, entry) == entry.status = "active" /\ entry.remind = tick.at

\* life_schedule_reminder_node reads the entry.
TickComesDue ==
    /\ \E t \in ticks :
        /\ t.at <= hour
        /\ ticks' = ticks \ {t}
        /\ nodes' = IF Gate(t, book[t.entry]) THEN nodes \cup {[tick |-> t, moved |-> FALSE]} ELSE nodes
    /\ UNCHANGED <<hour, book, writer, reminded, edits, crossed, trouble>>

\* ... and delivers it, under an id made of the entry and the time.
NodeDelivers ==
    /\ \E n \in nodes : nodes' = nodes \ {n} /\ reminded' = reminded \cup {n.tick}
    /\ UNCHANGED <<hour, book, writer, ticks, edits, crossed, trouble>>

\* A node that raises sends its tick to the dead letters.
TickFails ==
    /\ Trouble("node")
    /\ \E n \in nodes : nodes' = nodes \ {n}
    /\ UNCHANGED <<hour, book, writer, ticks, reminded, edits, crossed>>

NotesNext ==
    \/ TimePasses \/ NoteTodo \/ TickComesDue \/ NodeDelivers \/ TickFails
    \/ \E w \in Writers : Begins(w) \/ EditReads(w) \/ EditWrites(w) \/ Ends(w) \/ RunFails(w)

NotesSpec == NotesInit /\ [][NotesNext]_noteVars
--------------------------------------------------------------------------------
Quiet == \A e \in NoteEvents : trouble[e] = 0

\* Without a failure, and unless two writers edited it at once: an entry that is still
\* wanted and has its time before it will remind her then, whatever was moved, taken
\* away and set again by whom: a tick for just that time is out, or a writer will hang
\* it out.
RemindersAreOnTheirWay ==
    Quiet => \A e \in Written \ crossed :
        LET r == [entry |-> e, at |-> book[e].remind]
        IN book[e].status = "active" /\ r.at > hour =>
            \/ r \in ticks
            \/ \E w \in Writers : e \in DOMAIN writer[w].dict /\ writer[w].dict[e] = r.at

\* A reminder that arrives is due, and it is the entry's own unless the entry was edited
\* between the node's read and its delivery.
RemindersAreCurrent ==
    \A n \in nodes :
        /\ n.tick.at <= hour
        /\ ~n.moved => book[n.tick.entry] = [status |-> "active", remind |-> n.tick.at]

\* A reminder she set is on its way, and what reaches her is what the notebook says
\* (life_schedule_reminder_node, life_wake.py).
RemindersCanBeTrusted == RemindersAreOnTheirWay /\ RemindersAreCurrent
================================================================================
