------------------------------ MODULE Watchlist ------------------------------
(***************************************************************************)
(* The watchlist file of `xlm-ns watch` (cli/src/commands/watch.rs), used  *)
(* by several processes at a time: a shell, a cron job.                    *)
(*                                                                         *)
(* A command loads the whole list, changes it and writes the whole file    *)
(* back.  There is no lock, and fs::write truncates the file before it     *)
(* writes, from the start, what it was given: a process that dies or runs  *)
(* out of space in between leaves an empty or incomplete file, and bytes   *)
(* that another process has written since the truncation stay where the    *)
(* new text is shorter.                                                    *)
(***************************************************************************)
EXTENDS Integers, Sequences, SequencesExt

CONSTANTS
    Watchers,       \* processes
    WatchedNames    \* names that are added and removed

VARIABLES
    watchfile,  \* the file: whether it exists, parses, its size and its list
    watcher,    \* the processes
    owed,       \* the names that the changes reported as done leave watched
    raced,      \* a list has been saved that was loaded before another save began
    disturbed   \* a write was cut off, or overlapped another one

watchVars == << watchfile, watcher, owed, raced, disturbed >>

\* Names have one length: the size of a list is its length, plus one for the
\* brackets.
FileOf(list) == [exists |-> TRUE, ok |-> TRUE, size |-> Len(list) + 1, list |-> list]
NoFile       == [exists |-> FALSE, ok |-> FALSE, size |-> 0, list |-> << >>]
EmptyFile    == [NoFile EXCEPT !.exists = TRUE]

\* fresh: no other process has begun to save since this one loaded its list.
Resting == [at |-> "rest", cmd |-> "list", name |-> "-", list |-> << >>, fresh |-> TRUE, result |-> "none"]

WatchInit ==
    /\ watchfile = NoFile
    /\ watcher = [p \in Watchers |-> Resting]
    /\ owed = {}
    /\ raced = FALSE
    /\ disturbed = FALSE

Busy(p)    == watcher[p].at # "rest"
Writing(p) == watcher[p].at = "writing"
Quiet      == \A p \in Watchers : ~Busy(p)

-----------------------------------------------------------------------------
\* A command starts; once none runs and the file can be read, what it holds is
\* taken for what is owed.
Begin(p, cmd, name) ==
    /\ ~Busy(p)
    /\ watcher' = [watcher EXCEPT ![p] = [Resting EXCEPT !.at = "load", !.cmd = cmd, !.name = name]]
    /\ IF Quiet /\ (watchfile.exists => watchfile.ok)
       THEN owed' = ToSet(watchfile.list) /\ raced' = FALSE /\ disturbed' = FALSE
       ELSE UNCHANGED << owed, raced, disturbed >>
    /\ UNCHANGED watchfile

End(p, result) == [watcher EXCEPT ![p] = [Resting EXCEPT !.result = result]]

\* The command's change of the list.
Changed(cmd, list, name) ==
    IF cmd = "add" THEN Append(list, name) ELSE RemoveFirst(list, name)

\* list and check only read; an add or a remove may find its work done.
NothingToDo(cmd, list, name) ==
    \/ cmd \in {"list", "check"}
    \/ cmd = "add" /\ name \in ToSet(list)
    \/ cmd = "remove" /\ name \notin ToSet(list)

\* An empty or damaged file is an error.
load_watchlist(p) ==
    LET me   == watcher[p]
        list == watchfile.list
    IN  /\ me.at = "load"
        /\ watcher' = IF watchfile.exists /\ ~watchfile.ok THEN End(p, "error")
                      ELSE IF NothingToDo(me.cmd, list, me.name) THEN End(p, "ok")
                      ELSE [watcher EXCEPT ![p].at = "save", ![p].list = Changed(me.cmd, list, me.name)]
        /\ UNCHANGED << watchfile, owed, raced, disturbed >>

\* Faulty variant: the file is opened without truncating it.
truncated_kept == IF watchfile.exists THEN watchfile ELSE EmptyFile

truncated == EmptyFile

\* save_watchlist: fs::write opens the file.
OpenToWrite(p) ==
    /\ watcher[p].at = "save"
    /\ watchfile' = truncated
    /\ watcher' = [q \in Watchers |->
          IF q = p THEN [watcher[q] EXCEPT !.at = "writing"]
          ELSE IF watcher[q].at = "save" THEN [watcher[q] EXCEPT !.fresh = FALSE] ELSE watcher[q]]
    /\ raced' = (raced \/ ~watcher[p].fresh)
    /\ disturbed' = (disturbed \/ \E q \in Watchers : Writing(q))
    /\ UNCHANGED owed

\* The file cannot be opened, to be read or to be written, or its directory cannot
\* be made.
OpenFails(p) ==
    /\ watcher[p].at \in {"load", "save"}
    /\ watcher' = End(p, "error")
    /\ UNCHANGED << watchfile, owed, raced, disturbed >>

Write(p) ==
    LET me       == watcher[p]
        new_file == FileOf(me.list)
    IN  /\ Writing(p)
        /\ watchfile' = IF new_file.size >= watchfile.size THEN new_file
                        ELSE [watchfile EXCEPT !.ok = FALSE, !.list = << >>]
        /\ watcher' = End(p, "ok")
        /\ owed' = IF me.cmd = "add" THEN owed \cup {me.name} ELSE owed \ {me.name}
        /\ UNCHANGED << raced, disturbed >>

\* A write that ends early has changed nothing yet or leaves a text that does not
\* parse, as long as what another process may have written.
cut_off(p) ==
    /\ \/ UNCHANGED watchfile
       \/ \E n \in 1 .. Len(watcher[p].list) + 1 :
             watchfile' = [EmptyFile EXCEPT !.size = IF n > watchfile.size THEN n ELSE watchfile.size]
    /\ disturbed' = TRUE

\* The disk is full, say; the file is left as it is.
WriteFails(p) ==
    /\ Writing(p)
    /\ cut_off(p)
    /\ watcher' = End(p, "error")
    /\ UNCHANGED << owed, raced >>

\* The process is killed.
Kill(p) ==
    /\ Busy(p)
    /\ IF Writing(p) THEN cut_off(p) ELSE UNCHANGED << watchfile, disturbed >>
    /\ watcher' = End(p, "none")
    /\ UNCHANGED << owed, raced >>

\* The user deletes a damaged file while no command runs.
Repair ==
    /\ Quiet
    /\ watchfile.exists /\ ~watchfile.ok
    /\ watchfile' = NoFile
    /\ owed' = {}
    /\ raced' = FALSE
    /\ disturbed' = FALSE
    /\ UNCHANGED watcher

WatchStep ==
    \/ \E p \in Watchers :
          \/ \E cmd \in {"add", "remove"}, name \in WatchedNames : Begin(p, cmd, name)
          \/ \E cmd \in {"list", "check"} : Begin(p, cmd, "-")
          \/ load_watchlist(p)
          \/ OpenToWrite(p) \/ OpenFails(p)
          \/ Write(p) \/ WriteFails(p)
          \/ Kill(p)
    \/ Repair

WatchSpec == WatchInit /\ [][WatchStep]_watchVars

-----------------------------------------------------------------------------
\* The file is damaged only by a write that was cut off, or by two at the same
\* time; a remove does not leave the tail of the longer list behind.
DamageNeedsDisturbance ==
    watchfile.exists /\ ~watchfile.ok => disturbed \/ \E p \in Watchers : Writing(p)

\* No change that was reported as done is lost, and none that was reported as
\* failed shows, of any process and any name: the file lists exactly the names
\* that are owed, each once.  What loses a change is a save of a list that was
\* loaded before another save (there is no lock), or a write that did not run
\* through on its own.
UpdatesKept ==
    ~raced /\ ~disturbed /\ (\A p \in Watchers : ~Writing(p)) =>
        ToSet(watchfile.list) = owed /\ IsInjective(watchfile.list)

\* Both: nothing reported is lost, but for a race or a disturbance, and what
\* damages the file is known.
WatchlistSound == DamageNeedsDisturbance /\ UpdatesKept
=============================================================================
