------------------------------- MODULE Monitor -------------------------------
(***************************************************************************)
(* The health monitor (packages/xlm-ns-monitor): a daemon that probes the  *)
(* name service, compares a snapshot of its metrics with thresholds, sends *)
(* alerts and appends the snapshot to a file that outlives it.             *)
(*                                                                         *)
(* The probe is a resolve of the SDK, which in this SDK fails exactly when *)
(* the configuration is wrong, so its result is the same for the life of a *)
(* daemon; get_fee_metrics answers with zeros, for which the monitor puts  *)
(* numbers of its own.  Alerts are sent before the snapshot is saved, and  *)
(* the file is written with fs::write, which truncates it first; a daemon  *)
(* whose save fails goes on, and saves the whole history the next time.    *)
(***************************************************************************)
EXTENDS Integers, Sequences, FiniteSets

CONSTANTS
    FirstTotal,     \* total registrations reported without a history (120)
    StorageAlarm,   \* registrations above which storage_capacity_pct is too high (750)
    MaxPolls        \* bound: snapshots taken

ASSUME MonitorAssumption == FirstTotal \in Nat \ {0} /\ StorageAlarm \in Nat /\ MaxPolls \in Nat

VARIABLES
    monitor,    \* the daemon
    metricsdb,  \* the file: its history, if it can be read
    probes,     \* what every probe so far came to
    reported,   \* the registrations last reported
    saved,      \* the registrations in the newest snapshot of the last history that
                \* was written out; 0: none was
    torn        \* a write has been cut off since, by a kill or an error

monitorVars == << monitor, metricsdb, probes, reported, saved, torn >>

\* first: this daemon has not polled yet.
Stopped == [at |-> "stopped", works |-> TRUE, history |-> << >>, alerts |-> {}, first |-> TRUE]

MonitorInit ==
    /\ monitor = Stopped
    /\ metricsdb = [ok |-> FALSE, history |-> << >>]
    /\ probes = << >>
    /\ reported = 0
    /\ saved = 0
    /\ torn = FALSE

-----------------------------------------------------------------------------
(* Snapshots: the success rate is good / of; volume is the hourly one.     *)

suffix(history, n) == SubSeq(history, IF Len(history) <= n THEN 1 ELSE Len(history) - n + 1, Len(history))

\* A snapshot counts as a success if its rate was above 90 percent.
Counted(s) == 100 * s.good > 90 * s.of

success_rate(history, success) ==
    LET recent == suffix(history, 5)
        now    == IF success THEN 1 ELSE 0
    IN  IF history = << >> THEN [good |-> now, of |-> 1]
        ELSE [good |-> Cardinality({i \in DOMAIN recent : Counted(recent[i])}) + now, of |-> Len(recent) + 1]

snapshot_of(history, success) ==
    LET last  == history[Len(history)]
        total == IF history = << >> THEN FirstTotal ELSE last.total + 1
        rate  == success_rate(history, success)
    IN  [good |-> rate.good, of |-> rate.of, total |-> total,
         volume |-> IF history = << >> \/ total <= last.total THEN 1 ELSE total - last.total]

SumOfVolumes(history) ==
    LET sum[i \in 0 .. Len(history)] == IF i = 0 THEN 0 ELSE sum[i - 1] + history[i].volume
    IN  sum[Len(history)]

\* The thresholds of MonitorConfig::default: 5 percent failures, and three
\* times the average volume of the last ten snapshots (2 while there are less
\* than three).
evaluate_thresholds(history, latest) ==
    LET recent   == suffix(history, 10)
        sum      == IF Len(history) >= 3 THEN SumOfVolumes(recent) ELSE 2
        count    == IF Len(history) >= 3 THEN Len(recent) ELSE 1
        baseline == IF sum > count THEN sum ELSE count
    IN  (IF 100 * (latest.of - latest.good) > 5 * latest.of THEN {"failure rate"} ELSE {})
        \cup (IF latest.total > StorageAlarm THEN {"storage"} ELSE {})
        \cup (IF latest.volume * count > 3 * baseline THEN {"spike"} ELSE {})
        \cup (IF latest.volume = 0 THEN {"no registrations"} ELSE {})

-----------------------------------------------------------------------------
(* The daemon.                                                             *)

\* Faulty variant: the daemon starts without looking at the file.
load_from_file_fresh == << >>

\* A file that cannot be read or parsed is an empty history.
load_from_file == IF metricsdb.ok THEN metricsdb.history ELSE << >>

StartDaemon(works) ==
    /\ monitor.at = "stopped"
    /\ monitor' = [Stopped EXCEPT !.at = "poll", !.works = works, !.history = load_from_file]
    /\ UNCHANGED << metricsdb, probes, reported, saved, torn >>

\* collect_metrics, the thresholds and the alerts; errors of sending them are
\* ignored.
Poll ==
    LET latest == snapshot_of(monitor.history, monitor.works)
    IN  /\ monitor.at = "poll"
        /\ Len(probes) < MaxPolls
        /\ monitor' = [monitor EXCEPT !.at = "save",
                          !.alerts = evaluate_thresholds(monitor.history, latest),
                          !.history = Append(@, latest),
                          !.first = FALSE]
        /\ probes' = Append(probes, monitor.works)
        /\ reported' = latest.total
        /\ UNCHANGED << metricsdb, saved, torn >>

goes_on == monitor' = [monitor EXCEPT !.at = "poll"]

\* save_to_file, in two steps.
OpenHistory ==
    /\ monitor.at = "save"
    /\ monitor' = [monitor EXCEPT !.at = "writing"]
    /\ metricsdb' = [ok |-> FALSE, history |-> << >>]
    /\ UNCHANGED << probes, reported, saved, torn >>

WriteHistory ==
    /\ monitor.at = "writing"
    /\ goes_on
    /\ metricsdb' = [ok |-> TRUE, history |-> monitor.history]
    /\ saved' = monitor.history[Len(monitor.history)].total
    /\ torn' = FALSE
    /\ UNCHANGED << probes, reported >>

\* The file cannot be opened, and is as it was.
OpenHistoryFails ==
    /\ monitor.at = "save"
    /\ goes_on
    /\ UNCHANGED << metricsdb, probes, reported, saved, torn >>

\* The write fails: the file has been truncated and does not parse.
WriteHistoryFails ==
    /\ monitor.at = "writing"
    /\ goes_on
    /\ torn' = TRUE
    /\ UNCHANGED << metricsdb, probes, reported, saved >>

\* The daemon is killed, or ends after its one poll with --dry-run.
StopDaemon ==
    /\ monitor.at # "stopped"
    /\ monitor' = Stopped
    /\ torn' = (torn \/ monitor.at = "writing")
    /\ UNCHANGED << metricsdb, probes, reported, saved >>

MonitorStep ==
    \/ \E works \in BOOLEAN : StartDaemon(works)
    \/ Poll
    \/ OpenHistory \/ OpenHistoryFails
    \/ WriteHistory \/ WriteHistoryFails
    \/ StopDaemon

MonitorSpec == MonitorInit /\ [][MonitorStep]_monitorVars

-----------------------------------------------------------------------------
\* Each poll of a daemon reports more registrations than its last one, whatever
\* became of the saves, and the first poll after a restart more than the last
\* history that was written out: a save that is skipped, fails to open the file or
\* is overtaken by a kill costs no more than the polls since (save_to_file,
\* load_from_file).  Only a write that was cut off after the truncation excuses a
\* restart that begins at the bottom, until the next history is written out.
ReportsGrow ==
    [][probes' # probes =>
          /\ monitor.first \/ reported' > reported
          /\ torn \/ reported' > saved]_monitorVars

\* The rate is one of recent operations (metrics.rs, "success rate based on
\* recent operations"): once the last six probes, more than the five snapshots
\* that are looked at, have all succeeded, the failure alert is over.
RecoveredMeansHealthy ==
    monitor.at = "save" /\ Len(probes) >= 6 /\ (\A i \in Len(probes) - 5 .. Len(probes) : probes[i]) =>
        "failure rate" \notin monitor.alerts
=============================================================================
