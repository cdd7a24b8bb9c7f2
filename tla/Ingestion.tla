------------------------------ MODULE Ingestion ------------------------------
(***************************************************************************)
(* The ledger ingestion supervisor of the Rust SDK                         *)
(* (packages/xlm-ns-sdk/src/ingestion.rs): next_ledger reads frames from a *)
(* stellar-core process, restarts it when it fails, falls back to an RPC   *)
(* server when the restarts are used up, and goes back to the process once *)
(* a backoff has passed.                                                   *)
(*                                                                         *)
(* A step is what happens between two awaits.  The process may exit at any *)
(* moment, a read may time out, and every call may fail.  Durations are    *)
(* left out; of next_primary_retry_at only remains whether it lies ahead.  *)
(*                                                                         *)
(* The supervisor takes a source at its word: it asks for a ledger and     *)
(* keeps whatever number the answer carries, if any, without comparing the *)
(* two.  So here a source gives any number or none.  Assumed is only that  *)
(* a running process goes on with the ledger after the one it last gave.   *)
(***************************************************************************)
EXTENDS Integers, Sequences

CONSTANTS
    StartLedger,    \* config.start_ledger
    MaxRestarts,    \* config.max_restart_attempts
    HasBackoff,     \* config.restart_backoff is not zero
    LastLedger,     \* the largest sequence number (u32::MAX)
    NONE

ASSUME IngestionAssumption ==
    /\ MaxRestarts \in Nat
    /\ LastLedger \in Nat
    /\ StartLedger \in 0 .. LastLedger
    /\ HasBackoff \in BOOLEAN
    /\ NONE \notin Nat

VARIABLES
    pc,         \* "idle" between calls, otherwise the await a call is in
    source,     \* active_source
    last,       \* last_processed_ledger
    failures,   \* consecutive_restart_failures
    cooling,    \* next_primary_retry_at lies in the future
    core,       \* next ledger the running process emits; NONE: not running
    handed,     \* what the current call has brought its caller: << the ledger that
                \* was due, the number it came with >>, NONE if it could not be
                \* decoded or has no number; << >>: nothing yet
    passed,     \* ledgers brought without a number since the last one with a number
    starts      \* process starts in the current call of next_ledger

supervisorVars == << pc, source, last, failures, cooling >>
historyVars == << handed, passed >>
ingestionVars == << supervisorVars, core, historyVars, starts >>

Awaits == {"idle", "start", "check", "frame", "archive", "restart", "retry", "remote"}

IngestionTypeOK ==
    /\ pc \in Awaits
    /\ source \in {"CaptiveCore", "Remote"}
    /\ last \in 0 .. LastLedger \cup {NONE}
    /\ failures \in 0 .. MaxRestarts
    /\ cooling \in BOOLEAN
    /\ core \in Nat \cup {NONE}
    /\ handed \in {<< >>} \cup Nat \X (Nat \cup {NONE})
    /\ passed \subseteq Nat
    /\ starts \in 0 .. MaxRestarts + 2

IngestionInit ==
    /\ pc = "idle"
    /\ source = "CaptiveCore"
    /\ last = IF StartLedger = 0 THEN NONE ELSE StartLedger - 1
    /\ failures = 0
    /\ cooling = FALSE
    /\ core = NONE
    /\ handed = << >>
    /\ passed = {}
    /\ starts = 0

-----------------------------------------------------------------------------
\* Faulty variant: the last ledger is asked for again.
next_start_ledger_again == IF last = NONE THEN StartLedger ELSE last

next_start_ledger ==
    IF last = NONE THEN StartLedger ELSE IF last < LastLedger THEN last + 1 ELSE last

\* Faulty variant: the fallback, once chosen, is kept.
loop_entry_kept(src, cool) == IF src = "CaptiveCore" THEN "check" ELSE "remote"

\* Where the loop of next_ledger waits first.
loop_entry(src, cool) ==
    IF src = "CaptiveCore" THEN "check" ELSE IF cool THEN "remote" ELSE "retry"

\* Faulty variant: one attempt too many.
attempts_left_more == failures <= MaxRestarts

attempts_left == failures < MaxRestarts

\* Faulty variant: the retry time is not set.
retry_later_forgotten == cooling

\* next_primary_retry_at = now + restart_backoff
retry_later == HasBackoff

\* The head of the restart loop of handle_primary_failure: another attempt, or
\* back to next_ledger on the fallback.
next_attempt ==
    IF attempts_left
    THEN /\ failures' = failures + 1
         /\ pc' = "restart"
         /\ UNCHANGED cooling
    ELSE /\ cooling' = retry_later
         /\ pc' = loop_entry("Remote", cooling')
         /\ UNCHANGED failures

\* Starts are counted as far as it takes to see too many of them.
count_start == starts' = IF starts > MaxRestarts + 1 THEN starts ELSE starts + 1

\* primary.start: a running process is stopped first.
spawn == core' = next_start_ledger /\ count_start
spawn_fails == core' = NONE /\ count_start

\* The ledger that is due is handed to the caller, with the number the source or
\* the sequence extractor gives; last_processed_ledger becomes that number.
hand_over(due, number) ==
    /\ handed' = << due, number >>
    /\ last' = IF number = NONE THEN last ELSE number
    /\ passed' = IF number = NONE THEN passed \cup {due} ELSE {}

Numbers == 0 .. LastLedger \cup {NONE}

-----------------------------------------------------------------------------
(* The caller. *)

CallStart ==
    /\ pc = "idle"
    /\ pc' = "start"
    /\ starts' = 0
    /\ handed' = << >>
    /\ UNCHANGED << source, last, failures, cooling, core, passed >>

\* start leaves the active source as it is.
StartReturns ==
    /\ pc = "start"
    /\ pc' = "idle"
    /\ spawn \/ spawn_fails
    /\ UNCHANGED << source, last, failures, cooling, historyVars >>

CallNextLedger ==
    /\ pc = "idle"
    /\ pc' = loop_entry(source, cooling)
    /\ starts' = 0
    /\ handed' = << >>
    /\ UNCHANGED << source, last, failures, cooling, core, passed >>

-----------------------------------------------------------------------------
(* Reading from the process. *)

\* The first lines of handle_primary_failure.
primary_fails ==
    /\ source' = "Remote"
    /\ pc' = "archive"
    /\ UNCHANGED << last, failures, cooling, core, historyVars, starts >>

CheckRunning ==
    /\ pc = "check"
    /\ \/ core # NONE /\ pc' = "frame"
          /\ UNCHANGED << source, last, failures, cooling, core, historyVars, starts >>
       \/ core = NONE /\ primary_fails

FrameArrives ==
    /\ pc = "frame"
    /\ core # NONE
    /\ core <= LastLedger
    /\ \E number \in Numbers :
          /\ hand_over(core, number)
          /\ core' = IF number = NONE THEN core + 1 ELSE number + 1
    /\ failures' = 0
    /\ pc' = "idle"
    /\ UNCHANGED << source, cooling, starts >>

\* The decoder's error goes to the caller; the frame has been consumed.
FrameUndecodable ==
    /\ pc = "frame"
    /\ core # NONE
    /\ core <= LastLedger
    /\ hand_over(core, NONE)
    /\ core' = core + 1
    /\ pc' = "idle"
    /\ UNCHANGED << source, failures, cooling, starts >>

\* Heartbeat timeout, end of the stream, or the process has exited.
FrameFails == pc = "frame" /\ primary_fails

\* stop, then archive_state, whose error goes to the caller.
Archived ==
    /\ pc = "archive"
    /\ core' = NONE
    /\ next_attempt
    /\ UNCHANGED << source, last, historyVars, starts >>

ArchiveFails ==
    /\ pc = "archive"
    /\ core' = NONE
    /\ pc' = "idle"
    /\ UNCHANGED << source, last, failures, cooling, historyVars, starts >>

-----------------------------------------------------------------------------
(* Restarting it. *)

RestartSucceeds ==
    /\ pc = "restart"
    /\ spawn
    /\ source' = "CaptiveCore"
    /\ pc' = "check"
    /\ UNCHANGED << last, failures, cooling, historyVars >>

RestartFails ==
    /\ pc = "restart"
    /\ spawn_fails
    /\ next_attempt
    /\ UNCHANGED << source, last, historyVars >>

RetrySucceeds ==
    /\ pc = "retry"
    /\ spawn
    /\ source' = "CaptiveCore"
    /\ pc' = "check"
    /\ UNCHANGED << last, failures, cooling, historyVars >>

RetryFails ==
    /\ pc = "retry"
    /\ spawn_fails
    /\ cooling' = HasBackoff
    /\ pc' = "remote"
    /\ UNCHANGED << source, last, failures, historyVars >>

-----------------------------------------------------------------------------
(* The fallback. *)

RemoteReturns ==
    /\ pc = "remote"
    /\ \E number \in Numbers : hand_over(next_start_ledger, number)
    /\ source' = "Remote"
    /\ pc' = "idle"
    /\ UNCHANGED << failures, cooling, core, starts >>

RemoteFails ==
    /\ pc = "remote"
    /\ pc' = "idle"
    /\ UNCHANGED << source, last, failures, cooling, core, historyVars, starts >>

-----------------------------------------------------------------------------
(* The environment. *)

CoreExits ==
    /\ core # NONE
    /\ core' = NONE
    /\ UNCHANGED << supervisorVars, historyVars, starts >>

BackoffElapses ==
    /\ cooling
    /\ cooling' = FALSE
    /\ UNCHANGED << pc, source, last, failures, core, historyVars, starts >>

-----------------------------------------------------------------------------
\* What a pending await ends with.
Resolve ==
    \/ StartReturns
    \/ CheckRunning
    \/ FrameArrives \/ FrameUndecodable \/ FrameFails
    \/ Archived \/ ArchiveFails
    \/ RestartSucceeds \/ RestartFails
    \/ RetrySucceeds \/ RetryFails
    \/ RemoteReturns \/ RemoteFails

IngestionNext ==
    \/ CallStart
    \/ CallNextLedger
    \/ Resolve
    \/ CoreExits
    \/ BackoffElapses

(***************************************************************************)
(* Every await ends: reads have the heartbeat timeout, sleeps are finite,  *)
(* and starting, archiving and fetching are taken to return.  The backoff  *)
(* passes.  A caller that polls calls next_ledger again.                   *)
(***************************************************************************)
AwaitsEnd == WF_ingestionVars(Resolve) /\ WF_ingestionVars(BackoffElapses)

Polled == SF_ingestionVars(CallNextLedger)

IngestionSpec == IngestionInit /\ [][IngestionNext]_ingestionVars

FairIngestionSpec == IngestionSpec /\ AwaitsEnd /\ Polled

-----------------------------------------------------------------------------
(* Properties. *)

Stream == INSTANCE LedgerStream WITH First <- StartLedger, Last <- LastLedger,
              behind <- IF last = NONE THEN StartLedger - 1 ELSE last

\* Whatever number a source gave last, the next ledger the caller gets is the one
\* that follows it: through restarts, changes of source, undecodable frames and
\* frames without a number none is left out, and only one that came without a
\* number, or the last there can be, is asked for again.  A gap or a repetition
\* comes from a source that gives another number than was due, and shows in the
\* number; a call brings at most one ledger.
StreamRefined == Stream!StreamSpec

\* One call starts the process at most once more than max_restart_attempts,
\* however the attempts end and whichever source it began with.
StartsBounded == starts <= MaxRestarts + 1

\* A call returns: failing starts, a process that starts and dies at once, and
\* an unreachable fallback cannot keep it in its loop.
CallReturns == (pc # "idle") ~> (pc = "idle")

\* The fallback is not for ever: on the fallback, the process is tried again.
PrimaryRetried == (source = "Remote") ~> (pc = "retry" \/ source = "CaptiveCore")

=============================================================================
