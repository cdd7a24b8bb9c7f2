--------------------------- MODULE ProgramProofs ----------------------------
(* Proofs about the parts that share no state with the registry. *)
EXTENDS Ingestion, Bridge, Watchlist, Monitor, Portfolio, SdkClient, SumProofs

-----------------------------------------------------------------------------
(* Ledger ingestion. *)

\* How often the process may have been started when a call is at an await: a
\* start is paid for by a failure that is counted, all but the first of a call.
StartsCounted ==
    /\ pc \in {"start", "retry"} => starts = 0
    /\ pc = "restart" => starts <= failures
    /\ pc \in {"check", "frame", "archive", "remote"} => starts <= failures + 1
    /\ starts <= MaxRestarts + 1

\* Every action keeps the types: the start counter is capped, a ledger number is
\* one a source can give, failures grow only below their limit.
LEMMA IngestionTypeStep ==
    ASSUME IngestionTypeOK, [IngestionNext]_ingestionVars
    PROVE  IngestionTypeOK'
<1> USE IngestionAssumption DEF IngestionTypeOK, Awaits
<1>1. next_start_ledger \in Nat
  BY DEF next_start_ledger
<1>2. \A src, cool : loop_entry(src, cool) \in Awaits
  BY DEF loop_entry
<1>3. ASSUME NEW due \in Nat, NEW number \in Numbers, hand_over(due, number)
      PROVE  /\ last' \in 0 .. LastLedger \cup {NONE} /\ passed' \subseteq Nat
             /\ handed' \in {<< >>} \cup Nat \X (Nat \cup {NONE})
  BY <1>3 DEF hand_over, Numbers
<1>4. ASSUME count_start PROVE starts' \in 0 .. MaxRestarts + 2
  BY <1>4 DEF count_start
<1>5. ASSUME spawn \/ spawn_fails
      PROVE  core' \in Nat \cup {NONE} /\ starts' \in 0 .. MaxRestarts + 2
  BY <1>1, <1>4, <1>5 DEF spawn, spawn_fails
<1>6. ASSUME next_attempt
      PROVE  pc' \in Awaits /\ cooling' \in BOOLEAN /\ failures' \in 0 .. MaxRestarts
  <2>1. CASE attempts_left
    BY <1>6, <2>1 DEF next_attempt, attempts_left
  <2>2. CASE ~attempts_left
    BY <1>6, <2>2, <1>2 DEF next_attempt, retry_later
  <2> QED
    BY <2>1, <2>2
<1>7. CASE CallStart
  BY <1>7 DEF CallStart, historyVars
<1>8. CASE CallNextLedger
  BY <1>8, <1>2 DEF CallNextLedger, historyVars
<1>9. CASE StartReturns
  BY <1>9, <1>5 DEF StartReturns, historyVars
<1>10. CASE CheckRunning \/ FrameFails
  BY <1>10 DEF CheckRunning, FrameFails, primary_fails, historyVars
<1>11. CASE FrameArrives
  <2>1. PICK number \in Numbers : hand_over(core, number) /\ core' = IF number = NONE THEN core + 1 ELSE number + 1
    BY <1>11 DEF FrameArrives
  <2>2. core \in Nat /\ core' \in Nat
    BY <1>11, <2>1 DEF FrameArrives, Numbers
  <2> QED
    BY <1>11, <1>3, <2>1, <2>2 DEF FrameArrives
<1>12. CASE FrameUndecodable
  <2>1. core \in Nat /\ NONE \in Numbers
    BY <1>12 DEF FrameUndecodable, Numbers
  <2> QED
    BY <1>12, <1>3, <2>1 DEF FrameUndecodable
<1>13. CASE Archived
  BY <1>13, <1>6 DEF Archived, historyVars
<1>14. CASE ArchiveFails
  BY <1>14 DEF ArchiveFails, historyVars
<1>15. CASE RestartSucceeds \/ RetrySucceeds
  BY <1>15, <1>5 DEF RestartSucceeds, RetrySucceeds, historyVars
<1>16. CASE RestartFails
  BY <1>16, <1>5, <1>6 DEF RestartFails, historyVars
<1>17. CASE RetryFails
  BY <1>17, <1>5 DEF RetryFails, historyVars
<1>18. CASE RemoteReturns
  BY <1>18, <1>1, <1>3 DEF RemoteReturns
<1>19. CASE RemoteFails
  BY <1>19 DEF RemoteFails, historyVars
<1>20. CASE CoreExits
  BY <1>20 DEF CoreExits, supervisorVars, historyVars
<1>21. CASE BackoffElapses
  BY <1>21 DEF BackoffElapses, historyVars
<1>22. CASE UNCHANGED ingestionVars
  BY <1>22 DEF ingestionVars, supervisorVars, historyVars
<1> QED
  BY <1>7, <1>8, <1>9, <1>10, <1>11, <1>12, <1>13, <1>14, <1>15, <1>16, <1>17, <1>18, <1>19,
     <1>20, <1>21, <1>22 DEF IngestionNext, Resolve

\* The supervisor's variables hold what CaptiveCoreIngestor can put there: no
\* more failures are counted than the limit, a ledger number is one.
THEOREM IngestionTypeCorrect == IngestionSpec => []IngestionTypeOK
<1>1. ASSUME IngestionInit PROVE IngestionTypeOK
  <2>1. last \in 0 .. LastLedger \cup {NONE}
    BY <1>1, IngestionAssumption DEF IngestionInit
  <2>2. handed \in {<< >>} \cup Nat \X (Nat \cup {NONE})
    BY <1>1 DEF IngestionInit
  <2>3. cooling \in BOOLEAN /\ passed \subseteq Nat
    BY <1>1 DEF IngestionInit
  <2>4. failures \in 0 .. MaxRestarts /\ starts \in 0 .. MaxRestarts + 2
    BY <1>1, IngestionAssumption DEF IngestionInit
  <2>5. pc \in Awaits /\ source \in {"CaptiveCore", "Remote"} /\ core \in Nat \cup {NONE}
    BY <1>1 DEF IngestionInit, Awaits
  <2> QED
    BY <2>1, <2>2, <2>3, <2>4, <2>5 DEF IngestionTypeOK
<1> QED
  BY <1>1, IngestionTypeStep, PTL DEF IngestionSpec

\* A call returns to its head, or goes to the fallback: with a backoff, never
\* to another retry.
LEMMA NextAttemptCounts ==
    ASSUME IngestionTypeOK, HasBackoff, next_attempt
    PROVE  \/ pc' = "restart" /\ failures' = failures + 1
           \/ pc' = "remote" /\ failures' = failures
BY DEF next_attempt, attempts_left, retry_later, loop_entry

\* Every action keeps the account of starts, if there is a backoff.
LEMMA StartsStep ==
    ASSUME IngestionTypeOK, StartsCounted, HasBackoff, [IngestionNext]_ingestionVars
    PROVE  StartsCounted'
<1> USE IngestionAssumption DEF IngestionTypeOK, Awaits, StartsCounted
<1>1. ASSUME starts <= MaxRestarts, spawn \/ spawn_fails PROVE starts' = starts + 1
  BY <1>1 DEF spawn, spawn_fails, count_start
<1>2. CASE CallStart
  BY <1>2 DEF CallStart
<1>3. CASE CallNextLedger
  BY <1>3 DEF CallNextLedger, loop_entry
<1>4. CASE StartReturns
  BY <1>4, <1>1 DEF StartReturns
<1>5. CASE CheckRunning \/ FrameFails
  BY <1>5 DEF CheckRunning, FrameFails, primary_fails
<1>6. CASE FrameArrives \/ FrameUndecodable \/ ArchiveFails \/ RemoteReturns \/ RemoteFails
  BY <1>6 DEF FrameArrives, FrameUndecodable, ArchiveFails, RemoteReturns, RemoteFails
<1>7. CASE Archived
  BY <1>7, NextAttemptCounts DEF Archived
<1>8. CASE RestartSucceeds
  BY <1>8, <1>1 DEF RestartSucceeds
<1>9. CASE RestartFails
  BY <1>9, <1>1, NextAttemptCounts DEF RestartFails
<1>10. CASE RetrySucceeds
  BY <1>10, <1>1 DEF RetrySucceeds
<1>11. CASE RetryFails
  BY <1>11, <1>1 DEF RetryFails
<1>12. CASE CoreExits \/ BackoffElapses \/ UNCHANGED ingestionVars
  BY <1>12 DEF CoreExits, BackoffElapses, ingestionVars, supervisorVars
<1> QED
  BY <1>2, <1>3, <1>4, <1>5, <1>6, <1>7, <1>8, <1>9, <1>10, <1>11, <1>12
     DEF IngestionNext, Resolve

\* One call of next_ledger starts the process at most max_restart_attempts + 1
\* times, if restart_backoff is not zero.
THEOREM StartsAreBounded == HasBackoff /\ IngestionSpec => []StartsBounded
<1>1. IngestionInit => StartsCounted
  BY IngestionAssumption DEF IngestionInit, StartsCounted
<1>2. HasBackoff /\ IngestionTypeOK /\ StartsCounted /\ [IngestionNext]_ingestionVars => StartsCounted'
  BY StartsStep
<1>3. StartsCounted => StartsBounded
  BY DEF StartsCounted, StartsBounded
<1>4. CASE HasBackoff
  <2>1. IngestionTypeOK /\ StartsCounted /\ [IngestionNext]_ingestionVars => StartsCounted'
    BY <1>2, <1>4
  <2> QED
    BY <1>1, <2>1, <1>3, IngestionTypeCorrect, PTL DEF IngestionSpec
<1> QED
  BY <1>4

\* The last number a source has given, and the ledgers a process may bring next.
LastGiven == IF last = NONE THEN StartLedger - 1 ELSE last

Ahead(k) ==
    \/ LastGiven < k /\ (LastGiven + 1 .. k - 1) \subseteq passed
    \/ k = LastLedger /\ k = LastGiven

\* What ties the supervisor to the stream: a call that has not returned has brought
\* nothing, and a process that is read from is past the last number only by
\* ledgers it has brought without one.  On the fallback a process may run that is
\* behind; it is started anew before it is read from.
StreamInv ==
    /\ pc # "idle" => handed = << >>
    /\ pc \in {"check", "frame"} => source = "CaptiveCore"
    /\ source = "CaptiveCore" /\ core # NONE => Ahead(core)

\* The ledger the supervisor asks for is due.
LEMMA NextIsDue ==
    ASSUME IngestionTypeOK
    PROVE  /\ next_start_ledger \in 0 .. LastLedger /\ Ahead(next_start_ledger)
           /\ \A k \in Nat : k <= LastLedger /\ Ahead(k) => Stream!Due(k)
<1> USE IngestionAssumption DEF IngestionTypeOK
<1>1. next_start_ledger \in 0 .. LastLedger
  BY DEF next_start_ledger
<1>2. Ahead(next_start_ledger)
  <2>1. CASE last = NONE
    <3>1. LastGiven = StartLedger - 1 /\ next_start_ledger = StartLedger
      BY <2>1 DEF LastGiven, next_start_ledger
    <3>2. StartLedger - 1 < StartLedger /\ (StartLedger - 1) + 1 .. StartLedger - 1 = {}
      OBVIOUS
    <3> QED
      BY <3>1, <3>2 DEF Ahead
  <2>2. CASE last # NONE /\ last < LastLedger
    <3>1. LastGiven = last /\ next_start_ledger = last + 1 /\ last \in Nat
      BY <2>2 DEF LastGiven, next_start_ledger
    <3>2. last < last + 1 /\ last + 1 .. (last + 1) - 1 = {}
      BY <3>1
    <3> QED
      BY <3>1, <3>2 DEF Ahead
  <2>3. CASE last # NONE /\ ~(last < LastLedger)
    <3>1. LastGiven = last /\ next_start_ledger = last /\ last = LastLedger
      BY <2>3 DEF LastGiven, next_start_ledger
    <3> QED
      BY <3>1 DEF Ahead
  <2> QED
    BY <2>1, <2>2, <2>3
<1>3. \A k \in Nat : k <= LastLedger /\ Ahead(k) => Stream!Due(k)
  BY DEF Ahead, LastGiven, Stream!Due
<1> QED
  BY <1>1, <1>2, <1>3

\* A step that brings nothing, and at most starts the process at the ledger that
\* is due.
LEMMA QuietKeepsStream ==
    ASSUME IngestionTypeOK, StreamInv, UNCHANGED << last, passed >>,
           handed' \in {handed, << >>}, pc' # "idle" => handed' = << >>,
           pc' \in {"check", "frame"} => source' = "CaptiveCore",
           \/ core' \in {next_start_ledger, NONE}
           \/ core' = core /\ (source' = "CaptiveCore" => source = "CaptiveCore")
    PROVE  StreamInv' /\ [Stream!StreamNext]_(Stream!streamVars)
<1>1. \A k : Ahead(k) => Ahead(k)'
  BY DEF Ahead, LastGiven
<1>2. source' = "CaptiveCore" /\ core' # NONE => Ahead(core)'
  BY <1>1, NextIsDue DEF StreamInv
<1>3. StreamInv'
  BY <1>2 DEF StreamInv, Ahead, LastGiven
<1>4. Stream!Call \/ UNCHANGED Stream!streamVars
  BY DEF Stream!Call, Stream!streamVars
<1> QED
  BY <1>3, <1>4 DEF Stream!StreamNext

\* What a call brings was due, and the process, if it is the source, goes on with
\* what follows.
LEMMA HandingOverKeepsStream ==
    ASSUME IngestionTypeOK, StreamInv, pc # "idle", pc' = "idle",
           NEW l \in Nat, l <= LastLedger, Ahead(l),
           NEW number \in Numbers, hand_over(l, number),
           source' = "CaptiveCore" => core' = IF number = NONE THEN l + 1 ELSE number + 1
    PROVE  StreamInv' /\ Stream!StreamNext
<1> USE IngestionAssumption
<1>1. Stream!Due(l) /\ l \in 0 .. LastLedger /\ handed = << >>
  BY NextIsDue DEF StreamInv
<1>2. CASE number = NONE
  <2>1. handed' = << l, NONE >> /\ last' = last /\ passed' = passed \cup {l}
    BY <1>2 DEF hand_over
  <2>2. Stream!BringUnnumbered(l)
    BY <1>1, <2>1 DEF Stream!BringUnnumbered
  <2>3. LastGiven' = LastGiven /\ LastGiven \in Int /\ l \in Nat /\ LastLedger \in Nat
    BY <2>1 DEF LastGiven, IngestionTypeOK
  <2>4. LastGiven < l + 1 /\ (LastGiven + 1 .. (l + 1) - 1) \subseteq passed \cup {l}
    <3>1. CASE LastGiven < l /\ (LastGiven + 1 .. l - 1) \subseteq passed
      <4> HIDE DEF LastGiven
      <4>1. LastGiven + 1 .. (l + 1) - 1 = (LastGiven + 1 .. l - 1) \cup {l}
        BY <2>3, <3>1
      <4> QED
        BY <2>3, <3>1, <4>1
    <3>2. CASE l = LastLedger /\ l = LastGiven
      <4>1. LastGiven + 1 .. (l + 1) - 1 = {}
        BY <2>3, <3>2
      <4> QED
        BY <2>3, <3>2, <4>1
    <3> QED
      BY <3>1, <3>2 DEF Ahead
  <2>5. source' = "CaptiveCore" => core' = l + 1
    BY <1>2
  <2>6. \A k : k = l + 1 => Ahead(k)'
    BY <2>1, <2>3, <2>4 DEF Ahead
  <2>7. StreamInv'
    BY <2>5, <2>6 DEF StreamInv, Ahead, LastGiven
  <2> QED
    BY <1>1, <2>2, <2>7 DEF Stream!StreamNext
<1>3. CASE number # NONE
  <2>1. /\ handed' = << l, number >> /\ last' = number /\ passed' = {}
        /\ number \in 0 .. LastLedger /\ last' # NONE
    BY <1>3 DEF hand_over, Numbers
  <2>2. Stream!BringNumbered(l, number)
    BY <1>1, <2>1 DEF Stream!BringNumbered
  <2>3. LastGiven' = number
    BY <2>1 DEF LastGiven
  <2>4. number < number + 1 /\ number + 1 .. (number + 1) - 1 = {}
    BY <2>1
  <2>5. source' = "CaptiveCore" => core' = number + 1
    BY <1>3
  <2>6. \A k : k = number + 1 => Ahead(k)'
    BY <2>3, <2>4 DEF Ahead
  <2>7. StreamInv'
    BY <2>5, <2>6 DEF StreamInv, Ahead, LastGiven
  <2> QED
    BY <1>1, <2>1, <2>2, <2>7 DEF Stream!StreamNext
<1> QED
  BY <1>2, <1>3

\* Every step brings the ledger that is due, or leaves the stream alone.
LEMMA StreamStep ==
    ASSUME IngestionTypeOK, StreamInv, [IngestionNext]_ingestionVars
    PROVE  StreamInv' /\ [Stream!StreamNext]_(Stream!streamVars)
<1> USE IngestionAssumption
<1>1. /\ pc \in {"check", "frame"} => source = "CaptiveCore"
      /\ pc # "idle" => handed = << >>
  BY DEF StreamInv
<1>2. ASSUME next_attempt PROVE pc' \notin {"check", "frame"}
  BY <1>2 DEF next_attempt, attempts_left, loop_entry
<1>3. CASE CallStart
  BY <1>3, QuietKeepsStream DEF CallStart
<1>4. CASE CallNextLedger
  BY <1>4, QuietKeepsStream DEF CallNextLedger, loop_entry
<1>5. CASE StartReturns
  BY <1>5, QuietKeepsStream DEF StartReturns, spawn, spawn_fails, historyVars
<1>6. CASE CheckRunning \/ FrameFails
  BY <1>1, <1>6, QuietKeepsStream DEF CheckRunning, FrameFails, primary_fails, historyVars
<1>7. CASE FrameArrives \/ FrameUndecodable
  <2>1. core \in Nat /\ core <= LastLedger /\ Ahead(core) /\ pc # "idle" /\ pc' = "idle"
    BY <1>1, <1>7 DEF FrameArrives, FrameUndecodable, StreamInv, IngestionTypeOK
  <2>2. PICK number \in Numbers : /\ hand_over(core, number)
                                  /\ core' = IF number = NONE THEN core + 1 ELSE number + 1
    BY <1>7 DEF FrameArrives, FrameUndecodable, Numbers
  <2> QED
    BY <2>1, <2>2, HandingOverKeepsStream
<1>8. CASE Archived
  BY <1>1, <1>2, <1>8, QuietKeepsStream DEF Archived, historyVars
<1>9. CASE ArchiveFails
  BY <1>9, QuietKeepsStream DEF ArchiveFails, historyVars
<1>10. CASE RestartSucceeds \/ RetrySucceeds
  BY <1>1, <1>10, QuietKeepsStream DEF RestartSucceeds, RetrySucceeds, spawn, historyVars
<1>11. CASE RestartFails
  BY <1>1, <1>2, <1>11, QuietKeepsStream DEF RestartFails, spawn_fails, historyVars
<1>12. CASE RetryFails
  BY <1>1, <1>12, QuietKeepsStream DEF RetryFails, spawn_fails, historyVars
<1>13. CASE RemoteReturns
  <2>1. PICK number \in Numbers : hand_over(next_start_ledger, number)
    BY <1>13 DEF RemoteReturns
  <2>2. next_start_ledger \in Nat /\ next_start_ledger <= LastLedger /\ Ahead(next_start_ledger)
    BY NextIsDue
  <2>3. pc # "idle" /\ pc' = "idle" /\ source' # "CaptiveCore"
    BY <1>13 DEF RemoteReturns
  <2> QED
    BY <2>1, <2>2, <2>3, HandingOverKeepsStream
<1>14. CASE RemoteFails
  BY <1>14, QuietKeepsStream DEF RemoteFails, historyVars
<1>15. CASE CoreExits
  BY <1>1, <1>15, QuietKeepsStream DEF CoreExits, supervisorVars, historyVars
<1>16. CASE BackoffElapses
  BY <1>1, <1>16, QuietKeepsStream DEF BackoffElapses, historyVars
<1>17. CASE UNCHANGED ingestionVars
  BY <1>1, <1>17, QuietKeepsStream DEF ingestionVars, supervisorVars, historyVars
<1> QED
  BY <1>3, <1>4, <1>5, <1>6, <1>7, <1>8, <1>9, <1>10, <1>11, <1>12, <1>13, <1>14, <1>15, <1>16,
     <1>17 DEF IngestionNext, Resolve

\* Whatever numbers the sources give, or none, and whatever exits, times out, fails
\* or cannot be decoded: each call brings at most one ledger, and it is the one
\* that follows the last number given, or one brought without a number before.
\* Nothing is promised of a source that gives another number than it was asked for.
THEOREM IngestionImplementsStream == IngestionSpec => StreamRefined
<1>1. IngestionInit => StreamInv /\ Stream!StreamInit
  BY IngestionAssumption DEF IngestionInit, StreamInv, Stream!StreamInit
<1> QED
  BY <1>1, StreamStep, IngestionTypeCorrect, PTL DEF IngestionSpec, StreamRefined, Stream!StreamSpec

-----------------------------------------------------------------------------
(* The bridge. *)

BridgeTypeOK ==
    /\ supported \in [Chains -> Endpoints \cup {NO_VALUE}]
    /\ chain_ids \in Seq(Chains)
    /\ routes \in [Chains -> Endpoints \cup {NO_VALUE}]

\* Appending to a listing without repetitions a chain that is not in it.
LEMMA AppendDistinct ==
    ASSUME NEW S, NEW ids \in Seq(S), IsInjective(ids), NEW c \in S, c \notin Range(ids)
    PROVE  /\ Append(ids, c) \in Seq(S)
           /\ IsInjective(Append(ids, c))
           /\ Range(Append(ids, c)) = Range(ids) \cup {c}
<1> DEFINE more == Append(ids, c)
<1>1. more \in Seq(S)
  OBVIOUS
<1>2. /\ DOMAIN more = (DOMAIN ids) \cup {Len(ids) + 1}
      /\ \A i \in DOMAIN ids : more[i] = ids[i]
      /\ more[Len(ids) + 1] = c
  OBVIOUS
<1> HIDE DEF more
<1>3. Range(more) = Range(ids) \cup {c}
  BY <1>2 DEF Range
<1>4. IsInjective(more)
  <2> SUFFICES ASSUME NEW i \in DOMAIN more, NEW j \in DOMAIN more, more[i] = more[j] PROVE i = j
    BY DEF IsInjective
  <2>1. CASE i \in DOMAIN ids /\ j \in DOMAIN ids
    BY <1>2, <2>1 DEF IsInjective
  <2>2. CASE i \notin DOMAIN ids \/ j \notin DOMAIN ids
    BY <1>2, <2>2 DEF Range
  <2> QED
    BY <2>1, <2>2
<1> QED
  BY <1>1, <1>3, <1>4 DEF more

\* The loop of remove_supported_chain: what it keeps after n turns.
Turns(g, n, ids, c) ==
    g = [i \in 0 .. n |-> IF i = 0 THEN << >>
                          ELSE IF ids[i] = c THEN g[i - 1] ELSE Append(g[i - 1], ids[i])]

\* The loop comes to an end.
LEMMA TurnsExist ==
    ASSUME NEW ids, NEW c
    PROVE  \A n \in Nat : \E g : Turns(g, n, ids, c)
<1> DEFINE Bad == {n \in Nat : ~ \E g : Turns(g, n, ids, c)}
           turn(g, i) == IF ids[i] = c THEN g[i - 1] ELSE Append(g[i - 1], ids[i])
<1>1. Bad = {}
  <2> SUFFICES ASSUME Bad # {} PROVE FALSE
    OBVIOUS
  <2>1. PICK n \in Bad : \A m \in Bad : n <= m
    BY LeastElement
  <2>2. CASE n = 0
    <3> DEFINE g == [i \in 0 .. 0 |-> << >>]
    <3>1. Turns(g, 0, ids, c)
      BY DEF Turns
    <3> QED
      BY <2>1, <2>2, <3>1
  <2>3. CASE n # 0
    <3>1. n - 1 \in Nat /\ n - 1 \notin Bad
      BY <2>1, <2>3
    <3>2. PICK h : Turns(h, n - 1, ids, c)
      BY <3>1
    <3> DEFINE g == [i \in 0 .. n |-> IF i = n THEN turn(h, n) ELSE h[i]]
    <3>3. \A i \in 0 .. n - 1 : g[i] = h[i]
      BY <3>1
    <3>4. \A i \in 0 .. n - 1 : h[i] = IF i = 0 THEN << >> ELSE turn(h, i)
      BY <3>2 DEF Turns
    <3>5. \A i \in 0 .. n : g[i] = IF i = 0 THEN << >> ELSE turn(g, i)
      <4> SUFFICES ASSUME NEW i \in 0 .. n PROVE g[i] = IF i = 0 THEN << >> ELSE turn(g, i)
        OBVIOUS
      <4>1. CASE i = n
        BY <2>1, <2>3, <3>1, <3>3, <4>1
      <4>2. CASE i = 0
        BY <2>1, <2>3, <3>1, <3>3, <3>4, <4>2
      <4>3. CASE i \in 1 .. n - 1
        <5>1. i - 1 \in 0 .. n - 1
          BY <3>1, <4>3
        <5> QED
          BY <3>1, <3>3, <3>4, <4>3, <5>1
      <4> QED
        BY <2>1, <4>1, <4>2, <4>3
    <3>6. Turns(g, n, ids, c)
      BY <3>5 DEF Turns
    <3> QED
      BY <2>1, <3>6
  <2> QED
    BY <2>2, <2>3
<1> QED
  BY <1>1

\* After n turns it has kept the first n chains but c, each once.
LEMMA TurnsKeep ==
    ASSUME NEW ids \in Seq(Chains), IsInjective(ids), NEW c \in Chains,
           NEW g, Turns(g, Len(ids), ids, c)
    PROVE  \A n \in 0 .. Len(ids) :
              /\ g[n] \in Seq(Chains)
              /\ IsInjective(g[n])
              /\ Range(g[n]) = {ids[i] : i \in 1 .. n} \ {c}
<1> DEFINE First(n) == {ids[i] : i \in 1 .. n}
           Good(n) == g[n] \in Seq(Chains) /\ IsInjective(g[n]) /\ Range(g[n]) = First(n) \ {c}
           Bad == {n \in 0 .. Len(ids) : ~Good(n)}
<1>1. \A n \in 0 .. Len(ids) : g[n] = IF n = 0 THEN << >>
                                ELSE IF ids[n] = c THEN g[n - 1] ELSE Append(g[n - 1], ids[n])
  BY DEF Turns
<1>0. Len(ids) \in Nat
  OBVIOUS
<1>2. Bad = {}
  <2> SUFFICES ASSUME Bad # {} PROVE FALSE
    OBVIOUS
  <2>1. PICK n \in Bad : \A m \in Bad : n <= m
    <3>1. Bad \in SUBSET Nat
      OBVIOUS
    <3> QED
      BY <3>1, LeastElement
  <2>2. CASE n = 0
    <3>0. 0 \in 0 .. Len(ids) /\ 1 .. 0 = {}
      BY <1>0
    <3>1. g[0] = << >> /\ First(0) = {}
      BY <1>1, <3>0
    <3>2. << >> \in Seq(Chains) /\ DOMAIN << >> = {}
      OBVIOUS
    <3>3. Good(0)
      BY <3>1, <3>2 DEF IsInjective, Range
    <3> QED
      BY <2>1, <2>2, <3>3
  <2>3. CASE n # 0
    <3>0. n \in 0 .. Len(ids)
      BY <2>1
    <3>1. n - 1 \in 0 .. Len(ids) /\ n - 1 \notin Bad /\ n \in 1 .. Len(ids)
      <4>1. n - 1 \in 0 .. Len(ids) /\ n \in 1 .. Len(ids) /\ ~(n <= n - 1)
        BY <1>0, <2>3, <3>0
      <4> HIDE DEF Bad
      <4> QED
        BY <2>1, <4>1
    <3>2. Good(n - 1)
      BY <3>1
    <3>3. First(n) = First(n - 1) \cup {ids[n]} /\ ids[n] \in Chains
      BY <3>1
    <3>4. ids[n] \notin First(n - 1)
      <4> SUFFICES ASSUME NEW i \in 1 .. n - 1, ids[i] = ids[n] PROVE FALSE
        OBVIOUS
      <4>1. i \in DOMAIN ids /\ n \in DOMAIN ids /\ i # n
        BY <3>1
      <4> QED
        BY <4>1 DEF IsInjective
    <3>5. CASE ids[n] = c
      <4>1. g[n] = g[n - 1]
        BY <1>1, <3>0, <3>5, <2>3
      <4>2. First(n) \ {c} = First(n - 1) \ {c}
        BY <3>3, <3>5
      <4> QED
        BY <2>1, <3>2, <4>1, <4>2
    <3>6. CASE ids[n] # c
      <4>1. g[n] = Append(g[n - 1], ids[n])
        BY <1>1, <3>0, <3>6, <2>3
      <4>2. ids[n] \notin Range(g[n - 1])
        BY <3>2, <3>4
      <4>3. First(n) \ {c} = (First(n - 1) \ {c}) \cup {ids[n]}
        BY <3>3, <3>6
      <4>4. Good(n)
        <5> DEFINE old == g[n - 1]
                   l == ids[n]
        <5>1. old \in Seq(Chains) /\ IsInjective(old) /\ Range(old) = First(n - 1) \ {c} /\ l \in Chains
          BY <3>2, <3>3
        <5> HIDE DEF old, l, First
        <5>2. Append(old, l) \in Seq(Chains) /\ IsInjective(Append(old, l)) /\ Range(Append(old, l)) = Range(old) \cup {l}
          BY <4>2, <5>1, AppendDistinct DEF old, l
        <5> QED
          BY <4>1, <4>3, <5>1, <5>2 DEF old, l
      <4> QED
        BY <2>1, <4>4
    <3> QED
      BY <3>5, <3>6
  <2> QED
    BY <2>2, <2>3
<1> QED
  BY <1>2

\* remove_supported_chain takes the chain off the listing, and nothing else.
LEMMA RemainingIsRight ==
    ASSUME NEW ids \in Seq(Chains), IsInjective(ids), NEW c \in Chains
    PROVE  /\ remaining(ids, c) \in Seq(Chains)
           /\ IsInjective(remaining(ids, c))
           /\ Range(remaining(ids, c)) = Range(ids) \ {c}
<1>0. Len(ids) \in Nat
  OBVIOUS
<1>1. PICK h : Turns(h, Len(ids), ids, c)
  BY <1>0, TurnsExist
<1> DEFINE g == CHOOSE f : Turns(f, Len(ids), ids, c)
<1>2. Turns(g, Len(ids), ids, c)
  BY <1>1
<1>3. remaining(ids, c) = g[Len(ids)]
  BY DEF remaining, Turns
<1>4. Range(ids) = {ids[i] : i \in 1 .. Len(ids)} /\ Len(ids) \in 0 .. Len(ids)
  BY <1>0 DEF Range
<1> HIDE DEF g
<1>5. \A n \in 0 .. Len(ids) : /\ g[n] \in Seq(Chains)
                               /\ IsInjective(g[n])
                               /\ Range(g[n]) = {ids[i] : i \in 1 .. n} \ {c}
  BY <1>2, TurnsKeep
<1> QED
  BY <1>3, <1>4, <1>5
\* Every call keeps the types and the agreement of routes, listing and chains.
LEMMA BridgeStep ==
    ASSUME BridgeTypeOK, RoutesCurrent, [BridgeNext]_bridgeVars
    PROVE  BridgeTypeOK' /\ RoutesCurrent'
<1>1. CASE UNCHANGED << supported, chain_ids, routes >>
  BY <1>1 DEF BridgeTypeOK, RoutesCurrent, destination, Supported
<1>2. ASSUME NEW c \in Chains, RegisterChain(c) PROVE BridgeTypeOK' /\ RoutesCurrent'
  <2>1. routes' = [routes EXCEPT ![c] = supported[c]] /\ UNCHANGED << supported, chain_ids >>
    BY <1>2 DEF RegisterChain
  <2>2. BridgeTypeOK'
    BY <2>1 DEF BridgeTypeOK
  <2>3. \A d \in Chains : routes'[d] # NO_VALUE => routes'[d] = supported'[d]
    BY <2>1 DEF BridgeTypeOK, RoutesCurrent, destination
  <2> QED
    BY <2>1, <2>2, <2>3 DEF RoutesCurrent, destination, Supported
<1>3. ASSUME NEW c \in Chains, NEW e \in Endpoints, AddSupportedChain(c, e)
      PROVE  BridgeTypeOK' /\ RoutesCurrent'
  <2>1. /\ supported' = [supported EXCEPT ![c] = e]
        /\ chain_ids' = Append(chain_ids, c)
        /\ routes' = routes
        /\ supported[c] = NO_VALUE
    BY <1>3 DEF AddSupportedChain, not_supported_yet, Supported
  <2>2. c \notin Range(chain_ids)
    BY <2>1 DEF RoutesCurrent, Supported
  <2>3. /\ chain_ids' \in Seq(Chains)
        /\ IsInjective(chain_ids')
        /\ Range(chain_ids') = Range(chain_ids) \cup {c}
    BY <2>1, <2>2, AppendDistinct DEF BridgeTypeOK, RoutesCurrent
  <2>4. BridgeTypeOK'
    BY <2>1, <2>3 DEF BridgeTypeOK
  <2>5. \A d \in Chains : routes'[d] # NO_VALUE => routes'[d] = supported'[d]
    BY <2>1 DEF BridgeTypeOK, RoutesCurrent, destination
  <2>6. e # NO_VALUE
    BY BridgeAssumption
  <2>7. {d \in Chains : supported'[d] # NO_VALUE} = {d \in Chains : supported[d] # NO_VALUE} \cup {c}
    BY <2>1, <2>6 DEF BridgeTypeOK
  <2> QED
    BY <2>3, <2>4, <2>5, <2>7 DEF RoutesCurrent, destination, Supported
<1>4. ASSUME NEW c \in Chains, RemoveSupportedChain(c) PROVE BridgeTypeOK' /\ RoutesCurrent'
  <2>1. /\ supported' = [supported EXCEPT ![c] = NO_VALUE]
        /\ chain_ids' = remaining(chain_ids, c)
        /\ routes' = [routes EXCEPT ![c] = NO_VALUE]
    BY <1>4 DEF RemoveSupportedChain, drop_route
  <2>2. /\ chain_ids' \in Seq(Chains)
        /\ IsInjective(chain_ids')
        /\ Range(chain_ids') = Range(chain_ids) \ {c}
    BY <2>1, RemainingIsRight DEF BridgeTypeOK, RoutesCurrent
  <2>3. BridgeTypeOK'
    BY <2>1, <2>2 DEF BridgeTypeOK
  <2>4. \A d \in Chains : routes'[d] # NO_VALUE => routes'[d] = supported'[d]
    BY <2>1 DEF BridgeTypeOK, RoutesCurrent, destination
  <2>5. {d \in Chains : supported'[d] # NO_VALUE} = {d \in Chains : supported[d] # NO_VALUE} \ {c}
    BY <2>1 DEF BridgeTypeOK
  <2> QED
    BY <2>2, <2>3, <2>4, <2>5 DEF RoutesCurrent, destination, Supported
<1>5. ASSUME NEW a, InitializeBridge(a) PROVE UNCHANGED << supported, chain_ids, routes >>
  BY <1>5 DEF InitializeBridge
<1> QED
  BY <1>1, <1>2, <1>3, <1>4, <1>5 DEF BridgeNext, bridgeVars

\* Messages go to the endpoint a chain is supported with now, and the listing names
\* every supported chain once, whatever chains are added, routed and removed.
THEOREM RoutesAreCurrent == BridgeSpec => []RoutesCurrent
<1>1. BridgeInit => BridgeTypeOK /\ RoutesCurrent
  <2> SUFFICES ASSUME BridgeInit PROVE BridgeTypeOK /\ RoutesCurrent
    OBVIOUS
  <2>1. chain_ids = << >> /\ << >> \in Seq(Chains) /\ DOMAIN << >> = {}
    BY DEF BridgeInit
  <2>2. BridgeTypeOK
    BY <2>1 DEF BridgeInit, BridgeTypeOK
  <2>3. IsInjective(chain_ids) /\ Range(chain_ids) = {}
    BY <2>1 DEF IsInjective, Range
  <2> QED
    BY <2>2, <2>3 DEF BridgeInit, RoutesCurrent, destination, Supported
<1> QED
  BY <1>1, BridgeStep, PTL DEF BridgeSpec

-----------------------------------------------------------------------------
(* The watchlist. *)

Listed == WatchedNames \cup {"-"}

Process ==
    [at : {"rest", "load", "save", "writing"}, cmd : {"add", "remove", "list", "check"},
     name : Listed, list : Seq(Listed), fresh : BOOLEAN, result : {"none", "ok", "error"}]

WatchFile == [exists : BOOLEAN, ok : BOOLEAN, size : Nat, list : Seq(Listed)]

WatchTypeOK ==
    /\ watchfile \in WatchFile
    /\ watcher \in [Watchers -> Process]
    /\ raced \in BOOLEAN /\ disturbed \in BOOLEAN

\* No list, in the file or about to be written, names a name twice.
ListsDistinct ==
    /\ IsInjective(watchfile.list)
    /\ \A p \in Watchers : watcher[p].at \in {"save", "writing"} => IsInjective(watcher[p].list)

\* Without a disturbance one process writes at a time, to the file it truncated.
WritesApart ==
    ~disturbed =>
        /\ \A p, q \in Watchers : Writing(p) /\ Writing(q) => p = q
        /\ \A p \in Watchers : Writing(p) => watchfile = EmptyFile
        /\ watchfile.exists /\ ~watchfile.ok => \E p \in Watchers : Writing(p)

\* What will be owed once a process has reported its change as done.
OwedAfter(me) == IF me.cmd = "add" THEN owed \cup {me.name} ELSE owed \ {me.name}

\* Without a race and a disturbance the file lists what is owed unless it is being
\* written, and a process that writes, or may still write without a race, will
\* write what is owed then.
ListsOwed ==
    ~raced /\ ~disturbed =>
        /\ (\A q \in Watchers : ~Writing(q)) => ToSet(watchfile.list) = owed
        /\ \A p \in Watchers : watcher[p].at = "save" /\ watcher[p].fresh =>
              /\ \A q \in Watchers : ~Writing(q)
              /\ ToSet(watcher[p].list) = OwedAfter(watcher[p])
        /\ \A p \in Watchers : Writing(p) => ToSet(watcher[p].list) = OwedAfter(watcher[p])

WatchInv == WatchTypeOK /\ ListsDistinct /\ WritesApart /\ ListsOwed

\* Removing the first occurrence from a list without repetitions removes the name,
\* and no other.
LEMMA RemoveFirstRemoves ==
    ASSUME NEW S, NEW list \in Seq(S), IsInjective(list), NEW name, name \in ToSet(list)
    PROVE  /\ RemoveFirst(list, name) \in Seq(S)
           /\ IsInjective(RemoveFirst(list, name))
           /\ ToSet(RemoveFirst(list, name)) = ToSet(list) \ {name}
<1>1. PICK i \in 1 .. Len(list) : list[i] = name
  BY DEF ToSet
<1>2. {j \in 1 .. Len(list) : list[j] = name} = {i}
  BY <1>1 DEF IsInjective
<1>3. SelectInSeq(list, LAMBDA v : v = name) = i
  BY <1>2, <1>1 DEF SelectInSeq, Min
<1>4. RemoveFirst(list, name) = SubSeq(list, 1, i - 1) \o SubSeq(list, i + 1, Len(list))
  BY <1>1, <1>3 DEF RemoveFirst, RemoveAt
<1> DEFINE rest == RemoveFirst(list, name)
<1>5. /\ rest \in Seq(S)
      /\ DOMAIN rest = 1 .. Len(list) - 1
      /\ \A j \in 1 .. Len(list) - 1 : rest[j] = IF j < i THEN list[j] ELSE list[j + 1]
  <2> DEFINE a == SubSeq(list, 1, i - 1)
             b == SubSeq(list, i + 1, Len(list))
  <2>1. a \in Seq(S) /\ Len(a) = i - 1 /\ \A j \in 1 .. i - 1 : a[j] = list[j]
    OBVIOUS
  <2>2. b \in Seq(S) /\ Len(b) = Len(list) - i /\ \A j \in 1 .. Len(list) - i : b[j] = list[i + j]
    OBVIOUS
  <2> HIDE DEF a, b
  <2>3. a \o b \in Seq(S) /\ DOMAIN (a \o b) = 1 .. Len(list) - 1
    BY <2>1, <2>2
  <2>4. ASSUME NEW j \in 1 .. Len(list) - 1 PROVE (a \o b)[j] = IF j < i THEN list[j] ELSE list[j + 1]
    <3>a. Len(list) \in Nat
      OBVIOUS
    <3>b. a \in Seq(S) /\ b \in Seq(S)
      BY <2>1, <2>2
    <3>0. Len(list) \in Nat /\ Len(a \o b) = Len(a) + Len(b)
      BY <3>a, <3>b
    <3>1. CASE j < i
      <4>1. (a \o b)[j] = a[j]
        BY <3>0, <3>1, <2>1, <2>2
      <4> QED
        BY <3>1, <4>1, <2>1
    <3>2. CASE ~(j < i)
      <4>1. j - Len(a) \in 1 .. Len(list) - i /\ i + (j - Len(a)) = j + 1
        BY <3>0, <3>2, <2>1
      <4>2. (a \o b)[j] = b[j - Len(a)]
        BY <3>0, <3>2, <2>1, <2>2
      <4> QED
        BY <3>2, <4>1, <4>2, <2>2
    <3> QED
      BY <3>1, <3>2
  <2> QED
    BY <1>4, <2>3, <2>4 DEF a, b
<1> HIDE DEF rest
<1> DEFINE from(j) == IF j < i THEN j ELSE j + 1
<1>0. Len(list) \in Nat /\ DOMAIN list = 1 .. Len(list)
  OBVIOUS
<1>6. \A j \in 1 .. Len(list) - 1 : from(j) \in DOMAIN list /\ from(j) # i /\ rest[j] = list[from(j)]
  BY <1>0, <1>5
<1>7. \A j, k \in 1 .. Len(list) - 1 : from(j) = from(k) => j = k
  BY <1>0
<1>10. \A k \in DOMAIN list : k # i => \E j \in 1 .. Len(list) - 1 : from(j) = k
  <2> SUFFICES ASSUME NEW k \in DOMAIN list, k # i PROVE \E j \in 1 .. Len(list) - 1 : from(j) = k
    OBVIOUS
  <2>1. CASE k < i
    <3>1. k \in 1 .. Len(list) - 1 /\ from(k) = k
      BY <1>0, <2>1
    <3> QED
      BY <3>1
  <2>2. CASE ~(k < i)
    <3>1. k - 1 \in 1 .. Len(list) - 1 /\ from(k - 1) = k
      BY <1>0, <2>2
    <3> QED
      BY <3>1
  <2> QED
    BY <2>1, <2>2
<1> HIDE DEF from
<1>8. \A j \in 1 .. Len(list) - 1 : rest[j] # name
  BY <1>0, <1>2, <1>6
<1>9. IsInjective(rest)
  <2> SUFFICES ASSUME NEW j \in 1 .. Len(list) - 1, NEW k \in 1 .. Len(list) - 1, rest[j] = rest[k]
               PROVE  j = k
    BY <1>5 DEF IsInjective
  <2>1. from(j) = from(k)
    BY <1>6 DEF IsInjective
  <2> QED
    BY <2>1, <1>7
<1>11. ToSet(rest) = ToSet(list) \ {name}
  <2>1. \A v : v \in ToSet(rest) <=> \E j \in 1 .. Len(list) - 1 : v = rest[j]
    BY <1>5 DEF ToSet
  <2>2. \A v : v \in ToSet(list) <=> \E k \in DOMAIN list : v = list[k]
    BY DEF ToSet
  <2>3. ASSUME NEW v \in ToSet(rest) PROVE v \in ToSet(list) /\ v # name
    BY <2>1, <2>2, <2>3, <1>6, <1>8
  <2>4. ASSUME NEW v \in ToSet(list), v # name PROVE v \in ToSet(rest)
    <3>1. PICK k \in DOMAIN list : v = list[k]
      BY <2>2
    <3>2. k # i
      BY <1>1, <3>1, <2>4
    <3>3. PICK j \in 1 .. Len(list) - 1 : from(j) = k
      BY <1>10, <3>2
    <3> QED
      BY <1>6, <2>1, <3>1, <3>3
  <2> QED
    BY <2>3, <2>4
<1> QED
  BY <1>5, <1>9, <1>11 DEF rest

\* What a command makes of a list without repetitions has none, and holds what was
\* there but for the one name.
LEMMA ChangedRight ==
    ASSUME NEW list \in Seq(Listed), IsInjective(list), NEW cmd \in {"add", "remove", "list", "check"},
           NEW name \in Listed, ~NothingToDo(cmd, list, name)
    PROVE  /\ Changed(cmd, list, name) \in Seq(Listed)
           /\ IsInjective(Changed(cmd, list, name))
           /\ ToSet(Changed(cmd, list, name)) =
                 IF cmd = "add" THEN ToSet(list) \cup {name} ELSE ToSet(list) \ {name}
<1>1. CASE cmd = "add"
  <2>1. name \notin Range(list)
    BY <1>1 DEF NothingToDo, ToSet, Range
  <2>2. /\ Append(list, name) \in Seq(Listed)
        /\ IsInjective(Append(list, name))
        /\ Range(Append(list, name)) = Range(list) \cup {name}
    BY <2>1, AppendDistinct
  <2>3. ToSet(Append(list, name)) = ToSet(list) \cup {name}
    BY <2>2 DEF ToSet, Range
  <2> QED
    BY <1>1, <2>2, <2>3 DEF Changed
<1>2. CASE cmd = "remove"
  <2>1. name \in ToSet(list)
    BY <1>2 DEF NothingToDo
  <2> QED
    BY <1>2, <2>1, RemoveFirstRemoves DEF Changed
<1>3. cmd \in {"add", "remove"}
  BY DEF NothingToDo
<1> QED
  BY <1>1, <1>2, <1>3

\* The files that are not there, and that have just been truncated.
LEMMA FilesWithoutList ==
    /\ NoFile \in WatchFile /\ NoFile.list = << >> /\ ~NoFile.exists
    /\ EmptyFile \in WatchFile /\ EmptyFile.list = << >> /\ EmptyFile.size = 0
    /\ IsInjective(<< >>) /\ ToSet(<< >>) = {}
<1>1. << >> \in Seq(Listed) /\ DOMAIN << >> = {}
  OBVIOUS
<1>2. NoFile \in WatchFile /\ NoFile.list = << >> /\ ~NoFile.exists /\ NoFile.size = 0
  BY <1>1 DEF NoFile, WatchFile
<1>3. EmptyFile \in WatchFile /\ EmptyFile.list = << >> /\ EmptyFile.size = 0
  BY <1>2 DEF EmptyFile, WatchFile
<1>4. IsInjective(<< >>) /\ ToSet(<< >>) = {}
  BY <1>1 DEF IsInjective, ToSet
<1> QED
  BY <1>2, <1>3, <1>4

\* A process at rest is one.
LEMMA RestingProcess ==
    /\ Resting \in Process /\ Resting.at = "rest"
    /\ \A result \in {"none", "ok", "error"} :
          /\ [Resting EXCEPT !.result = result] \in Process
          /\ [Resting EXCEPT !.result = result].at = "rest"
<1>1. Resting \in Process /\ Resting.at = "rest"
  BY DEF Resting, Listed, Process
<1>2. ASSUME NEW result \in {"none", "ok", "error"}
      PROVE  [Resting EXCEPT !.result = result] \in Process /\ [Resting EXCEPT !.result = result].at = "rest"
  BY <1>1, <1>2 DEF Process
<1> QED
  BY <1>1, <1>2

\* A command that ends rests; the others do what they did.
LEMMA EndRests ==
    ASSUME WatchTypeOK, NEW p \in Watchers, NEW result \in {"none", "ok", "error"}, watcher' = End(p, result)
    PROVE  /\ watcher' \in [Watchers -> Process]
           /\ watcher'[p].at = "rest"
           /\ \A q \in Watchers \ {p} : watcher'[q] = watcher[q]
BY RestingProcess DEF End, WatchTypeOK

\* A process that was not writing goes to rest, and nothing else happens.
LEMMA RestKeepsInv ==
    ASSUME WatchInv, NEW p \in Watchers, ~Writing(p), UNCHANGED << watchfile, owed, raced, disturbed >>,
           watcher' \in [Watchers -> Process], watcher'[p].at \in {"rest", "load"},
           \A q \in Watchers \ {p} : watcher'[q] = watcher[q]
    PROVE  WatchInv'
<1>1. \A q \in Watchers : Writing(q)' <=> Writing(q)
  BY DEF Writing
<1>2. WatchTypeOK' /\ ListsDistinct'
  BY DEF WatchInv, WatchTypeOK, ListsDistinct
<1>3. WritesApart'
  BY <1>1 DEF WatchInv, WritesApart, EmptyFile, NoFile
<1>4. ListsOwed'
  <2> SUFFICES ASSUME ~raced, ~disturbed PROVE ListsOwed'
    BY DEF ListsOwed
  <2>1. (\A q \in Watchers : ~Writing(q)') => ToSet(watchfile'.list) = owed'
    BY <1>1 DEF WatchInv, ListsOwed
  <2>2. ASSUME NEW q \in Watchers, watcher'[q].at = "save" /\ watcher'[q].fresh
        PROVE  /\ \A o \in Watchers : ~Writing(o)'
               /\ ToSet(watcher'[q].list) = OwedAfter(watcher[q])
               /\ watcher'[q] = watcher[q]
    <3>1. watcher'[q] = watcher[q]
      BY <2>2
    <3> QED
      BY <1>1, <2>2, <3>1 DEF WatchInv, ListsOwed
  <2>3. ASSUME NEW q \in Watchers, Writing(q)'
        PROVE  ToSet(watcher'[q].list) = OwedAfter(watcher[q]) /\ watcher'[q] = watcher[q]
    <3>1. watcher'[q] = watcher[q] /\ Writing(q)
      BY <1>1, <2>3
    <3> QED
      BY <3>1 DEF WatchInv, ListsOwed
  <2> QED
    BY <2>1, <2>2, <2>3 DEF ListsOwed, OwedAfter
<1> QED
  BY <1>2, <1>3, <1>4 DEF WatchInv

\* No process runs, and the file is not damaged: what it lists is owed.
LEMMA QuietIsSound ==
    ASSUME WatchTypeOK', IsInjective(watchfile'.list), \A q \in Watchers : watcher'[q].at \in {"rest", "load"},
           watchfile'.exists => watchfile'.ok, owed' = ToSet(watchfile'.list)
    PROVE  WatchInv'
<1>1. \A q \in Watchers : ~Writing(q)'
  BY DEF Writing
<1> QED
  BY <1>1 DEF WatchInv, ListsDistinct, WritesApart, ListsOwed

\* A command begins; after a rest, what the file holds is what is owed.
LEMMA BeginKeepsInv ==
    ASSUME WatchInv, NEW p \in Watchers, NEW cmd \in {"add", "remove", "list", "check"}, NEW name \in Listed,
           Begin(p, cmd, name)
    PROVE  WatchInv'
<1> DEFINE begun == [Resting EXCEPT !.at = "load", !.cmd = cmd, !.name = name]
<1>1. ~Busy(p) /\ watcher' = [watcher EXCEPT ![p] = begun] /\ watchfile' = watchfile
  BY DEF Begin
<1>2. begun \in Process /\ begun.at = "load"
  BY RestingProcess DEF Process
<1> HIDE DEF begun
<1>3. /\ watcher' \in [Watchers -> Process] /\ watcher'[p].at = "load"
      /\ \A q \in Watchers \ {p} : watcher'[q] = watcher[q]
  BY <1>1, <1>2 DEF WatchInv, WatchTypeOK
<1>4. CASE Quiet /\ (watchfile.exists => watchfile.ok)
  <2>1. owed' = ToSet(watchfile.list) /\ raced' = FALSE /\ disturbed' = FALSE
    BY <1>4 DEF Begin
  <2>2. \A q \in Watchers : watcher'[q].at \in {"rest", "load"}
    BY <1>3, <1>4 DEF Quiet, Busy
  <2>3. WatchTypeOK' /\ IsInjective(watchfile'.list)
    BY <1>1, <1>3, <2>1 DEF WatchInv, WatchTypeOK, ListsDistinct
  <2> QED
    BY <1>1, <1>4, <2>1, <2>2, <2>3, QuietIsSound
<1>5. CASE ~(Quiet /\ (watchfile.exists => watchfile.ok))
  <2>1. UNCHANGED << watchfile, owed, raced, disturbed >>
    BY <1>5 DEF Begin
  <2>2. ~Writing(p)
    BY <1>1 DEF Busy, Writing
  <2> QED
    BY <1>3, <2>1, <2>2, RestKeepsInv
<1> QED
  BY <1>4, <1>5

\* A command has loaded the list, which if it is to be changed is the one owed.
LEMMA LoadKeepsInv ==
    ASSUME WatchInv, NEW p \in Watchers, load_watchlist(p)
    PROVE  WatchInv'
<1> DEFINE me == watcher[p]
           list == watchfile.list
           new_list == Changed(me.cmd, list, me.name)
<1>1. UNCHANGED << watchfile, owed, raced, disturbed >> /\ me.at = "load" /\ ~Writing(p)
  BY DEF load_watchlist, Writing
<1>2. /\ list \in Seq(Listed) /\ IsInjective(list) /\ me \in Process
      /\ me.name \in Listed /\ me.cmd \in {"add", "remove", "list", "check"}
  BY DEF WatchInv, WatchTypeOK, ListsDistinct, Process, WatchFile
<1>3. ASSUME NEW result \in {"ok", "error"}, watcher' = End(p, result) PROVE WatchInv'
  BY <1>1, <1>3, EndRests, RestKeepsInv DEF WatchInv
<1>4. CASE ~(watchfile.exists /\ ~watchfile.ok) /\ ~NothingToDo(me.cmd, list, me.name)
  <2>1. /\ new_list \in Seq(Listed) /\ IsInjective(new_list)
        /\ ToSet(new_list) = IF me.cmd = "add" THEN ToSet(list) \cup {me.name} ELSE ToSet(list) \ {me.name}
    <3> HIDE DEF me, list
    <3>1. \A cmd \in {"add", "remove", "list", "check"}, name \in Listed :
              ~NothingToDo(cmd, list, name) =>
                  /\ Changed(cmd, list, name) \in Seq(Listed)
                  /\ IsInjective(Changed(cmd, list, name))
                  /\ ToSet(Changed(cmd, list, name)) =
                        IF cmd = "add" THEN ToSet(list) \cup {name} ELSE ToSet(list) \ {name}
      BY <1>2, ChangedRight
    <3> QED
      BY <1>2, <1>4, <3>1, Zenon
  <2>2. watcher' = [watcher EXCEPT ![p].at = "save", ![p].list = new_list]
    BY <1>4 DEF load_watchlist
  <2> HIDE DEF new_list
  <2>3. /\ watcher'[p].at = "save" /\ watcher'[p].list = new_list
        /\ watcher'[p].cmd = me.cmd /\ watcher'[p].name = me.name
        /\ watcher' \in [Watchers -> Process]
        /\ \A q \in Watchers \ {p} : watcher'[q] = watcher[q]
    <3>1. [me EXCEPT !.at = "save", !.list = new_list] \in Process
      BY <1>2, <2>1 DEF Process
    <3>2. watcher' = [watcher EXCEPT ![p] = [me EXCEPT !.at = "save", !.list = new_list]]
      BY <2>2
    <3>3. watcher'[p] = [me EXCEPT !.at = "save", !.list = new_list]
      BY <3>2 DEF WatchInv, WatchTypeOK
    <3> QED
      BY <1>2, <3>1, <3>2, <3>3 DEF WatchInv, WatchTypeOK, Process
  <2>4. \A q \in Watchers : Writing(q)' <=> Writing(q)
    BY <1>1, <2>3 DEF Writing
  <2>5. WatchTypeOK' /\ ListsDistinct'
    BY <1>1, <2>1, <2>3 DEF WatchInv, WatchTypeOK, ListsDistinct
  <2>6. WritesApart'
    BY <1>1, <2>4 DEF WatchInv, WritesApart, EmptyFile, NoFile
  <2>7. ListsOwed'
    <3> SUFFICES ASSUME ~raced, ~disturbed PROVE ListsOwed'
      BY <1>1 DEF ListsOwed
    <3>1. \A q \in Watchers : ~Writing(q)
      <4>1. EmptyFile.exists /\ ~EmptyFile.ok
        BY DEF EmptyFile, NoFile
      <4> QED
        BY <4>1, <1>4 DEF WatchInv, WritesApart
    <3>2. ToSet(list) = owed
      BY <3>1 DEF WatchInv, ListsOwed
    <3>3. ToSet(new_list) = OwedAfter(me)
      BY <2>1, <3>2 DEF OwedAfter
    <3>4. ASSUME NEW q \in Watchers, watcher'[q].at = "save", watcher'[q].fresh
          PROVE  ToSet(watcher'[q].list) =
                     IF watcher'[q].cmd = "add" THEN owed \cup {watcher'[q].name} ELSE owed \ {watcher'[q].name}
      <4>1. CASE q = p
        BY <4>1, <2>3, <3>3 DEF OwedAfter
      <4>2. CASE q # p
        <5>1. watcher'[q] = watcher[q]
          BY <4>2, <2>3
        <5> QED
          BY <5>1, <3>4 DEF WatchInv, ListsOwed, OwedAfter
      <4> QED
        BY <4>1, <4>2
    <3> QED
      BY <1>1, <2>4, <3>1, <3>2, <3>4 DEF ListsOwed, OwedAfter
  <2> QED
    BY <2>5, <2>6, <2>7 DEF WatchInv
<1> QED
  BY <1>3, <1>4 DEF load_watchlist

\* The file is truncated: what the process will write is owed then, or it is a race;
\* no other write runs, or it is a disturbance.
LEMMA OpenKeepsInv ==
    ASSUME WatchInv, NEW p \in Watchers, OpenToWrite(p)
    PROVE  WatchInv'
<1>1. /\ watcher[p].at = "save"
      /\ watchfile' = EmptyFile
      /\ watcher' = [q \in Watchers |->
            IF q = p THEN [watcher[q] EXCEPT !.at = "writing"]
            ELSE IF watcher[q].at = "save" THEN [watcher[q] EXCEPT !.fresh = FALSE] ELSE watcher[q]]
      /\ raced' = (raced \/ ~watcher[p].fresh)
      /\ disturbed' = (disturbed \/ \E q \in Watchers : Writing(q))
      /\ owed' = owed
  BY DEF OpenToWrite, truncated
<1>2. /\ EmptyFile \in WatchFile /\ EmptyFile.list = << >> /\ IsInjective(<< >>)
  BY FilesWithoutList
<1>3. \A q \in Watchers :
          /\ watcher[q] \in Process
          /\ [watcher[q] EXCEPT !.at = "writing"] \in Process
          /\ [watcher[q] EXCEPT !.fresh = FALSE] \in Process
  BY DEF WatchInv, WatchTypeOK, Process
<1>4. watcher' \in [Watchers -> Process]
  BY <1>1, <1>3
<1>5. \A q \in Watchers :
          /\ watcher'[q].list = watcher[q].list
          /\ watcher'[q].cmd = watcher[q].cmd
          /\ watcher'[q].name = watcher[q].name
          /\ watcher'[q].at = IF q = p THEN "writing" ELSE watcher[q].at
          /\ q # p /\ watcher'[q].at = "save" => ~watcher'[q].fresh
  BY <1>1, <1>3 DEF Process
<1>6. WatchTypeOK' /\ ListsDistinct'
  <2>1. raced' \in BOOLEAN /\ disturbed' \in BOOLEAN
    BY <1>1
  <2>2. watchfile' \in WatchFile /\ IsInjective(watchfile'.list)
    BY <1>1, <1>2
  <2>3. \A q \in Watchers : watcher'[q].at \in {"save", "writing"} => IsInjective(watcher'[q].list)
    BY <1>1, <1>5 DEF WatchInv, ListsDistinct
  <2> QED
    BY <1>4, <2>1, <2>2, <2>3 DEF WatchTypeOK, ListsDistinct
<1>7. \A q \in Watchers : Writing(q)' <=> q = p \/ Writing(q)
  BY <1>5 DEF Writing
<1>8. WritesApart'
  BY <1>1, <1>7 DEF WritesApart
<1>9. ListsOwed'
  <2> SUFFICES ASSUME ~raced', ~disturbed' PROVE ListsOwed'
    BY DEF ListsOwed
  <2>1. /\ ~raced /\ ~disturbed /\ watcher[p].fresh
        /\ \A q \in Watchers : ~Writing(q)
    BY <1>1
  <2>2. ToSet(watcher[p].list) = OwedAfter(watcher[p])
    BY <1>1, <2>1 DEF WatchInv, ListsOwed
  <2>3. \A q \in Watchers : ~(watcher'[q].at = "save" /\ watcher'[q].fresh)
    BY <1>5
  <2>4. \A q \in Watchers : Writing(q)' => q = p
    BY <1>7, <2>1
  <2>5. Writing(p)'
    BY <1>7
  <2>6. ToSet(watcher'[p].list) = OwedAfter(watcher[p])'
    BY <1>1, <1>5, <2>2 DEF OwedAfter
  <2> QED
    BY <2>3, <2>4, <2>5, <2>6 DEF ListsOwed, OwedAfter
<1> QED
  BY <1>6, <1>8, <1>9 DEF WatchInv

\* The list is written over what the file holds, which is nothing unless another
\* process has written since; then the change is owed.
LEMMA WriteKeepsInv ==
    ASSUME WatchInv, NEW p \in Watchers, Write(p)
    PROVE  WatchInv'
<1> DEFINE new_file == FileOf(watcher[p].list)
<1>1. /\ Writing(p)
      /\ watchfile' = IF new_file.size >= watchfile.size THEN new_file
                      ELSE [watchfile EXCEPT !.ok = FALSE, !.list = << >>]
      /\ watcher' = End(p, "ok")
      /\ owed' = OwedAfter(watcher[p])
      /\ raced' = raced /\ disturbed' = disturbed
  BY DEF Write, OwedAfter
<1>2. /\ EmptyFile.size = 0 /\ IsInjective(<< >>)
  BY FilesWithoutList
<1>3. /\ watcher[p].list \in Seq(Listed)
      /\ IsInjective(watcher[p].list)
  BY <1>1 DEF WatchInv, WatchTypeOK, ListsDistinct, Process, Writing
<1>4. /\ new_file \in WatchFile
      /\ new_file.list = watcher[p].list /\ new_file.ok /\ new_file.size \in Nat
  BY <1>3 DEF FileOf, WatchFile
<1> HIDE DEF new_file
<1>5. /\ watcher' \in [Watchers -> Process] /\ watcher'[p].at = "rest"
      /\ \A q \in Watchers \ {p} : watcher'[q] = watcher[q]
  BY <1>1, EndRests DEF WatchInv
<1>6. /\ watchfile' \in WatchFile
      /\ watchfile'.list \in {watcher[p].list, << >>}
  <2>1. watchfile \in WatchFile /\ << >> \in Seq(Listed)
    BY DEF WatchInv, WatchTypeOK
  <2>2. /\ [watchfile EXCEPT !.ok = FALSE, !.list = << >>] \in WatchFile
        /\ [watchfile EXCEPT !.ok = FALSE, !.list = << >>].list = << >>
    BY <2>1 DEF WatchFile
  <2> QED
    BY <1>1, <1>4, <2>2
<1>7. WatchTypeOK' /\ ListsDistinct'
  <2>1. IsInjective(watchfile'.list)
    BY <1>2, <1>3, <1>6
  <2>2. \A q \in Watchers : watcher'[q].at \in {"save", "writing"} => IsInjective(watcher'[q].list)
    BY <1>5 DEF WatchInv, ListsDistinct
  <2> QED
    BY <1>1, <1>5, <1>6, <2>1, <2>2 DEF WatchInv, WatchTypeOK, ListsDistinct
<1>8. \A q \in Watchers : Writing(q)' <=> q # p /\ Writing(q)
  BY <1>5 DEF Writing
<1>9. ~disturbed => watchfile' = new_file /\ \A q \in Watchers : ~Writing(q)'
  BY <1>1, <1>2, <1>4, <1>8 DEF WatchInv, WritesApart
<1>10. WritesApart'
  BY <1>1, <1>4, <1>9 DEF WritesApart
<1>11. ListsOwed'
  <2> SUFFICES ASSUME ~raced, ~disturbed PROVE ListsOwed'
    BY <1>1 DEF ListsOwed
  <2>1. ToSet(watchfile'.list) = owed'
    BY <1>1, <1>4, <1>9 DEF WatchInv, ListsOwed
  <2>2. \A q \in Watchers : ~(watcher'[q].at = "save" /\ watcher'[q].fresh)
    BY <1>1, <1>5 DEF WatchInv, ListsOwed
  <2> QED
    BY <1>9, <2>1, <2>2 DEF ListsOwed
<1> QED
  BY <1>7, <1>10, <1>11 DEF WatchInv

\* A write that is cut off is a disturbance, and leaves no list that parses, or the
\* file as it was.
LEMMA CutOffKeepsInv ==
    ASSUME WatchInv, NEW p \in Watchers, Writing(p), cut_off(p), NEW result \in {"none", "ok", "error"},
           watcher' = End(p, result), UNCHANGED << owed, raced >>
    PROVE  WatchInv'
<1>1. disturbed' = TRUE
  BY DEF cut_off
<1>2. watchfile' \in WatchFile /\ IsInjective(watchfile'.list)
  <2>1. CASE watchfile' = watchfile
    BY <2>1 DEF WatchInv, WatchTypeOK, ListsDistinct
  <2>2. CASE watchfile' # watchfile
    <3>0. Len(watcher[p].list) \in Nat
      BY DEF WatchInv, WatchTypeOK, Process
    <3>1. PICK n \in 1 .. Len(watcher[p].list) + 1 :
              watchfile' = [EmptyFile EXCEPT !.size = IF n > watchfile.size THEN n ELSE watchfile.size]
      BY <2>2 DEF cut_off
    <3>2. (IF n > watchfile.size THEN n ELSE watchfile.size) \in Nat
      BY <3>0 DEF WatchInv, WatchTypeOK, WatchFile
    <3>3. \A m \in Nat : [EmptyFile EXCEPT !.size = m] \in WatchFile /\ [EmptyFile EXCEPT !.size = m].list = << >>
      BY FilesWithoutList DEF WatchFile
    <3> QED
      BY <3>1, <3>2, <3>3, FilesWithoutList
  <2> QED
    BY <2>1, <2>2
<1>3. /\ watcher' \in [Watchers -> Process] /\ watcher'[p].at = "rest"
      /\ \A q \in Watchers \ {p} : watcher'[q] = watcher[q]
  BY EndRests DEF WatchInv
<1>4. WatchTypeOK' /\ ListsDistinct'
  <2>1. \A q \in Watchers : watcher'[q].at \in {"save", "writing"} => IsInjective(watcher'[q].list)
    BY <1>3 DEF WatchInv, ListsDistinct
  <2> QED
    BY <1>1, <1>2, <1>3, <2>1 DEF WatchInv, WatchTypeOK, ListsDistinct
<1> QED
  BY <1>1, <1>4 DEF WatchInv, WritesApart, ListsOwed

\* A process is killed.
LEMMA KillKeepsInv ==
    ASSUME WatchInv, NEW p \in Watchers, Kill(p)
    PROVE  WatchInv'
<1>1. watcher' = End(p, "none") /\ UNCHANGED << owed, raced >>
  BY DEF Kill
<1>2. CASE Writing(p)
  BY <1>1, <1>2, CutOffKeepsInv DEF Kill
<1>3. CASE ~Writing(p)
  <2>1. UNCHANGED << watchfile, disturbed >>
    BY <1>3 DEF Kill
  <2> QED
    BY <1>1, <1>3, <2>1, EndRests, RestKeepsInv DEF WatchInv
<1> QED
  BY <1>2, <1>3

\* The user deletes a damaged file while no command runs.
LEMMA RepairKeepsInv ==
    ASSUME WatchInv, Repair
    PROVE  WatchInv'
<1>1. /\ \A q \in Watchers : watcher'[q].at = "rest"
      /\ watchfile' = NoFile /\ disturbed' = FALSE /\ raced' = FALSE /\ owed' = {} /\ watcher' = watcher
  BY DEF Repair, Quiet, Busy
<1>2. /\ NoFile \in WatchFile /\ NoFile.list = << >> /\ ~NoFile.exists
      /\ IsInjective(<< >>) /\ ToSet(<< >>) = {}
  BY FilesWithoutList
<1>3. WatchTypeOK'
  BY <1>1, <1>2 DEF WatchInv, WatchTypeOK
<1> QED
  BY <1>1, <1>2, <1>3, QuietIsSound

\* For any number of processes and names: the file is damaged only by a write that
\* was cut off or overlapped another; and as long as there was none, and no list
\* was saved that another save had made stale, the file lists exactly the names
\* that all the changes reported as done leave, each once.
THEOREM WatchlistIsSound == WatchSpec => []WatchlistSound
<1>1. WatchInit => WatchInv
  <2> SUFFICES ASSUME WatchInit PROVE WatchInv
    OBVIOUS
  <2>1. /\ NoFile \in WatchFile /\ NoFile.list = << >> /\ ~NoFile.exists
        /\ IsInjective(<< >>) /\ ToSet(<< >>) = {}
    BY FilesWithoutList
  <2>2. WatchTypeOK
    BY <2>1, RestingProcess DEF WatchInit, WatchTypeOK
  <2>3. \A p \in Watchers : watcher[p].at = "rest"
    BY RestingProcess DEF WatchInit
  <2>4. \A p \in Watchers : ~Writing(p)
    BY <2>3 DEF Writing
  <2> QED
    BY <2>1, <2>2, <2>3, <2>4 DEF WatchInit, WatchInv, ListsDistinct, WritesApart, ListsOwed
<1>2. WatchInv /\ [WatchStep]_watchVars => WatchInv'
  <2> SUFFICES ASSUME WatchInv, [WatchStep]_watchVars PROVE WatchInv'
    OBVIOUS
  <2>1. ASSUME NEW p \in Watchers, NEW cmd \in {"add", "remove"}, NEW name \in WatchedNames, Begin(p, cmd, name)
        PROVE  WatchInv'
    BY <2>1, BeginKeepsInv DEF Listed
  <2>2. ASSUME NEW p \in Watchers, NEW cmd \in {"list", "check"}, Begin(p, cmd, "-") PROVE WatchInv'
    BY <2>2, BeginKeepsInv DEF Listed
  <2>3. ASSUME NEW p \in Watchers, OpenFails(p) PROVE WatchInv'
    <3>1. ~Writing(p) /\ watcher' = End(p, "error") /\ UNCHANGED << watchfile, owed, raced, disturbed >>
      BY <2>3 DEF OpenFails, Writing
    <3> QED
      BY <3>1, EndRests, RestKeepsInv DEF WatchInv
  <2>4. ASSUME NEW p \in Watchers, WriteFails(p) PROVE WatchInv'
    BY <2>4, CutOffKeepsInv DEF WriteFails
  <2>5. CASE UNCHANGED watchVars
    BY <2>5 DEF watchVars, WatchInv, WatchTypeOK, ListsDistinct, WritesApart, ListsOwed, OwedAfter, Writing
  <2> QED
    BY <2>1, <2>2, <2>3, <2>4, <2>5, LoadKeepsInv, OpenKeepsInv, WriteKeepsInv, KillKeepsInv, RepairKeepsInv
       DEF WatchStep
<1>3. WatchInv => WatchlistSound
  BY DEF WatchInv, WritesApart, ListsDistinct, ListsOwed, WatchlistSound, DamageNeedsDisturbance, UpdatesKept
<1> QED
  BY <1>1, <1>2, <1>3, PTL DEF WatchSpec

-----------------------------------------------------------------------------
(* The health monitor. *)

Snapshot == [good : Nat, of : Nat, total : Nat, volume : Nat]

\* The registrations the next snapshot after a history will report.
NextTotal(history) == IF history = << >> THEN FirstTotal ELSE history[Len(history)].total + 1

Alerts == {"failure rate", "storage", "spike", "no registrations"}

MonitorTypeOK ==
    /\ monitor \in [at : {"stopped", "poll", "save", "writing"}, works : BOOLEAN,
                    history : Seq(Snapshot), alerts : SUBSET Alerts, first : BOOLEAN]
    /\ metricsdb \in [ok : BOOLEAN, history : Seq(Snapshot)]
    /\ reported \in Nat /\ saved \in Nat
    /\ torn \in BOOLEAN

\* What a daemon that has polled has reported last.
Remembered ==
    /\ ~monitor.first =>
          monitor.history # << >> /\ monitor.history[Len(monitor.history)].total = reported
    /\ monitor.at \in {"save", "writing"} => ~monitor.first

\* Unless a write was cut off, neither the daemon nor one that would be started now
\* goes on from less than what was written out last.
Kept ==
    ~torn =>
        /\ monitor.at # "writing" => NextTotal(load_from_file) > saved
        /\ monitor.at # "stopped" => NextTotal(monitor.history) > saved

MonitorInv == MonitorTypeOK /\ Remembered /\ Kept

\* A snapshot's total is the next one.
LEMMA SnapshotOf ==
    ASSUME NEW history \in Seq(Snapshot), NEW success \in BOOLEAN
    PROVE  snapshot_of(history, success) \in Snapshot /\ snapshot_of(history, success).total = NextTotal(history)
<1> DEFINE newest == history[Len(history)]
           recent == suffix(history, 5)
           good == Cardinality({i \in DOMAIN recent : Counted(recent[i])})
<1>1. history # << >> => newest \in Snapshot
  OBVIOUS
<1>2. NextTotal(history) \in Nat
  BY <1>1, MonitorAssumption DEF NextTotal, Snapshot
<1>3. recent \in Seq(Snapshot)
  BY DEF suffix
<1>4. good \in Nat
  <2>1. DOMAIN recent = 1 .. Len(recent) /\ Len(recent) \in Nat
    BY <1>3
  <2>2. IsFiniteSet(1 .. Len(recent))
    BY <2>1, FS_Interval
  <2>3. IsFiniteSet({i \in DOMAIN recent : Counted(recent[i])})
    BY <2>1, <2>2, FS_Subset
  <2> QED
    BY <2>3, FS_CardinalityType
<1>5. success_rate(history, success).good \in Nat /\ success_rate(history, success).of \in Nat
  <2>1. Len(recent) \in Nat
    BY <1>3
  <2> HIDE DEF good, recent
  <2>2. success_rate(history, success) =
          IF history = << >> THEN [good |-> IF success THEN 1 ELSE 0, of |-> 1]
          ELSE [good |-> good + (IF success THEN 1 ELSE 0), of |-> Len(recent) + 1]
    BY DEF success_rate, good, recent
  <2> QED
    BY <2>1, <2>2, <1>4
<1>6. history # << >> => NextTotal(history) = newest.total + 1 /\ newest.total \in Nat
  BY <1>1 DEF NextTotal, Snapshot
<1> DEFINE snap == snapshot_of(history, success)
<1>7. snap = [good |-> success_rate(history, success).good, of |-> success_rate(history, success).of,
              total |-> NextTotal(history),
              volume |-> IF history = << >> \/ NextTotal(history) <= newest.total THEN 1 ELSE NextTotal(history) - newest.total]
  BY DEF snapshot_of, NextTotal
<1>8. (IF history = << >> \/ NextTotal(history) <= newest.total THEN 1 ELSE NextTotal(history) - newest.total) \in Nat
  BY <1>2, <1>6
<1> QED
  BY <1>2, <1>5, <1>7, <1>8 DEF Snapshot

\* What a daemon finds in the file is a history.
LEMMA LoadIsHistory == MonitorTypeOK => load_from_file \in Seq(Snapshot)
<1>1. << >> \in Seq(Snapshot)
  OBVIOUS
<1> QED
  BY <1>1 DEF MonitorTypeOK, load_from_file

\* The total of the newest snapshot is one below the next.
LEMMA NextIsMore ==
    ASSUME NEW history \in Seq(Snapshot)
    PROVE  /\ NextTotal(history) \in Nat
           /\ history # << >> => /\ history[Len(history)].total \in Nat
                                /\ NextTotal(history) = history[Len(history)].total + 1
<1>1. history # << >> => history[Len(history)] \in Snapshot
  OBVIOUS
<1> QED
  BY <1>1, MonitorAssumption DEF NextTotal, Snapshot

\* Every step of the daemon keeps the types and what the next report will be, and
\* a poll reports more than its daemon's last one, and than what was written out.
LEMMA MonitorStepKeeps ==
    ASSUME MonitorInv, [MonitorStep]_monitorVars
    PROVE  /\ MonitorInv'
           /\ probes' # probes =>
                 /\ monitor.first \/ reported' > reported
                 /\ torn \/ reported' > saved
<1> DEFINE h == monitor.history
<1>0. /\ monitor \in [at : {"stopped", "poll", "save", "writing"}, works : BOOLEAN,
                      history : Seq(Snapshot), alerts : SUBSET Alerts, first : BOOLEAN]
      /\ metricsdb \in [ok : BOOLEAN, history : Seq(Snapshot)]
      /\ reported \in Nat /\ saved \in Nat /\ torn \in BOOLEAN
      /\ << >> \in Seq(Snapshot)
  BY DEF MonitorInv, MonitorTypeOK
<1>1. load_from_file \in Seq(Snapshot)
  BY LoadIsHistory DEF MonitorInv
<1>2. ASSUME NEW works \in BOOLEAN, StartDaemon(works)
      PROVE  MonitorInv' /\ probes' = probes
  <2>1. /\ monitor.at = "stopped"
        /\ monitor' = [at |-> "poll", works |-> works, history |-> load_from_file, alerts |-> {}, first |-> TRUE]
        /\ UNCHANGED << metricsdb, probes, reported, saved, torn >>
    BY <1>2 DEF StartDaemon, Stopped
  <2>2. MonitorTypeOK'
    BY <1>0, <1>1, <2>1 DEF MonitorTypeOK
  <2>3. load_from_file' = load_from_file
    BY <2>1 DEF load_from_file
  <2>4. Kept' /\ Remembered'
    BY <2>1, <2>3 DEF Kept, Remembered, MonitorInv
  <2> QED
    BY <2>1, <2>2, <2>4 DEF MonitorInv
<1>3. ASSUME Poll
      PROVE  MonitorInv' /\ (monitor.first \/ reported' > reported) /\ (torn \/ reported' > saved)
  <2> DEFINE latest == snapshot_of(h, monitor.works)
  <2>1. /\ monitor.at = "poll"
        /\ monitor' = [monitor EXCEPT !.at = "save", !.alerts = evaluate_thresholds(h, latest),
                          !.history = Append(@, latest), !.first = FALSE]
        /\ reported' = latest.total
        /\ UNCHANGED << metricsdb, saved, torn >>
    BY <1>3 DEF Poll
  <2>2. latest \in Snapshot /\ latest.total = NextTotal(h)
    BY <1>0, SnapshotOf
  <2>3. evaluate_thresholds(h, latest) \in SUBSET Alerts
    BY DEF evaluate_thresholds, Alerts
  <2> HIDE DEF latest
  <2>4. h \in Seq(Snapshot) /\ Append(h, latest) \in Seq(Snapshot)
    BY <1>0, <2>2
  <2>5. Append(h, latest) # << >> /\ Append(h, latest)[Len(Append(h, latest))] = latest
    BY <2>2, <2>4
  <2>6. monitor'.at = "save" /\ monitor'.history = Append(h, latest) /\ monitor'.first = FALSE
    BY <1>0, <2>1
  <2>7. MonitorTypeOK'
    BY <1>0, <2>1, <2>2, <2>3, <2>4 DEF MonitorTypeOK, Snapshot
  <2>8. load_from_file' = load_from_file
    BY <2>1 DEF load_from_file
  <2>9. Remembered'
    BY <2>1, <2>5, <2>6 DEF Remembered
  <2>10. NextTotal(h) \in Nat /\ NextTotal(Append(h, latest)) = NextTotal(h) + 1
    BY <2>2, <2>4, <2>5, NextIsMore
  <2>11. ~torn => NextTotal(load_from_file) > saved /\ NextTotal(h) > saved
    BY <2>1 DEF MonitorInv, Kept
  <2>12. Kept'
    BY <1>0, <2>1, <2>6, <2>8, <2>10, <2>11 DEF Kept, NextTotal
  <2>13. ~monitor.first => NextTotal(h) = reported + 1
    BY <2>4, NextIsMore DEF MonitorInv, Remembered
  <2>14. (monitor.first \/ reported' > reported) /\ (torn \/ reported' > saved)
    BY <1>0, <2>1, <2>2, <2>11, <2>13
  <2> QED
    BY <2>7, <2>9, <2>12, <2>14 DEF MonitorInv
<1>4. ASSUME OpenHistory PROVE MonitorInv' /\ probes' = probes
  <2>1. /\ monitor.at = "save"
        /\ monitor' = [monitor EXCEPT !.at = "writing"]
        /\ metricsdb' = [ok |-> FALSE, history |-> << >>]
        /\ UNCHANGED << probes, reported, saved, torn >>
    BY <1>4 DEF OpenHistory
  <2>2. MonitorTypeOK'
    BY <1>0, <2>1 DEF MonitorTypeOK
  <2>3. monitor'.at = "writing" /\ monitor'.history = h /\ monitor'.first = monitor.first
    BY <1>0, <2>1
  <2> QED
    BY <2>1, <2>2, <2>3 DEF MonitorInv, Remembered, Kept, NextTotal
<1>5. ASSUME WriteHistory PROVE MonitorInv' /\ probes' = probes
  <2>1. /\ monitor.at = "writing"
        /\ monitor' = [monitor EXCEPT !.at = "poll"]
        /\ metricsdb' = [ok |-> TRUE, history |-> h]
        /\ torn' = FALSE /\ saved' = h[Len(h)].total /\ UNCHANGED << probes, reported >>
    BY <1>5 DEF WriteHistory, goes_on
  <2>2. h \in Seq(Snapshot) /\ h # << >> /\ h[Len(h)].total = reported
    BY <1>0, <2>1 DEF MonitorInv, Remembered
  <2>3. MonitorTypeOK'
    BY <1>0, <2>1, <2>2 DEF MonitorTypeOK
  <2>4. monitor'.at = "poll" /\ monitor'.history = h /\ monitor'.first = monitor.first
    BY <1>0, <2>1
  <2>5. load_from_file' = h
    BY <2>1 DEF load_from_file
  <2>6. NextTotal(h) > h[Len(h)].total
    BY <2>2, NextIsMore
  <2>7. Kept'
    BY <2>1, <2>4, <2>5, <2>6 DEF Kept, NextTotal
  <2> QED
    BY <2>1, <2>2, <2>3, <2>4, <2>7 DEF MonitorInv, Remembered
<1>6. ASSUME OpenHistoryFails \/ WriteHistoryFails PROVE MonitorInv' /\ probes' = probes
  <2>1. /\ monitor' = [monitor EXCEPT !.at = "poll"]
        /\ torn => torn'
        /\ torn' \in BOOLEAN /\ (monitor.at = "save" \/ torn')
        /\ UNCHANGED << metricsdb, probes, reported, saved >>
    BY <1>0, <1>6 DEF OpenHistoryFails, WriteHistoryFails, goes_on
  <2>2. MonitorTypeOK'
    BY <1>0, <2>1 DEF MonitorTypeOK
  <2>3. monitor'.at = "poll" /\ monitor'.history = h /\ monitor'.first = monitor.first
    BY <1>0, <2>1
  <2>4. load_from_file' = load_from_file
    BY <2>1 DEF load_from_file
  <2>5. Kept'
    <3> SUFFICES ASSUME ~torn' PROVE Kept'
      BY DEF Kept
    <3>1. ~torn /\ monitor.at = "save"
      BY <1>0, <2>1
    <3>2. NextTotal(load_from_file) > saved /\ NextTotal(h) > saved
      BY <3>1 DEF MonitorInv, Kept
    <3> QED
      BY <2>1, <2>3, <2>4, <3>2 DEF Kept, NextTotal
  <2> QED
    BY <2>1, <2>2, <2>3, <2>5 DEF MonitorInv, Remembered
<1>7. ASSUME StopDaemon PROVE MonitorInv' /\ probes' = probes
  <2>1. /\ monitor' = Stopped
        /\ torn' = (torn \/ monitor.at = "writing")
        /\ UNCHANGED << metricsdb, probes, reported, saved >>
    BY <1>7 DEF StopDaemon
  <2>2. MonitorTypeOK'
    BY <1>0, <2>1 DEF MonitorTypeOK, Stopped
  <2>3. load_from_file' = load_from_file
    BY <2>1 DEF load_from_file
  <2>4. monitor'.at = "stopped" /\ monitor'.first
    BY <2>1 DEF Stopped
  <2>5. Kept'
    BY <2>1, <2>3, <2>4 DEF Kept, MonitorInv
  <2> QED
    BY <2>1, <2>2, <2>4, <2>5 DEF MonitorInv, Remembered
<1>8. ASSUME UNCHANGED monitorVars PROVE MonitorInv' /\ probes' = probes
  BY <1>8 DEF monitorVars, MonitorInv, MonitorTypeOK, Remembered, Kept, load_from_file
<1> QED
  BY <1>2, <1>3, <1>4, <1>5, <1>6, <1>7, <1>8 DEF MonitorStep

\* Each poll reports more registrations than the last one of the same daemon, and
\* more than the last history that was written out, whatever was skipped, failed
\* or was killed since: unless a write was cut off after the truncation, when
\* nothing is promised until a history is written out again.
THEOREM ReportsNeverGoBack == MonitorSpec => ReportsGrow
<1>1. MonitorInit => MonitorInv
  <2> SUFFICES ASSUME MonitorInit PROVE MonitorInv
    OBVIOUS
  <2>1. << >> \in Seq(Snapshot)
    OBVIOUS
  <2>2. MonitorTypeOK
    BY <2>1 DEF MonitorInit, MonitorTypeOK, Stopped
  <2>3. NextTotal(load_from_file) > 0
    BY MonitorAssumption DEF MonitorInit, NextTotal, load_from_file
  <2> QED
    BY <2>2, <2>3 DEF MonitorInit, MonitorInv, Remembered, Kept, Stopped
<1>2. MonitorInv /\ [MonitorStep]_monitorVars =>
          /\ MonitorInv'
          /\ [probes' # probes =>
                /\ monitor.first \/ reported' > reported
                /\ torn \/ reported' > saved]_monitorVars
  BY MonitorStepKeeps
<1> QED
  BY <1>1, <1>2, PTL DEF MonitorSpec, ReportsGrow

-----------------------------------------------------------------------------
(* The portfolio loop. *)

Listing ==
    [at : {"off", "fetch", "done", "failed"}, total : Nat, batch : Nat \ {0}, limit : Nat \cup {Unset},
     page : Nat \cup {Unset}, cursor : Nat, size : Nat \ {0}, names : Seq(Nat)]

\* n names from the one after first.
Slice(first, n) == [i \in 1 .. n |-> first + i]

\* While it fetches, the names before the cursor are listed, or none are if one
\* page was asked for.
Fetching ==
    listing.at = "fetch" =>
        IF listing.page = Unset
        THEN /\ listing.names = Slice(0, listing.cursor)
             /\ listing.cursor <= listing.total
             /\ listing.limit # Unset => listing.cursor <= listing.limit
        ELSE /\ listing.names = << >>
             /\ listing.cursor = (Most(listing.page, 1) - 1) * listing.batch

ListingInv == listing \in Listing /\ Fetching /\ PortfolioExact

\* A slice is as long as it says.
LEMMA SliceLength ==
    ASSUME NEW first \in Nat, NEW n \in Nat
    PROVE  Slice(first, n) \in Seq(Nat) /\ Len(Slice(first, n)) = n
<1>1. Slice(first, n) \in Seq(Nat)
  BY DEF Slice
<1> QED
  BY <1>1 DEF Slice

\* The names before the cursor and the page after it.
LEMMA SlicesJoin ==
    ASSUME NEW m \in Nat, NEW n \in Nat
    PROVE  Slice(0, m) \o Slice(m, n) = Slice(0, m + n)
<1> DEFINE a == Slice(0, m)
           b == Slice(m, n)
<1>1. /\ a \in Seq(Nat) /\ Len(a) = m /\ \A i \in 1 .. m : a[i] = i
      /\ b \in Seq(Nat) /\ Len(b) = n /\ \A i \in 1 .. n : b[i] = m + i
  BY SliceLength DEF Slice
<1> HIDE DEF a, b
<1>2. a \o b \in Seq(Nat) /\ Len(a \o b) = m + n
  BY <1>1
<1>3. ASSUME NEW i \in 1 .. m + n PROVE (a \o b)[i] = i
  <2>1. CASE i <= m
    BY <1>1, <2>1
  <2>2. CASE ~(i <= m)
    <3>1. i - m \in 1 .. n /\ m + (i - m) = i
      BY <2>2
    <3>2. (a \o b)[i] = b[i - m]
      BY <1>1, <2>2
    <3> QED
      BY <1>1, <3>1, <3>2
  <2> QED
    BY <2>1, <2>2
<1>4. a \o b = [i \in 1 .. m + n |-> i]
  <2> DEFINE s == a \o b
  <2>1. s \in Seq(Nat) /\ Len(s) = m + n /\ \A i \in 1 .. m + n : s[i] = i
    BY <1>2, <1>3
  <2> HIDE DEF s
  <2>2. s = [i \in 1 .. Len(s) |-> s[i]]
    BY <2>1
  <2>3. s = [i \in 1 .. m + n |-> i]
    BY <2>1, <2>2
  <2> QED
    BY <2>3 DEF s
<1>5. Slice(0, m + n) = [i \in 1 .. m + n |-> i]
  <2>1. \A i \in 1 .. m + n : 0 + i = i
    OBVIOUS
  <2> QED
    BY <2>1 DEF Slice
<1> QED
  BY <1>4, <1>5 DEF a, b

\* The length of a page, in the terms of PortfolioExact.
LEMMA PageLength ==
    ASSUME NEW total \in Nat, NEW first \in Nat, NEW batch \in Nat, NEW cap \in Nat,
           NEW r \in Nat, r = Least(batch, cap) \/ (r = batch /\ cap = total)
    PROVE  Least(Least(first, total) + r, total) - Least(first, total) =
               Most(Least(Least(batch, cap), total - first), 0)
BY DEF Least, Most


\* PortfolioExact of a listing that is done.
LEMMA ExactWhenDone ==
    ASSUME NEW l, listing' = l, l \in Listing,
           l.at = "done" /\ (l.page = Unset \/ l.size = l.batch) =>
              LET cap == IF l.limit = Unset THEN l.total ELSE l.limit
              IN  l.names = IF l.page = Unset THEN Slice(0, Most(Least(cap, l.total - 0), 0))
                            ELSE LET first == (Most(l.page, 1) - 1) * l.batch
                                 IN  Slice(first, Most(Least(Least(l.batch, cap), l.total - first), 0))
    PROVE  PortfolioExact'
BY DEF PortfolioExact, Slice

\* StartListing: the cursor is at the page asked for, or at the first name.
LEMMA StartKeepsListing ==
    ASSUME NEW total \in Nat, NEW batch_size \in Nat, NEW limit \in Nat \cup {Unset},
           NEW page \in Nat \cup {Unset}, StartListing(total, batch_size, limit, page)
    PROVE  ListingInv'
<1> DEFINE batch == Most(batch_size, MIN_BATCH_SIZE)
           cursor == IF page = Unset THEN 0 ELSE (Most(page, 1) - 1) * batch
<1>1. batch \in Nat \ {0}
  BY DEF Most, MIN_BATCH_SIZE
<1>2. cursor \in Nat
  <2>1. page # Unset => Most(page, 1) - 1 \in Nat
    BY DEF Most
  <2>2. \A a \in Nat, b \in Nat : a * b \in Nat
    OBVIOUS
  <2> QED
    BY <1>1, <2>1, <2>2
<1>3. listing' = [at |-> "fetch", total |-> total, batch |-> batch, limit |-> limit,
                  page |-> page, cursor |-> cursor, size |-> batch, names |-> << >>]
  BY DEF StartListing
<1> HIDE DEF batch
<1>4. page = Unset => cursor = 0
  OBVIOUS
<1>5. page # Unset => cursor = (Most(page, 1) - 1) * batch
  OBVIOUS
<1> HIDE DEF cursor
<1>6. listing' \in Listing
  <2>1. << >> \in Seq(Nat)
    OBVIOUS
  <2> QED
    BY <1>1, <1>2, <1>3, <2>1 DEF Listing
<1>7. Slice(0, 0) = << >>
  BY DEF Slice
<1>8. Fetching'
  BY <1>3, <1>4, <1>5, <1>7 DEF Fetching, Unset
<1>9. PortfolioExact'
  BY <1>3 DEF PortfolioExact
<1> QED
  BY <1>6, <1>8, <1>9 DEF ListingInv

\* The limit is reached: all that was asked for is listed.
LEMMA LimitKeepsListing ==
    ASSUME ListingInv, LimitReached
    PROVE  ListingInv'
<1> DEFINE l == [listing EXCEPT !.at = "done"]
<1>1. listing \in Listing /\ listing.at = "fetch" /\ listing.limit = Len(listing.names) /\ listing' = l
  BY DEF ListingInv, LimitReached
<1>2. l \in Listing /\ l.at = "done"
  BY <1>1 DEF Listing
<1>3. /\ l.limit = listing.limit /\ l.page = listing.page /\ l.total = listing.total
      /\ l.batch = listing.batch /\ l.names = listing.names
  BY <1>1 DEF Listing
<1> HIDE DEF l
<1>4. listing.limit \in Nat /\ listing.limit # Unset /\ listing.total \in Nat /\ listing.batch \in Nat \ {0}
  <2>1. Len(listing.names) \in Nat
    BY <1>1 DEF Listing
  <2> QED
    BY <1>1, <2>1 DEF Listing, Unset
<1>5. CASE listing.page = Unset
  <2>1. listing.names = Slice(0, listing.cursor) /\ listing.cursor <= listing.total /\ listing.cursor \in Nat
    BY <1>1, <1>5 DEF ListingInv, Fetching, Listing
  <2>2. listing.limit = listing.cursor
    BY <1>1, <2>1, SliceLength
  <2>3. Most(Least(listing.limit, listing.total - 0), 0) = listing.cursor
    BY <1>4, <2>1, <2>2 DEF Most, Least
  <2>4. PortfolioExact'
    BY <1>1, <1>2, <1>3, <1>4, <1>5, <2>1, <2>3, ExactWhenDone
  <2> QED
    BY <1>1, <1>2, <2>4 DEF ListingInv, Fetching
<1>6. CASE listing.page # Unset
  <2> DEFINE first == (Most(listing.page, 1) - 1) * listing.batch
  <2>1. listing.names = << >> /\ listing.cursor = first /\ listing.cursor \in Nat
    BY <1>1, <1>6 DEF ListingInv, Fetching, Listing
  <2>2. listing.limit = 0
    BY <1>1, <2>1
  <2>3. first \in Nat
    BY <2>1
  <2> HIDE DEF first
  <2>4. Most(Least(Least(listing.batch, listing.limit), listing.total - first), 0) = 0
    BY <1>4, <2>2, <2>3 DEF Most, Least
  <2>5. Slice(first, 0) = << >>
    BY DEF Slice
  <2>6. PortfolioExact'
    BY <1>1, <1>2, <1>3, <1>4, <1>6, <2>1, <2>4, <2>5, ExactWhenDone DEF first
  <2> QED
    BY <1>1, <1>2, <2>6 DEF ListingInv, Fetching
<1> QED
  BY <1>5, <1>6

\* A page that times out is asked for again; nothing is listed.
LEMMA TimeoutKeepsListing ==
    ASSUME ListingInv, PageTimesOut
    PROVE  ListingInv'
<1>1. listing \in Listing /\ listing.at = "fetch"
  BY DEF ListingInv, PageTimesOut, Asking
<1>2. CASE listing.size > MIN_BATCH_SIZE
  <2> DEFINE l == [listing EXCEPT !.size = halved(@)]
  <2>1. listing' = l
    BY <1>2 DEF PageTimesOut
  <2>2. halved(listing.size) \in Nat \ {0}
    BY <1>1 DEF halved, Most, MIN_BATCH_SIZE, Listing
  <2>3. l \in Listing
    BY <1>1, <2>2 DEF Listing
  <2>4. /\ l.at = "fetch" /\ l.limit = listing.limit /\ l.page = listing.page /\ l.total = listing.total
        /\ l.batch = listing.batch /\ l.names = listing.names /\ l.cursor = listing.cursor
    BY <1>1 DEF Listing
  <2> HIDE DEF l
  <2> QED
    BY <1>1, <2>1, <2>3, <2>4 DEF ListingInv, Fetching, PortfolioExact
<1>3. CASE ~(listing.size > MIN_BATCH_SIZE)
  <2> DEFINE l == [listing EXCEPT !.at = "failed"]
  <2>1. listing' = l
    BY <1>3 DEF PageTimesOut
  <2>2. l \in Listing /\ l.at = "failed"
    BY <1>1 DEF Listing
  <2> HIDE DEF l
  <2> QED
    BY <2>1, <2>2 DEF ListingInv, Fetching, PortfolioExact
<1> QED
  BY <1>2, <1>3

\* A page arrives: the names before the cursor are still all that is listed, or the
\* listing is done.
LEMMA FetchKeepsListing ==
    ASSUME ListingInv, FetchPage
    PROVE  ListingInv'
<1> DEFINE total == listing.total
           cursor == listing.cursor
           names == listing.names
           r == requested(listing.limit, Len(names), listing.size)
           got == owner_page(total, cursor, r)
           start == Least(cursor, total)
           end == Least(start + r, total)
           over == listing.page # Unset \/ got.next = Unset
           l == [listing EXCEPT !.names = @ \o got.items,
                                !.at = IF over THEN "done" ELSE "fetch",
                                !.cursor = IF over THEN @ ELSE got.next]
<1>1. listing \in Listing /\ listing.at = "fetch" /\ listing.limit # Len(names) /\ listing' = l
  BY DEF ListingInv, FetchPage, Asking
<1>2. /\ total \in Nat /\ cursor \in Nat /\ names \in Seq(Nat) /\ listing.size \in Nat \ {0}
      /\ listing.batch \in Nat \ {0} /\ listing.limit \in Nat \cup {Unset} /\ Len(names) \in Nat
  BY <1>1 DEF Listing
<1>3. listing.limit # Unset => Len(names) < listing.limit
  <2>1. CASE listing.page = Unset
    <3>1. Len(names) = cursor
      <4>1. names = Slice(0, cursor)
        BY <1>1, <2>1 DEF ListingInv, Fetching
      <4> QED
        BY <1>2, <4>1, SliceLength
    <3> QED
      BY <1>1, <1>2, <2>1, <3>1 DEF ListingInv, Fetching, Unset
  <2>2. CASE listing.page # Unset
    <3>1. Len(names) = 0
      BY <1>1, <2>2 DEF ListingInv, Fetching
    <3> QED
      BY <1>1, <1>2, <3>1 DEF Unset
  <2> QED
    BY <2>1, <2>2
<1>4. r \in Nat \ {0} /\ (listing.limit # Unset => r <= listing.limit - Len(names))
  BY <1>2, <1>3 DEF requested, Least, Unset
<1> HIDE DEF r
<1>5. /\ start \in Nat /\ end \in Nat /\ end - start \in Nat
      /\ got.items = Slice(start, end - start)
      /\ got.next = IF end < total THEN end ELSE Unset
  <2> HIDE DEF total, cursor, start, end
  <2>1. start = Least(cursor, total) /\ end = Least(start + r, total)
    BY DEF start, end
  <2>2. total \in Nat /\ cursor \in Nat /\ r \in Nat
    BY <1>2, <1>4
  <2> DEFINE page == owner_page(total, cursor, r)
  <2>3. /\ start \in Nat /\ end \in Nat /\ end - start \in Nat
        /\ page.items = Slice(start, end - start)
        /\ page.next = IF end < total THEN end ELSE Unset
    BY <2>1, <2>2 DEF owner_page, Least, Slice, Unset
  <2> QED
    BY <2>3
<1>6. start <= total /\ end <= total /\ (end = start + r \/ end = total) /\ start + r >= end
  BY <1>2, <1>4 DEF Least
<1> HIDE DEF got
<1>7. got.next = Unset <=> end = total
  BY <1>2, <1>5, <1>6 DEF Unset
<1>8. got.items \in Seq(Nat)
  BY <1>5, SliceLength
<1> HIDE DEF start, end
<1>9. l \in Listing
  <2>1. names \o got.items \in Seq(Nat)
    BY <1>2, <1>8
  <2>2. ~over => got.next \in Nat
    BY <1>5, <1>7
  <2> HIDE DEF over
  <2> QED
    BY <1>1, <2>1, <2>2 DEF Listing
<1>10. /\ l.at = (IF over THEN "done" ELSE "fetch")
       /\ l.names = names \o got.items
       /\ l.cursor = (IF over THEN cursor ELSE got.next)
       /\ l.limit = listing.limit /\ l.page = listing.page /\ l.total = total
       /\ l.batch = listing.batch /\ l.size = listing.size
  BY <1>1 DEF Listing
<1> HIDE DEF l
<1>11. CASE listing.page = Unset
  <2>1. names = Slice(0, cursor) /\ cursor <= total /\ Len(names) = cursor
    <3>1. names = Slice(0, cursor) /\ cursor <= total
      BY <1>1, <1>11 DEF ListingInv, Fetching
    <3>2. Len(Slice(0, cursor)) = cursor
      BY <1>2, SliceLength
    <3> QED
      BY <3>1, <3>2
  <2>2. start = cursor
    BY <1>2, <2>1 DEF start, Least
  <2>3. l.names = Slice(0, end)
    <3>1. Slice(0, cursor) \o Slice(cursor, end - cursor) = Slice(0, cursor + (end - cursor))
      BY <1>2, <1>5, <2>2, SlicesJoin
    <3>2. cursor + (end - cursor) = end
      BY <1>2, <1>5
    <3> QED
      BY <1>5, <1>10, <2>1, <2>2, <3>1, <3>2
  <2>4. listing.limit # Unset => end <= listing.limit
    BY <1>2, <1>4, <1>5, <1>6, <2>1, <2>2 DEF Unset
  <2>5. CASE got.next = Unset
    <3>1. end = total
      BY <1>7, <2>5
    <3>2. Most(Least(IF listing.limit = Unset THEN total ELSE listing.limit, total - 0), 0) = total
      BY <1>2, <2>4, <3>1 DEF Most, Least
    <3>3. PortfolioExact'
      BY <1>1, <1>9, <1>10, <1>11, <2>3, <3>1, <3>2, ExactWhenDone
    <3> QED
      BY <1>1, <1>9, <1>10, <2>5, <3>3 DEF ListingInv, Fetching
  <2>6. CASE got.next # Unset
    <3>1. l.at = "fetch" /\ l.cursor = end /\ end <= total
      BY <1>5, <1>6, <1>7, <1>10, <1>11, <2>6
    <3>2. Fetching'
      BY <1>1, <1>10, <1>11, <2>3, <2>4, <3>1 DEF Fetching
    <3>3. PortfolioExact'
      BY <1>1, <3>1 DEF PortfolioExact
    <3> QED
      BY <1>1, <1>9, <3>2, <3>3 DEF ListingInv
  <2> QED
    BY <2>5, <2>6
<1>12. CASE listing.page # Unset
  <2> DEFINE first == (Most(listing.page, 1) - 1) * listing.batch
             n == Most(Least(Least(listing.batch, IF listing.limit = Unset THEN total ELSE listing.limit),
                             total - first), 0)
  <2>1. names = << >> /\ cursor = first
    BY <1>1, <1>12 DEF ListingInv, Fetching
  <2>2. l.at = "done" /\ l.names = got.items
    BY <1>8, <1>10, <1>12, <2>1
  <2>3. ASSUME listing.size = listing.batch PROVE got.items = Slice(first, n)
    <3>1. first \in Nat
      BY <1>2, <2>1
    <3>2. r = IF listing.limit = Unset THEN listing.batch ELSE Least(listing.limit, listing.batch)
      <4>1. Len(names) = 0
        BY <2>1
      <4> QED
        BY <1>2, <2>3, <4>1 DEF r, requested
    <3>3. start = Least(first, total) /\ end = Least(start + r, total)
      BY <2>1 DEF start, end
    <3> HIDE DEF first, cursor
    <3>4. end - start = n
      <4> DEFINE cap == IF listing.limit = Unset THEN total ELSE listing.limit
      <4>1. cap \in Nat /\ (r = Least(listing.batch, cap) \/ (r = listing.batch /\ cap = total))
        BY <1>2, <3>2 DEF Least, Unset
      <4> HIDE DEF cap
      <4>2. Least(Least(first, total) + r, total) - Least(first, total) =
                Most(Least(Least(listing.batch, cap), total - first), 0)
        <5>1. listing.batch \in Nat /\ r \in Nat /\ total \in Nat
          BY <1>2, <1>4
        <5> DEFINE b == listing.batch
                   t == total
        <5>2. b \in Nat /\ t \in Nat /\ (r = Least(b, cap) \/ (r = b /\ cap = t))
          BY <4>1, <5>1
        <5> HIDE DEF b, t
        <5>3. Least(Least(first, t) + r, t) - Least(first, t) = Most(Least(Least(b, cap), t - first), 0)
          BY <3>1, <4>1, <5>1, <5>2, PageLength
        <5> QED
          BY <5>3 DEF b, t
      <4> QED
        BY <3>3, <4>2 DEF cap
    <3>5. CASE first <= total
      <4>1. start = first
        BY <1>2, <3>1, <3>3, <3>5 DEF Least
      <4> QED
        BY <1>5, <3>4, <4>1
    <3>6. CASE ~(first <= total)
      <4>1. end - start = 0
        BY <1>2, <1>4, <3>1, <3>3, <3>6 DEF Least
      <4>2. Slice(start, 0) = << >> /\ Slice(first, 0) = << >>
        BY DEF Slice
      <4> QED
        BY <1>5, <3>4, <4>1, <4>2
    <3> QED
      BY <3>5, <3>6
  <2> HIDE DEF n
  <2>4. PortfolioExact'
    BY <1>1, <1>9, <1>10, <1>12, <2>2, <2>3, ExactWhenDone DEF n
  <2> QED
    BY <1>1, <1>9, <2>2, <2>4 DEF ListingInv, Fetching
<1> QED
  BY <1>11, <1>12

\* However the page size is halved on the way, every name is listed once and in
\* order, up to the limit.
THEOREM PortfoliosAreExact == PortfolioSpec => []PortfolioExact
<1>1. NoListing \in Listing /\ NoListing.at = "off"
  <2>1. << >> \in Seq(Nat)
    OBVIOUS
  <2> QED
    BY <2>1 DEF NoListing, Listing
<1>2. ASSUME NEW l, l = NoListing PROVE l \in Listing /\ l.at = "off"
  BY <1>1, <1>2
<1>3. PortfolioInit => ListingInv
  BY <1>1 DEF PortfolioInit, ListingInv, Fetching, PortfolioExact
<1>4. ListingInv /\ [PortfolioStep]_listing => ListingInv'
  <2> SUFFICES ASSUME ListingInv, [PortfolioStep]_listing PROVE ListingInv'
    OBVIOUS
  <2>1. ASSUME NEW total \in 0 .. MaxNames, NEW batch_size \in 0 .. MaxBatch,
               NEW limit \in {Unset} \cup (0 .. MaxBatch), NEW page \in {Unset} \cup (0 .. MaxBatch),
               StartListing(total, batch_size, limit, page)
        PROVE  ListingInv'
    <3>1. total \in Nat /\ batch_size \in Nat /\ limit \in Nat \cup {Unset} /\ page \in Nat \cup {Unset}
      BY PortfolioAssumption
    <3> QED
      BY <2>1, <3>1, StartKeepsListing
  <2>2. CASE EndListing
    BY <1>1, <2>2 DEF EndListing, ListingInv, Fetching, PortfolioExact
  <2>3. CASE UNCHANGED listing
    BY <2>3 DEF ListingInv, Fetching, PortfolioExact
  <2> QED
    BY <2>1, <2>2, <2>3, LimitKeepsListing, FetchKeepsListing, TimeoutKeepsListing
       DEF PortfolioStep, FetchStep
<1>5. ListingInv => PortfolioExact
  BY DEF ListingInv
<1> QED
  BY <1>3, <1>4, <1>5, PTL DEF PortfolioSpec

-----------------------------------------------------------------------------
(* The SDK client. *)

Heardable ==
    [attempt : Nat, requests : Nat, network : {"unasked", "same", "other"}, final : {"unknown", "SUCCESS", "FAILED"}]

\* Once the server has said that it serves another network, the call is over.
WrongNetworkEnds ==
    rpc.network = "other" => call = Idle /\ returned.kind = "NetworkPassphraseMismatch"

NetworkInv == client \in Clients /\ rpc \in Heardable /\ WrongNetworkEnds

\* The ways a step ends: the call returns, or the step is done, or is tried
\* again, or has heard an answer.
Ending ==
    \/ \E kind, detail, about : Return(kind, detail, about)
    \/ /\ call.todo # << >>
       /\ \/ Pass(call.status)
          \/ Step = Submit /\ \E status \in {"Simulated", "Submitted"} : Pass(status)
          \/ Step = Network /\ (wrong_network \/ Heard("network", "same", call.status))
          \/ Step \in {Network, Hydrate} /\ (Retry \/ Unheard)
          \/ Step = Hydrate /\ Heard("final", rpc.final, call.status)
          \/ Step = Hydrate /\ \E answer \in {"SUCCESS", "FAILED"} :
                                  /\ rpc.final \in {"unknown", answer}
                                  /\ Heard("final", answer, hydrated(call.status, answer))

LEMMA StepEndings ==
    ASSUME ClientStep, client \in Clients
    PROVE  call # Idle /\ client' = client /\ Ending
<1>1. ASSUME NEW c \in Contracts, require_contract_id(c) \/ contract_id_error(c)
      PROVE  call # Idle /\ Ending
  <2>1. client.ids[c] \in {"ok", "none", "bad"}
    BY DEF Clients, IdStates
  <2> QED
    BY <1>1, <2>1 DEF require_contract_id, contract_id_error, Refuse, At, Ending
<1>2. ASSUME rpc_client \/ require_label \/ CheckChain \/ LookUpName \/ Finish
      PROVE  call # Idle /\ Ending
  BY <1>2 DEF rpc_client, require_label, CheckChain, LookUpName, Finish, Refuse, At, Ending
<1>3. ASSUME make_submission PROVE call # Idle /\ Ending
  BY <1>3 DEF make_submission, At, Step, Ending
<1>4. ASSUME verify_write_network PROVE call # Idle /\ Ending
  BY <1>4 DEF verify_write_network, Refuse, At, Step, Ending
<1>5. ASSUME maybe_hydrate_submission PROVE call # Idle /\ Ending
  <2>1. call # Idle /\ call.todo # << >> /\ Step = Hydrate
    BY <1>5 DEF maybe_hydrate_submission, At, Step
  <2>2. hydrated(call.status, "OTHER") = call.status
    BY DEF hydrated
  <2> QED
    BY <1>5, <2>1, <2>2 DEF maybe_hydrate_submission, Ending
<1>6. call # Idle /\ Ending
  BY <1>1, <1>2, <1>3, <1>4, <1>5 DEF ClientStep
<1>7. client' = client
  BY <1>6 DEF Ending, Pass, Return, Retry, Heard, Unheard, wrong_network
<1> QED
  BY <1>6, <1>7

\* What is heard is of its type.
LEMMA HeardType ==
    ASSUME NEW r \in Heardable
    PROVE  /\ [r EXCEPT !.attempt = 0] \in Heardable
           /\ [r EXCEPT !.attempt = @ + 1, !.requests = @ + 1] \in Heardable
           /\ [r EXCEPT !.attempt = 0, !.requests = @ + 1] \in Heardable
           /\ \A value \in {"unasked", "same", "other"} : [r EXCEPT !.network = value] \in Heardable
           /\ \A value \in {"unknown", "SUCCESS", "FAILED"} : [r EXCEPT !.final = value] \in Heardable
<1>1. r.attempt + 1 \in Nat /\ r.requests + 1 \in Nat /\ 0 \in Nat
  BY DEF Heardable
<1> QED
  BY <1>1 DEF Heardable

\* Every step keeps what the client knows of the network.
LEMMA ClientStepHears ==
    ASSUME NetworkInv, ClientStep
    PROVE  NetworkInv'
<1>1. rpc \in Heardable /\ client \in Clients
  BY DEF NetworkInv
<1>2. call # Idle /\ client' = client
  BY <1>1, StepEndings
<1>3. rpc.network \in {"unasked", "same"}
  BY <1>1, <1>2 DEF NetworkInv, WrongNetworkEnds, Heardable
<1>4. ASSUME NEW status, Pass(status) PROVE NetworkInv'
  <2>1. rpc' = [rpc EXCEPT !.attempt = 0]
    BY <1>4 DEF Pass
  <2>2. rpc' \in Heardable /\ rpc'.network = rpc.network
    BY <1>1, <2>1, HeardType DEF Heardable
  <2> QED
    BY <1>1, <1>2, <1>3, <2>2 DEF NetworkInv, WrongNetworkEnds
<1>5. ASSUME NEW kind, NEW detail, NEW about, Return(kind, detail, about) PROVE NetworkInv'
  BY <1>1, <1>2, <1>3, <1>5 DEF Return, NetworkInv, WrongNetworkEnds
<1>6. ASSUME Retry PROVE NetworkInv'
  <2>1. rpc' = [rpc EXCEPT !.attempt = @ + 1, !.requests = @ + 1]
    BY <1>6 DEF Retry
  <2>2. rpc' \in Heardable /\ rpc'.network = rpc.network
    BY <1>1, <2>1, HeardType DEF Heardable
  <2> QED
    BY <1>1, <1>2, <1>3, <2>2 DEF NetworkInv, WrongNetworkEnds
<1> DEFINE asked == [rpc EXCEPT !.attempt = 0, !.requests = @ + 1]
<1>7. asked \in Heardable /\ asked.network = rpc.network
  BY <1>1, HeardType DEF Heardable
<1>8. ASSUME NEW value \in {"unasked", "same"}, NEW status, Heard("network", value, status) PROVE NetworkInv'
  <2>1. rpc' = [asked EXCEPT !.network = value]
    BY <1>8 DEF Heard
  <2> HIDE DEF asked
  <2>2. rpc' \in Heardable /\ rpc'.network = value
    BY <1>7, <2>1, HeardType DEF Heardable
  <2> QED
    BY <1>1, <1>2, <1>3, <2>2 DEF NetworkInv, WrongNetworkEnds
<1>9. ASSUME NEW value \in {"unknown", "SUCCESS", "FAILED"}, NEW status, Heard("final", value, status)
      PROVE  NetworkInv'
  <2>1. rpc' = [asked EXCEPT !.final = value]
    BY <1>9 DEF Heard
  <2> HIDE DEF asked
  <2>2. rpc' \in Heardable /\ rpc'.network = rpc.network
    BY <1>7, <2>1, HeardType DEF Heardable
  <2> QED
    BY <1>1, <1>2, <1>3, <2>2 DEF NetworkInv, WrongNetworkEnds
<1>10. ASSUME wrong_network PROVE NetworkInv'
  <2>1. /\ rpc' = [rpc EXCEPT !.requests = @ + 1, !.network = "other"]
        /\ call' = Idle /\ returned'.kind = "NetworkPassphraseMismatch"
    BY <1>10 DEF wrong_network
  <2>2. rpc.requests + 1 \in Nat
    BY <1>1 DEF Heardable
  <2>3. rpc' \in Heardable
    BY <1>1, <2>1, <2>2 DEF Heardable
  <2> QED
    BY <1>1, <1>2, <2>1, <2>3 DEF NetworkInv, WrongNetworkEnds
<1>11. rpc.final \in {"unknown", "SUCCESS", "FAILED"}
  BY <1>1 DEF Heardable
<1> QED
  <2>1. Ending
    BY <1>1, StepEndings
  <2> QED
    BY <1>1, <1>3, <1>4, <1>5, <1>6, <1>8, <1>9, <1>10, <1>11, <2>1 DEF Ending, Unheard

\* After a submission or a poll there is nothing but polling.
PollsLast(list) ==
    /\ list \in Seq({list[i] : i \in 1 .. Len(list)})
    /\ \A i, j \in 1 .. Len(list) : i < j /\ list[i] \in {Submit, Hydrate} => list[j] = Hydrate

LEMMA MethodsPollLast == \A m \in Methods : PollsLast(Steps[m])
<1> USE DEF PollsLast, Args, Id, IsSet, Url, Chain, Lookup, Known, Submit, Network, Hydrate, Query
<1>1. PollsLast(resolve) /\ PollsLast(get_registration) /\ PollsLast(get_registry_metadata) /\ PollsLast(get_owner_portfolio)
  BY DEF resolve, get_registration, get_registry_metadata, get_owner_portfolio
<1>2. /\ PollsLast(list_registrations_by_owner_page) /\ PollsLast(reverse_resolve) /\ PollsLast(get_text_record)
      /\ PollsLast(get_subdomains) /\ PollsLast(get_bridge_routes) /\ PollsLast(get_nft_record)
  BY DEF list_registrations_by_owner_page, reverse_resolve, get_text_record, get_subdomains, get_bridge_routes, get_nft_record
<1>3. /\ PollsLast(get_auction) /\ PollsLast(get_auction_state) /\ PollsLast(get_route) /\ PollsLast(build_message)
      /\ PollsLast(get_treasury_balance) /\ PollsLast(get_fee_metrics)
  BY DEF get_auction, get_auction_state, get_route, rpc_context, build_message, get_treasury_balance, get_fee_metrics
<1>4. PollsLast(quote_registration) /\ PollsLast(simulate_register) /\ PollsLast(simulate_renew)
  BY DEF quote_registration, simulate_register, simulate_renew
<1>5. PollsLast(set_text_record) /\ PollsLast(set_text_records) /\ PollsLast(transfer)
  BY DEF set_text_record, set_text_records, transfer
<1>6. PollsLast(register)
  BY DEF register, quote_registration
<1>7. PollsLast(renew)
  BY DEF renew
<1>8. PollsLast(register_parent) /\ PollsLast(add_controller)
  BY DEF register_parent, add_controller, simulate_and_submit
<1>9. PollsLast(create_subdomain) /\ PollsLast(transfer_subdomain)
  BY DEF create_subdomain, transfer_subdomain, simulate_and_submit
<1>10. PollsLast(mint_nft) /\ PollsLast(approve_nft) /\ PollsLast(transfer_nft)
  BY DEF mint_nft, approve_nft, transfer_nft, simulate_and_submit
<1>11. PollsLast(register_chain) /\ PollsLast(create_auction)
  BY DEF register_chain, create_auction, rpc_context
<1>12. PollsLast(bid_auction) /\ PollsLast(settle_auction) /\ PollsLast(load_reserved_manifest)
  BY DEF bid_auction, settle_auction, load_reserved_manifest, rpc_context
<1> QED
  <2> HIDE DEF PollsLast, Args, Id, IsSet, Url, Chain, Lookup, Known, Submit, Network, Hydrate, Query
  <2> QED
  BY <1>1, <1>2, <1>3, <1>4, <1>5, <1>6, <1>7, <1>8, <1>9, <1>10, <1>11, <1>12 DEF Methods, Steps

\* The steps that wait for the server are at these three places.
WaitsAmong(list, a, b, c) ==
    \A i \in 1 .. Len(list) : list[i] \in {Network, Hydrate} => i \in {a, b, c}

LEMMA MethodsWaitThrice == \A m \in Methods : \E a, b, c \in Int : WaitsAmong(Steps[m], a, b, c)
<1> USE DEF WaitsAmong, Args, Id, IsSet, Url, Chain, Lookup, Known, Submit, Network, Hydrate, Query
<1>1. WaitsAmong(resolve, 1, 1, 1) /\ WaitsAmong(get_registration, 1, 1, 1) /\ WaitsAmong(get_registry_metadata, 1, 1, 1)
  BY DEF resolve, get_registration, get_registry_metadata
<1>2. /\ WaitsAmong(list_registrations_by_owner_page, 1, 1, 1) /\ WaitsAmong(get_owner_portfolio, 1, 1, 1)
      /\ WaitsAmong(reverse_resolve, 1, 1, 1) /\ WaitsAmong(get_text_record, 1, 1, 1)
      /\ WaitsAmong(get_subdomains, 1, 1, 1) /\ WaitsAmong(get_bridge_routes, 1, 1, 1) /\ WaitsAmong(get_nft_record, 1, 1, 1)
  BY DEF list_registrations_by_owner_page, get_owner_portfolio, reverse_resolve, get_text_record, get_subdomains,
         get_bridge_routes, get_nft_record
<1>3. /\ WaitsAmong(get_auction, 1, 1, 1) /\ WaitsAmong(get_auction_state, 1, 1, 1) /\ WaitsAmong(get_route, 1, 1, 1)
      /\ WaitsAmong(build_message, 1, 1, 1) /\ WaitsAmong(get_treasury_balance, 1, 1, 1) /\ WaitsAmong(get_fee_metrics, 1, 1, 1)
  BY DEF get_auction, get_auction_state, get_route, rpc_context, build_message, get_treasury_balance, get_fee_metrics
<1>4. WaitsAmong(quote_registration, 1, 1, 1) /\ WaitsAmong(simulate_register, 1, 1, 1) /\ WaitsAmong(simulate_renew, 1, 1, 1)
  BY DEF quote_registration, simulate_register, simulate_renew
<1>5. WaitsAmong(set_text_record, 1, 4, 4) /\ WaitsAmong(set_text_records, 3, 3, 3) /\ WaitsAmong(transfer, 1, 4, 4)
  BY DEF set_text_record, set_text_records, transfer
<1>6. WaitsAmong(register, 3, 7, 7)
  BY DEF register, quote_registration
<1>7. WaitsAmong(renew, 3, 5, 5)
  BY DEF renew
<1>8. WaitsAmong(register_parent, 1, 5, 6) /\ WaitsAmong(add_controller, 1, 5, 6)
  BY DEF register_parent, add_controller, simulate_and_submit
<1>9. WaitsAmong(create_subdomain, 1, 5, 6) /\ WaitsAmong(transfer_subdomain, 1, 5, 6)
  BY DEF create_subdomain, transfer_subdomain, simulate_and_submit
<1>10. WaitsAmong(mint_nft, 4, 5, 5) /\ WaitsAmong(approve_nft, 4, 5, 5) /\ WaitsAmong(transfer_nft, 4, 5, 5)
  BY DEF mint_nft, approve_nft, transfer_nft, simulate_and_submit
<1>11. WaitsAmong(register_chain, 1, 1, 1) /\ WaitsAmong(create_auction, 1, 1, 1)
  BY DEF register_chain, create_auction, rpc_context
<1>12. WaitsAmong(bid_auction, 1, 1, 1) /\ WaitsAmong(settle_auction, 1, 1, 1) /\ WaitsAmong(load_reserved_manifest, 1, 1, 1)
  BY DEF bid_auction, settle_auction, load_reserved_manifest, rpc_context
<1>13. 1 \in Int /\ 3 \in Int /\ 4 \in Int /\ 5 \in Int /\ 6 \in Int /\ 7 \in Int
  OBVIOUS
<1> QED
  <2> HIDE DEF WaitsAmong, Args, Id, IsSet, Url, Chain, Lookup, Known, Submit, Network, Hydrate, Query
  <2> QED
  BY <1>1, <1>2, <1>3, <1>4, <1>5, <1>6, <1>7, <1>8, <1>9, <1>10, <1>11, <1>12, <1>13 DEF Methods, Steps

LEMMA SeqOfMembers ==
    ASSUME NEW S, NEW T, NEW s \in Seq(S), \A i \in 1 .. Len(s) : s[i] \in T
    PROVE  s \in Seq(T)
<1>1. Len(s) \in Nat /\ s \in [1 .. Len(s) -> S]
  OBVIOUS
<1>2. s \in [1 .. Len(s) -> T]
  BY <1>1
<1> QED
  BY <1>1, <1>2

LEMMA TailListed ==
    ASSUME NEW list, list # << >>, list \in Seq({list[i] : i \in 1 .. Len(list)})
    PROVE  /\ Len(list) \in Nat /\ Len(list) >= 1 /\ Len(Tail(list)) = Len(list) - 1
           /\ \A i \in 1 .. Len(Tail(list)) : i + 1 \in 1 .. Len(list) /\ Tail(list)[i] = list[i + 1]
           /\ Tail(list) \in Seq({Tail(list)[i] : i \in 1 .. Len(Tail(list))})
           /\ Head(list) = list[1] /\ 1 \in 1 .. Len(list)
<1> DEFINE S == {list[i] : i \in 1 .. Len(list)}
           T == {Tail(list)[i] : i \in 1 .. Len(Tail(list))}
<1>1. list \in Seq(S)
  OBVIOUS
<1>2. \A i \in 1 .. Len(Tail(list)) : Tail(list)[i] \in T
  OBVIOUS
<1> HIDE DEF S, T
<1>3. Len(list) \in Nat /\ Len(list) >= 1 /\ Tail(list) \in Seq(S) /\ Len(Tail(list)) = Len(list) - 1
  BY <1>1
<1>4. \A i \in 1 .. Len(Tail(list)) : i + 1 \in 1 .. Len(list) /\ Tail(list)[i] = list[i + 1]
  BY <1>1, <1>3
<1>5. Tail(list) \in Seq(T)
  BY <1>2, <1>3, SeqOfMembers
<1>6. Head(list) = list[1]
  BY <1>1
<1> QED
  BY <1>3, <1>4, <1>5, <1>6 DEF T

\* What a step done leaves of the call.
LEMMA DoneStep ==
    ASSUME NEW status, call # Idle, call.todo # << >>, PollsLast(call.todo),
           call = [op |-> call.op, args |-> call.args, dry |-> call.dry, todo |-> call.todo, status |-> call.status],
           call' = [call EXCEPT !.todo = Tail(@), !.status = status]
    PROVE  /\ call'.op = call.op /\ call'.status = status /\ call'.todo = Tail(call.todo)
           /\ call' = [op |-> call'.op, args |-> call'.args, dry |-> call'.dry, todo |-> call'.todo, status |-> call'.status]
           /\ PollsLast(call'.todo)
           /\ Step \in {Submit, Hydrate} => \A i \in 1 .. Len(call'.todo) : call'.todo[i] = Hydrate
           /\ (\A i \in 1 .. Len(call.todo) : call.todo[i] = Hydrate)
                  => Step = Hydrate /\ \A i \in 1 .. Len(call'.todo) : call'.todo[i] = Hydrate
<1> DEFINE list == call.todo
<1>1. call'.op = call.op /\ call'.status = status /\ call'.todo = Tail(call.todo)
  OBVIOUS
<1>2. call' = [op |-> call'.op, args |-> call'.args, dry |-> call'.dry, todo |-> call'.todo, status |-> call'.status]
  OBVIOUS
<1>3. /\ Len(list) \in Nat /\ Len(list) >= 1 /\ Len(Tail(list)) = Len(list) - 1
      /\ \A i \in 1 .. Len(Tail(list)) : i + 1 \in 1 .. Len(list) /\ Tail(list)[i] = list[i + 1]
      /\ Tail(list) \in Seq({Tail(list)[i] : i \in 1 .. Len(Tail(list))})
      /\ Head(list) = list[1] /\ 1 \in 1 .. Len(list)
  BY TailListed DEF PollsLast
<1>4. \A i, j \in 1 .. Len(list) : i < j /\ list[i] \in {Submit, Hydrate} => list[j] = Hydrate
  BY DEF PollsLast
<1> HIDE DEF list
<1>5. \A i, j \in 1 .. Len(Tail(list)) : i < j /\ Tail(list)[i] \in {Submit, Hydrate} => Tail(list)[j] = Hydrate
  BY <1>3, <1>4
<1>6. ASSUME list[1] \in {Submit, Hydrate}, NEW i \in 1 .. Len(Tail(list)) PROVE Tail(list)[i] = Hydrate
  <2>1. i + 1 \in 1 .. Len(list) /\ 1 \in 1 .. Len(list) /\ 1 < i + 1 /\ Tail(list)[i] = list[i + 1]
    BY <1>3
  <2> QED
    BY <1>4, <1>6, <2>1
<1>7. (\A i \in 1 .. Len(list) : list[i] = Hydrate)
        => list[1] = Hydrate /\ \A i \in 1 .. Len(Tail(list)) : Tail(list)[i] = Hydrate
  BY <1>3
<1> QED
  BY <1>1, <1>2, <1>3, <1>5, <1>6, <1>7 DEF list, Step, PollsLast

\* A call is one of a method, and a record.
CallShape ==
    /\ call = Idle \/ call.op \in Methods
    /\ call = [op |-> call.op, args |-> call.args, dry |-> call.dry, todo |-> call.todo, status |-> call.status]
    /\ PollsLast(call.todo)

\* After a submission there is only polling, and a final status is the one the
\* server has answered.
StatusEarned ==
    /\ call.status # "none" => \A i \in 1 .. Len(call.todo) : call.todo[i] = Hydrate
    /\ call.status = "Confirmed" => rpc.final = "SUCCESS"
    /\ call.status = "Failed" => rpc.final = "FAILED"

StatusInv == CallShape /\ StatusEarned

FinalKept ==
    call.status \in {"Confirmed", "Failed"} /\ call'.op = call.op => call'.status = call.status

LEMMA IdleShape ==
    /\ PollsLast(<< >>) /\ Len(<< >>) = 0
    /\ Idle.status = "none" /\ Idle.op = "idle" /\ Idle.todo = << >>
    /\ Idle = [op |-> Idle.op, args |-> Idle.args, dry |-> Idle.dry, todo |-> Idle.todo, status |-> Idle.status]
    /\ \A m \in Methods : m # "idle"
<1>1. PollsLast(<< >>)
  BY DEF PollsLast
<1>2. \A m \in Methods : m # "idle"
  BY DEF Methods, Steps
<1> QED
  BY <1>1, <1>2 DEF Idle

LEMMA CallStarts ==
    ASSUME NEW m \in Methods, NEW args, NEW dry, Invoke(m, args, dry)
    PROVE  StatusInv' /\ (StatusInv => FinalKept)
<1>1. /\ call = Idle
      /\ call' = [op |-> m, args |-> args, dry |-> dry, todo |-> Steps[m], status |-> "none"]
      /\ rpc' = Silence
  BY DEF Invoke
<1>2. PollsLast(Steps[m])
  BY MethodsPollLast
<1> QED
  BY <1>1, <1>2, IdleShape DEF StatusInv, CallShape, StatusEarned, FinalKept

LEMMA ClientStepKeepsStatus ==
    ASSUME StatusInv, ClientStep, client \in Clients, rpc \in Heardable
    PROVE  StatusInv' /\ FinalKept
<1>1. call # Idle /\ Ending
  BY StepEndings
<1>2. CallShape /\ StatusEarned /\ call.op \in Methods
  BY <1>1 DEF StatusInv, CallShape
<1>3. ASSUME call' = Idle PROVE StatusInv' /\ FinalKept
  BY <1>2, <1>3, IdleShape DEF StatusInv, CallShape, StatusEarned, FinalKept
<1>4. ASSUME rpc' = [rpc EXCEPT !.attempt = @ + 1, !.requests = @ + 1], call' = call
      PROVE  StatusInv' /\ FinalKept
  <2>1. rpc'.final = rpc.final
    BY <1>4 DEF Heardable
  <2> QED
    BY <1>2, <1>4, <2>1 DEF StatusInv, CallShape, StatusEarned, FinalKept
<1>5. ASSUME NEW status, call.todo # << >>,
             call' = [call EXCEPT !.todo = Tail(@), !.status = status],
             status # "none" => Step = Submit \/ Step = Hydrate \/ status = call.status,
             status = "Confirmed" => rpc'.final = "SUCCESS",
             status = "Failed" => rpc'.final = "FAILED",
             call.status \in {"Confirmed", "Failed"} => status = call.status
      PROVE  StatusInv' /\ FinalKept
  <2>1. /\ call'.op = call.op /\ call'.status = status /\ call'.todo = Tail(call.todo)
        /\ call' = [op |-> call'.op, args |-> call'.args, dry |-> call'.dry, todo |-> call'.todo, status |-> call'.status]
        /\ PollsLast(call'.todo)
        /\ Step \in {Submit, Hydrate} => \A i \in 1 .. Len(call'.todo) : call'.todo[i] = Hydrate
        /\ (\A i \in 1 .. Len(call.todo) : call.todo[i] = Hydrate)
               => Step = Hydrate /\ \A i \in 1 .. Len(call'.todo) : call'.todo[i] = Hydrate
    BY <1>1, <1>2, <1>5, DoneStep DEF CallShape
  <2>2. CallShape'
    BY <1>2, <2>1 DEF CallShape
  <2>3. status # "none" => \A i \in 1 .. Len(call'.todo) : call'.todo[i] = Hydrate
    BY <1>2, <1>5, <2>1 DEF StatusEarned
  <2>4. StatusEarned'
    BY <1>5, <2>1, <2>3 DEF StatusEarned
  <2> QED
    BY <1>5, <2>1, <2>2, <2>4 DEF StatusInv, FinalKept
<1>6. ASSUME call.todo # << >>, Pass(call.status) PROVE StatusInv' /\ FinalKept
  <2>1. call' = [call EXCEPT !.todo = Tail(@), !.status = call.status] /\ rpc'.final = rpc.final
    BY <1>6 DEF Pass, Heardable
  <2> QED
    BY <1>2, <1>5, <1>6, <2>1 DEF StatusEarned
<1>7. ASSUME call.todo # << >>, Step = Submit, NEW status \in {"Simulated", "Submitted"}, Pass(status)
      PROVE  StatusInv' /\ FinalKept
  <2>1. call' = [call EXCEPT !.todo = Tail(@), !.status = status]
    BY <1>7 DEF Pass
  <2>2. call.status = "none"
    <3>1. SUFFICES ASSUME \A i \in 1 .. Len(call.todo) : call.todo[i] = Hydrate PROVE FALSE
      BY <1>2 DEF StatusEarned
    <3>2. Step = Hydrate
      BY <1>7, <1>2, <3>1, TailListed DEF CallShape, PollsLast, Step
    <3> QED
      BY <1>7, <3>2 DEF Submit, Hydrate
  <2> QED
    BY <1>5, <1>7, <2>1, <2>2
<1>8. ASSUME call.todo # << >>, NEW value, Heard("network", value, call.status) PROVE StatusInv' /\ FinalKept
  <2>1. /\ call' = [call EXCEPT !.todo = Tail(@), !.status = call.status]
        /\ rpc' = [rpc EXCEPT !.attempt = 0, !.requests = @ + 1, !.network = value]
    BY <1>8 DEF Heard
  <2>2. rpc'.final = rpc.final
    BY <2>1 DEF Heardable
  <2> QED
    BY <1>2, <1>5, <1>8, <2>1, <2>2 DEF StatusEarned
<1>9. ASSUME call.todo # << >>, Heard("final", rpc.final, call.status) PROVE StatusInv' /\ FinalKept
  <2>1. /\ call' = [call EXCEPT !.todo = Tail(@), !.status = call.status]
        /\ rpc' = [rpc EXCEPT !.attempt = 0, !.requests = @ + 1, !.final = rpc.final]
    BY <1>9 DEF Heard
  <2>2. rpc'.final = rpc.final
    BY <2>1 DEF Heardable
  <2> QED
    BY <1>2, <1>5, <1>9, <2>1, <2>2 DEF StatusEarned
<1>10. ASSUME call.todo # << >>, Step = Hydrate, NEW answer \in {"SUCCESS", "FAILED"},
              rpc.final \in {"unknown", answer}, Heard("final", answer, hydrated(call.status, answer))
       PROVE  StatusInv' /\ FinalKept
  <2> DEFINE status == hydrated(call.status, answer)
  <2>1. /\ call' = [call EXCEPT !.todo = Tail(@), !.status = status]
        /\ rpc' = [rpc EXCEPT !.attempt = 0, !.requests = @ + 1, !.final = answer]
    BY <1>10 DEF Heard
  <2>2. rpc'.final = answer
    BY <2>1 DEF Heardable
  <2>3. /\ status = "Confirmed" => answer = "SUCCESS"
        /\ status = "Failed" => answer = "FAILED"
        /\ call.status \in {"Confirmed", "Failed"} => status = call.status
    BY <1>2, <1>10 DEF hydrated, StatusEarned
  <2> HIDE DEF status
  <2> QED
    BY <1>5, <1>10, <2>1, <2>2, <2>3
<1> QED
  <2>1. ASSUME wrong_network \/ \E kind, detail, about : Return(kind, detail, about) PROVE call' = Idle
    BY <2>1 DEF wrong_network, Return
  <2>2. ASSUME Retry PROVE rpc' = [rpc EXCEPT !.attempt = @ + 1, !.requests = @ + 1] /\ call' = call
    BY <2>2 DEF Retry
  <2> QED
    BY <1>1, <1>3, <1>4, <1>6, <1>7, <1>8, <1>9, <1>10, <2>1, <2>2 DEF Ending, Unheard

\* How many of three places lie behind the step that is next.
Gone(place) == IF place < 1 THEN 1 ELSE 0
Behind(a, b, c) == Gone(a) + Gone(b) + Gone(c)

\* Each wait that is over has made MaxRetries + 1 requests at most, and the one
\* under way as many as it has attempts behind it.
RequestsCounted ==
    /\ rpc.attempt <= MaxRetries
    /\ rpc.attempt > 0 /\ call # Idle => call.todo # << >> /\ Step \in {Network, Hydrate}
    /\ IF call = Idle
       THEN RequestsBounded
       ELSE \E a, b, c \in Int :
                /\ WaitsAmong(call.todo, a, b, c)
                /\ rpc.requests <= Behind(a, b, c) * (MaxRetries + 1) + rpc.attempt

LEMMA BehindBounded ==
    ASSUME NEW a \in Int, NEW b \in Int, NEW c \in Int
    PROVE  /\ Behind(a, b, c) \in 0 .. 3
           /\ Behind(a, b, c) <= Behind(a - 1, b - 1, c - 1)
           /\ 1 \in {a, b, c} => Behind(a, b, c) + 1 <= Behind(a - 1, b - 1, c - 1) /\ Behind(a, b, c) <= 2
  BY DEF Behind, Gone

LEMMA WaitCost ==
    ASSUME NEW n \in 0 .. 3, NEW k \in 0 .. 3, NEW x \in Nat
    PROVE  /\ n <= k => n * (MaxRetries + 1) <= k * (MaxRetries + 1)
           /\ n + 1 <= k /\ x <= MaxRetries
                 => n * (MaxRetries + 1) + x + 1 <= k * (MaxRetries + 1)
           /\ n <= 2 /\ x <= MaxRetries => n * (MaxRetries + 1) + x + 1 <= 3 * (MaxRetries + 1)
           /\ n * (MaxRetries + 1) \in Nat
<1>1. MaxRetries \in Nat
  BY RetryAssumption
<1>2. n \in {0, 1, 2, 3} /\ k \in {0, 1, 2, 3}
  OBVIOUS
<1> DEFINE M == MaxRetries
<1>3. 0 * (M + 1) = 0 /\ 1 * (M + 1) = M + 1 /\ 2 * (M + 1) = M + M + 2 /\ 3 * (M + 1) = M + M + M + 3
  BY <1>1
<1>4. CASE n = 0
  BY <1>1, <1>2, <1>3, <1>4
<1>5. CASE n = 1
  BY <1>1, <1>2, <1>3, <1>5
<1>6. CASE n = 2
  BY <1>1, <1>2, <1>3, <1>6
<1>7. CASE n = 3
  BY <1>1, <1>2, <1>3, <1>7
<1> QED
  BY <1>2, <1>4, <1>5, <1>6, <1>7

\* The places of the waits move forward with the steps.
LEMMA PlacesMove ==
    ASSUME NEW list, list # << >>, PollsLast(list),
           NEW a \in Int, NEW b \in Int, NEW c \in Int, WaitsAmong(list, a, b, c)
    PROVE  /\ WaitsAmong(Tail(list), a - 1, b - 1, c - 1)
           /\ Head(list) \in {Network, Hydrate} => 1 \in {a, b, c}
<1>1. /\ Len(list) \in Nat /\ Len(list) >= 1 /\ Len(Tail(list)) = Len(list) - 1
      /\ \A i \in 1 .. Len(Tail(list)) : i + 1 \in 1 .. Len(list) /\ Tail(list)[i] = list[i + 1]
      /\ Head(list) = list[1] /\ 1 \in 1 .. Len(list)
  BY TailListed DEF PollsLast
<1>2. ASSUME NEW i \in 1 .. Len(Tail(list)), Tail(list)[i] \in {Network, Hydrate}
      PROVE  i \in {a - 1, b - 1, c - 1}
  <2>1. i + 1 \in {a, b, c}
    BY <1>1, <1>2 DEF WaitsAmong
  <2> QED
    BY <1>1, <2>1
<1>3. Head(list) \in {Network, Hydrate} => 1 \in {a, b, c}
  BY <1>1 DEF WaitsAmong
<1> QED
  BY <1>2, <1>3 DEF WaitsAmong

\* However far a call is, it has asked no more than the bound.
LEMMA CountIsBounded ==
    ASSUME RequestsCounted, CallShape, rpc \in Heardable
    PROVE  RequestsBounded
<1>1. CASE call = Idle
  BY <1>1 DEF RequestsCounted
<1>2. CASE call # Idle
  <2>1. PICK a, b, c \in Int :
            /\ WaitsAmong(call.todo, a, b, c)
            /\ rpc.requests <= Behind(a, b, c) * (MaxRetries + 1) + rpc.attempt
    BY <1>2 DEF RequestsCounted
  <2>2. rpc.attempt \in Nat /\ rpc.requests \in Nat /\ rpc.attempt <= MaxRetries /\ MaxRetries \in Nat
    BY RetryAssumption DEF Heardable, RequestsCounted
  <2> DEFINE n == Behind(a, b, c)
  <2>3. n \in 0 .. 3
    BY BehindBounded
  <2>4. CASE n <= 2
    <3> HIDE DEF n
    <3>1. n * (MaxRetries + 1) + rpc.attempt + 1 <= 3 * (MaxRetries + 1) /\ n * (MaxRetries + 1) \in Nat
      BY <2>2, <2>3, <2>4, WaitCost
    <3>2. rpc.requests <= n * (MaxRetries + 1) + rpc.attempt
      BY <2>1 DEF n
    <3>3. 3 * (MaxRetries + 1) \in Nat
      BY <2>2
    <3> QED
      BY <2>2, <3>1, <3>2, <3>3 DEF RequestsBounded
  <2>5. CASE n = 3
    <3>1. a < 1 /\ b < 1 /\ c < 1
      BY <2>5 DEF Behind, Gone
    <3>2. ~(rpc.attempt > 0)
      <4>1. SUFFICES ASSUME call.todo # << >>, Step \in {Network, Hydrate} PROVE FALSE
        BY <1>2 DEF RequestsCounted
      <4>2. 1 \in {a, b, c}
        BY <2>1, <4>1, PlacesMove DEF Step, CallShape
      <4> QED
        BY <3>1, <4>2
    <3>3. rpc.attempt = 0
      BY <2>2, <3>2
    <3> QED
      BY <2>1, <2>2, <2>5, <3>3 DEF RequestsBounded
  <2> QED
    BY <2>3, <2>4, <2>5
<1> QED
  BY <1>1, <1>2

LEMMA CallStartsCount ==
    ASSUME NEW m \in Methods, NEW args, NEW dry, Invoke(m, args, dry)
    PROVE  RequestsCounted'
<1>1. /\ call'.op = m /\ call'.todo = Steps[m]
      /\ rpc' = Silence
  BY DEF Invoke
<1>2. call' # Idle
  BY <1>1, IdleShape
<1>3. PICK a, b, c \in Int : WaitsAmong(Steps[m], a, b, c)
  BY MethodsWaitThrice
<1>4. Behind(a, b, c) * (MaxRetries + 1) \in Nat
  BY BehindBounded, WaitCost
<1>5. rpc'.attempt = 0 /\ rpc'.requests = 0
  BY <1>1 DEF Silence
<1>6. rpc'.requests <= Behind(a, b, c) * (MaxRetries + 1) + rpc'.attempt
  BY <1>4, <1>5
<1>7. 0 <= MaxRetries
  BY RetryAssumption
<1> QED
  BY <1>1, <1>2, <1>3, <1>5, <1>6, <1>7 DEF RequestsCounted

LEMMA ClientStepCounts ==
    ASSUME RequestsCounted, CallShape, ClientStep, client \in Clients, rpc \in Heardable
    PROVE  RequestsCounted'
<1>1. call # Idle /\ Ending /\ call.op \in Methods /\ PollsLast(call.todo)
  BY StepEndings DEF CallShape
<1>2. PICK a, b, c \in Int :
          /\ WaitsAmong(call.todo, a, b, c)
          /\ rpc.requests <= Behind(a, b, c) * (MaxRetries + 1) + rpc.attempt
  BY <1>1 DEF RequestsCounted
<1> DEFINE n == Behind(a, b, c)
           k == Behind(a - 1, b - 1, c - 1)
<1>3. n \in 0 .. 3 /\ k \in 0 .. 3 /\ n <= k
  <2>1. a - 1 \in Int /\ b - 1 \in Int /\ c - 1 \in Int
    OBVIOUS
  <2> QED
    BY <2>1, BehindBounded
<1>4. call.todo # << >> /\ Step \in {Network, Hydrate} => 1 \in {a, b, c} /\ n + 1 <= k /\ n <= 2
  BY <1>1, <1>2, PlacesMove, BehindBounded DEF Step
<1>5. /\ rpc.attempt \in Nat /\ rpc.requests \in Nat /\ rpc.attempt <= MaxRetries /\ MaxRetries \in Nat
      /\ rpc.attempt > 0 => call.todo # << >> /\ Step \in {Network, Hydrate}
      /\ n * (MaxRetries + 1) \in Nat /\ k * (MaxRetries + 1) \in Nat /\ 3 * (MaxRetries + 1) \in Nat
  <2>1. rpc.attempt \in Nat /\ rpc.requests \in Nat /\ rpc.attempt <= MaxRetries /\ MaxRetries \in Nat
    BY RetryAssumption DEF Heardable, RequestsCounted
  <2>2. rpc.attempt > 0 => call.todo # << >> /\ Step \in {Network, Hydrate}
    BY <1>1 DEF RequestsCounted
  <2>3. \A x \in 0 .. 3 : x * (MaxRetries + 1) \in Nat
    BY WaitCost
  <2> HIDE DEF n, k
  <2> QED
    BY <1>3, <2>1, <2>2, <2>3
<1>6. rpc.requests <= n * (MaxRetries + 1) + rpc.attempt
  BY <1>2
<1> HIDE DEF n, k
<1>7. ASSUME NEW kind, NEW detail, NEW about, Return(kind, detail, about) PROVE RequestsCounted'
  <2>1. call' = Idle /\ rpc' = rpc
    BY <1>7 DEF Return
  <2>2. RequestsBounded
    BY CountIsBounded
  <2> QED
    BY <1>5, <2>1, <2>2 DEF RequestsCounted, RequestsBounded
<1>8. ASSUME call.todo # << >>, Step = Network, wrong_network PROVE RequestsCounted'
  <2>1. call' = Idle /\ rpc' = [rpc EXCEPT !.requests = @ + 1, !.network = "other"]
    BY <1>8 DEF wrong_network
  <2>2. rpc'.attempt = rpc.attempt /\ rpc'.requests = rpc.requests + 1
    BY <2>1 DEF Heardable
  <2>3. n * (MaxRetries + 1) + rpc.attempt + 1 <= 3 * (MaxRetries + 1)
    BY <1>3, <1>4, <1>5, <1>8, WaitCost
  <2>4. rpc'.requests <= 3 * (MaxRetries + 1)
    BY <1>5, <1>6, <2>2, <2>3
  <2> QED
    BY <1>5, <2>1, <2>2, <2>4 DEF RequestsCounted, RequestsBounded
<1>9. ASSUME call.todo # << >>, Step \in {Network, Hydrate}, Retry PROVE RequestsCounted'
  <2>1. /\ call' = call /\ rpc' = [rpc EXCEPT !.attempt = @ + 1, !.requests = @ + 1]
        /\ rpc.attempt < MaxRetries
    BY <1>9 DEF Retry, may_retry
  <2>2. rpc'.attempt = rpc.attempt + 1 /\ rpc'.requests = rpc.requests + 1
    BY <2>1 DEF Heardable
  <2>3. rpc'.requests <= n * (MaxRetries + 1) + rpc'.attempt /\ rpc'.attempt <= MaxRetries
    <3> DEFINE spent == n * (MaxRetries + 1)
    <3>1. /\ spent \in Nat /\ rpc.attempt \in Nat /\ rpc.requests \in Nat /\ MaxRetries \in Nat
          /\ rpc.requests <= spent + rpc.attempt
      BY <1>5, <1>6
    <3> HIDE DEF spent
    <3>2. rpc'.requests <= spent + rpc'.attempt /\ rpc'.attempt <= MaxRetries
      BY <2>1, <2>2, <3>1
    <3> QED
      BY <3>2 DEF spent
  <2>4. rpc'.requests <= Behind(a, b, c) * (MaxRetries + 1) + rpc'.attempt
    BY <2>3 DEF n
  <2>5. Step' = Step
    BY <2>1 DEF Step
  <2> QED
    BY <1>1, <1>2, <1>9, <2>1, <2>3, <2>4, <2>5 DEF RequestsCounted
<1>10. ASSUME call.todo # << >>, NEW status, call' = [call EXCEPT !.todo = Tail(@), !.status = status],
              rpc'.attempt = 0, rpc'.requests <= k * (MaxRetries + 1)
       PROVE  RequestsCounted'
  <2>1. call'.op = call.op /\ call'.todo = Tail(call.todo)
    BY <1>1, <1>10, DoneStep DEF CallShape
  <2>2. call' # Idle
    BY <1>1, <2>1, IdleShape
  <2>3. WaitsAmong(call'.todo, a - 1, b - 1, c - 1)
    BY <1>1, <1>2, <1>10, <2>1, PlacesMove
  <2>4. rpc'.requests <= Behind(a - 1, b - 1, c - 1) * (MaxRetries + 1) + rpc'.attempt
    <3>1. rpc'.requests <= k * (MaxRetries + 1) + rpc'.attempt
      BY <1>5, <1>10
    <3> QED
      BY <3>1 DEF k
  <2>5. a - 1 \in Int /\ b - 1 \in Int /\ c - 1 \in Int
    OBVIOUS
  <2>6. rpc'.attempt <= MaxRetries /\ ~(rpc'.attempt > 0)
    BY <1>5, <1>10
  <2> QED
    BY <2>2, <2>3, <2>4, <2>5, <2>6 DEF RequestsCounted
<1>11. ASSUME call.todo # << >>, Step \in {Network, Hydrate}
       PROVE  rpc.requests + 1 <= k * (MaxRetries + 1)
  <2>1. n * (MaxRetries + 1) + rpc.attempt + 1 <= k * (MaxRetries + 1)
    BY <1>3, <1>4, <1>5, <1>11, WaitCost
  <2> QED
    BY <1>5, <1>6, <2>1
<1>12. rpc.requests <= k * (MaxRetries + 1)
  <2>1. CASE rpc.attempt > 0
    BY <1>5, <1>11, <2>1
  <2>2. CASE ~(rpc.attempt > 0)
    <3>1. rpc.attempt = 0
      BY <1>5, <2>2
    <3>2. n * (MaxRetries + 1) <= k * (MaxRetries + 1)
      BY <1>3, WaitCost
    <3> QED
      BY <1>5, <1>6, <3>1, <3>2
  <2> QED
    BY <2>1, <2>2
<1>13. ASSUME call.todo # << >>, NEW status, Pass(status) PROVE RequestsCounted'
  <2>1. call' = [call EXCEPT !.todo = Tail(@), !.status = status] /\ rpc' = [rpc EXCEPT !.attempt = 0]
    BY <1>13 DEF Pass
  <2>2. rpc'.attempt = 0 /\ rpc'.requests = rpc.requests
    BY <2>1 DEF Heardable
  <2> QED
    BY <1>10, <1>12, <1>13, <2>1, <2>2
<1>14. ASSUME call.todo # << >>, Step \in {Network, Hydrate}, NEW status, NEW value,
              NEW field \in {"network", "final"}, Heard(field, value, status)
       PROVE  RequestsCounted'
  <2>1. /\ call' = [call EXCEPT !.todo = Tail(@), !.status = status]
        /\ rpc' = [rpc EXCEPT !.attempt = 0, !.requests = @ + 1, ![field] = value]
    BY <1>14 DEF Heard
  <2>2. rpc'.attempt = 0 /\ rpc'.requests = rpc.requests + 1
    BY <2>1 DEF Heardable
  <2> QED
    BY <1>10, <1>11, <1>14, <2>1, <2>2
<1> QED
  BY <1>1, <1>7, <1>8, <1>9, <1>13, <1>14 DEF Ending, Unheard

\* The client is sound in every state.
LEMMA ClientIsSound == SdkSpec => [](NetworkInv /\ StatusInv /\ RequestsCounted)
<1>1. SdkInit => NetworkInv /\ StatusInv /\ RequestsCounted
  <2>1. 0 <= MaxRetries /\ 0 <= 3 * (MaxRetries + 1) /\ ~(0 > 0)
    BY RetryAssumption
  <2> QED
    BY <2>1, IdleShape
       DEF SdkInit, ClientInit, NetworkInv, Heardable, WrongNetworkEnds, Silence,
           StatusInv, CallShape, StatusEarned, RequestsCounted, RequestsBounded
<1>2. NetworkInv /\ StatusInv /\ RequestsCounted /\ [AnyCall \/ ClientStep]_sdkVars
          => (NetworkInv /\ StatusInv /\ RequestsCounted)'
  <2> SUFFICES ASSUME NetworkInv, StatusInv, RequestsCounted, [AnyCall \/ ClientStep]_sdkVars
               PROVE  (NetworkInv /\ StatusInv /\ RequestsCounted)'
    OBVIOUS
  <2>1. CASE AnyCall
    <3>0. PICK m \in Methods, args \in {"good", "bad", "unknown"}, dry \in BOOLEAN : Invoke(m, args, dry)
      BY <2>1 DEF AnyCall, ArgsOf
    <3>1. rpc' = Silence /\ client' = client
      BY <3>0 DEF Invoke
    <3>2. NetworkInv'
      BY <3>1 DEF NetworkInv, Heardable, WrongNetworkEnds, Silence
    <3> QED
      BY <3>0, <3>2, CallStarts, CallStartsCount
  <2>2. CASE ClientStep
    BY <2>2, ClientStepHears, ClientStepKeepsStatus, ClientStepCounts DEF NetworkInv, StatusInv
  <2>3. CASE UNCHANGED sdkVars
    BY <2>3 DEF sdkVars, NetworkInv, WrongNetworkEnds, StatusInv, CallShape, StatusEarned,
                RequestsCounted, RequestsBounded, Step
  <2> QED
    BY <2>1, <2>2, <2>3
<1> QED
  BY <1>1, <1>2, PTL DEF SdkSpec

\* No transaction is made, and no call succeeds, on a network the server has said
\* is another one, for any number of retries.
THEOREM NeverWritesToWrongNetwork == SdkSpec => []NeverOnWrongNetwork
<1>1. NetworkInv => NeverOnWrongNetwork
  BY DEF NetworkInv, WrongNetworkEnds, NeverOnWrongNetwork, Idle
<1> QED
  BY <1>1, ClientIsSound, PTL

\* Whatever fails and however often, a call asks the server no more than its
\* three waits and the retry limit allow.
THEOREM RequestsAreBounded == SdkSpec => []RequestsBounded
<1>1. NetworkInv /\ StatusInv /\ RequestsCounted => RequestsBounded
  BY CountIsBounded DEF NetworkInv, StatusInv
<1> QED
  BY <1>1, ClientIsSound, PTL

\* A final status that a call has reported is never taken back, whatever the
\* server answers to the polls that follow and however often it is asked.
THEOREM FinalStatusIsKept == SdkSpec => FinalStatusKept
<1>1. NetworkInv /\ StatusInv /\ [AnyCall \/ ClientStep]_sdkVars => [FinalKept]_call
  <2> SUFFICES ASSUME NetworkInv, StatusInv, [AnyCall \/ ClientStep]_sdkVars PROVE [FinalKept]_call
    OBVIOUS
  <2>1. CASE AnyCall
    <3>1. PICK m \in Methods, args \in {"good", "bad", "unknown"}, dry \in BOOLEAN : Invoke(m, args, dry)
      BY <2>1 DEF AnyCall, ArgsOf
    <3> QED
      BY <3>1, CallStarts
  <2>2. CASE ClientStep
    BY <2>2, ClientStepKeepsStatus DEF NetworkInv
  <2>3. CASE UNCHANGED sdkVars
    BY <2>3 DEF sdkVars
  <2> QED
    BY <2>1, <2>2, <2>3
<1>2. FinalStatusKept <=> [][FinalKept]_call
  BY DEF FinalStatusKept, FinalKept
<1> QED
  BY <1>1, <1>2, ClientIsSound, PTL DEF SdkSpec

=============================================================================
