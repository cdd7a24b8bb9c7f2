---------------------------- MODULE MCStandalone -----------------------------
(***************************************************************************)
(* Small instances of the parts that share no state with the registry: the *)
(* bridge contract, the ledger ingestion, and the programs outside the     *)
(* ledger.  A behaviour is one of one part, chosen at the start.           *)
(***************************************************************************)
EXTENDS Cli, Portfolio, Watchlist, Monitor, Ingestion, Bridge

VARIABLES
    part,       \* the part that runs
    thrown      \* a contract and the code of its error

standaloneVars == << cliVars, listing, watchVars, monitorVars, ingestionVars, bridgeVars, thrown, part >>

\* Files of a bulk command.
SomeRecords == {<< >>, << "good", "bad", "good" >>}

\* Clients an application may have made: one id is missing, all are malformed, or
\* URL and passphrase are not in order.
OddClient(odd, id) == new(TRUE, TRUE, [c \in Contracts |-> IF c = odd THEN id ELSE "ok"])
AllBadClient == new(TRUE, TRUE, [c \in Contracts |-> "bad"])
AllOkClient(url, passphrase) == new(url, passphrase, [c \in Contracts |-> "ok"])

SomeClients ==
    {OddClient(odd, id) : odd \in Contracts, id \in {"none", "ok"}}
    \cup {AllBadClient}
    \cup {AllOkClient(url, passphrase) : url, passphrase \in BOOLEAN}

Init ==
    /\ part \in {"cli", "app", "portfolio", "watch", "monitor", "ingestion", "bridge", "errors"}
    /\ thrown = << "registry", 1 >>
    /\ CliInit
    /\ PortfolioInit
    /\ WatchInit
    /\ MonitorInit
    /\ IngestionInit
    /\ BridgeInit
    /\ \E made \in IF part = "app" THEN SomeClients ELSE {Unmade} : ClientInit(made)

CliStep == AnyStart \/ HandlerStep \/ InSdk \/ Exit
AppStep == (AnyCall \/ ClientStep) /\ UNCHANGED cli

\* A contract throws, or a number arrives that it does not throw.
Throws == \E c \in Contracts : \E code \in 0 .. Len(Thrown[c]) + 1 : thrown' = << c, code >>

\* A step of one part leaves the others and the choice alone.
CliOnly(A)       == part = "cli" /\ A /\ UNCHANGED << listing, watchVars, monitorVars, ingestionVars, bridgeVars, thrown, part >>
AppOnly(A)       == part = "app" /\ A /\ UNCHANGED << listing, watchVars, monitorVars, ingestionVars, bridgeVars, thrown, part >>
PortfolioOnly(A) == part = "portfolio" /\ A /\ UNCHANGED << cliVars, watchVars, monitorVars, ingestionVars, bridgeVars, thrown, part >>
WatchOnly(A)     == part = "watch" /\ A /\ UNCHANGED << cliVars, listing, monitorVars, ingestionVars, bridgeVars, thrown, part >>
MonitorOnly(A)   == part = "monitor" /\ A /\ UNCHANGED << cliVars, listing, watchVars, ingestionVars, bridgeVars, thrown, part >>
IngestionOnly(A) == part = "ingestion" /\ A /\ UNCHANGED << cliVars, listing, watchVars, monitorVars, bridgeVars, thrown, part >>
BridgeOnly(A)    == part = "bridge" /\ A /\ UNCHANGED << cliVars, listing, watchVars, monitorVars, ingestionVars, thrown, part >>
ErrorsOnly(A)    == part = "errors" /\ A /\ UNCHANGED << cliVars, listing, watchVars, monitorVars, ingestionVars, bridgeVars, part >>

Next ==
    \/ CliOnly(CliStep)
    \/ AppOnly(AppStep)
    \/ PortfolioOnly(PortfolioStep)
    \/ WatchOnly(WatchStep)
    \/ MonitorOnly(MonitorStep)
    \/ IngestionOnly(IngestionNext)
    \/ BridgeOnly(BridgeNext)
    \/ ErrorsOnly(Throws)

\* The command line runs on and the server answers or the request fails; a user
\* who is asked answers; the fairness of Ingestion.
Fairness ==
    /\ WF_standaloneVars(CliOnly(HandlerStep \/ InSdk))
    /\ WF_standaloneVars(PortfolioOnly(FetchStep))
    /\ WF_standaloneVars(IngestionOnly(Resolve))
    /\ WF_standaloneVars(IngestionOnly(BackoffElapses))
    /\ SF_standaloneVars(IngestionOnly(CallNextLedger))

Spec == Init /\ [][Next]_standaloneVars /\ Fairness

-----------------------------------------------------------------------------
\* Every code a contract throws reaches the user as the same advice, whether
\* the SDK has decoded it or the CLI finds the number in the text of a failed
\* simulation, and numbers no contract throws are unknown on both ways.
CodesAgree ==
    LET c    == thrown[1]
        code == thrown[2]
    IN  /\ code \in DOMAIN Thrown[c] => decode_error(c, code) = << c, Thrown[c][code] >>
        /\ classify_error("SimulationFailed", << "contract error", code >>, c)
              = classify_error("ContractError", decode_error(c, code), c)

\* With that, the advice fits what went wrong, wherever the error was decoded.
AdviceRight == AdviceFits /\ CodesAgree

\* The variables of the programs hold what the code can put there.
ProgramTypeOK == ClientTypeOK /\ CliTypeOK /\ IngestionTypeOK

\* Nothing is retried without a bound: questions to the server in one call of
\* the SDK, starts of stellar-core in one call of next_ledger.
RetriesBounded == RequestsBounded /\ StartsBounded

\* Whatever fails or times out, the programs come back to their user: a run of
\* the command line ends, so does the loop over the pages of a portfolio, and
\* next_ledger returns.
CallsEnd == CommandEnds /\ ListingEnds /\ CallReturns
=============================================================================
