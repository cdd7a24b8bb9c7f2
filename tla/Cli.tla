-------------------------------- MODULE Cli ----------------------------------
(***************************************************************************)
(* The command line client (cli/src): one run of xlm-ns after the other,   *)
(* each on a client of the SDK.                                            *)
(*                                                                         *)
(* A run loads the configuration, checks the contract flags and ids        *)
(* against the command's policy unless --dry-run is given, loads the       *)
(* signer, and then executes the handler of the command: a list of steps,  *)
(* most of them calls of the SDK.  Whatever error comes back is turned     *)
(* into an advice and the process exits with 1.  What is printed on        *)
(* success is left out.                                                    *)
(***************************************************************************)
EXTENDS SdkClient, FiniteSets

CONSTANT
    Records     \* the files given to bulk commands: sequences of arguments

VARIABLE
    cli         \* the run of the program

cliVars == << sdkVars, cli >>

-----------------------------------------------------------------------------
(* Steps of a handler.                                                     *)

Need(c)        == << "need", c >>           \* ok_or_else(... not configured)
Expect(c)      == << "expect", c >>         \* expect(...)
Do(m)          == << "do", m >>             \* an error of the call ends the run
Wrapped(m)     == << "wrapped", m >>        \* so it does, but only its text is kept
Try(m)         == << "try", m >>            \* an error of the call is ignored
Probe(m)       == << "probe", m >>          \* only an error of the transport counts
Each(m)        == << "each", m >>           \* one call per record, errors are printed
IfFound(why)   == << "found", why >>        \* an error if the last call found the name
IfAbsent(why)  == << "absent", why >>       \* an error if it did not
Inputs         == << "inputs", "-" >>       \* name and owner, from flags or prompts
Confirm        == << "confirm", "-" >>      \* prompt_confirm
Local          == << "local", "-" >>        \* a file is read or written, an editor run
Checks         == << "checks", "-" >>       \* config validate: exits without an advice
DryStops       == << "dry", "-" >>          \* --dry-run ends the run here
Unimplemented  == << "unimplemented", "-" >>

-----------------------------------------------------------------------------
(* Handlers.                                                               *)

run_register(interactive) ==
    IF interactive
    THEN << Need("registrar"), Inputs, Do("get_registration"), IfFound("already registered"),
            Do("quote_registration"), Confirm, Do("register") >>
    ELSE << Need("registrar"), Inputs, Do("quote_registration"), Do("register") >>

run_renew == << Need("registrar"), Do("get_registration"), IfAbsent("not registered"), Do("renew") >>

\* Faulty variant: a transfer whose result cannot be read back is an error.
run_transfer_verified == << Do("transfer"), Do("get_registration") >>

run_transfer == << Do("transfer"), Try("get_registration") >>

\* The placeholders of the SDK always answer with an address and a primary name.
run_resolve == << Do("resolve"), IfAbsent("not found") >>
run_reverse == << Do("reverse_resolve"), IfAbsent("no primary name") >>
run_text_get == << Do("get_text_record") >>
run_text_set == << Do("set_text_record") >>

run_auction_create == << Do("create_auction") >>
run_auction_bid == << Do("bid_auction") >>
run_auction_inspect == << Do("get_auction"), IfAbsent("no auction") >>
run_auction_settle == << Do("settle_auction") >>

run_register_chain == << Do("register_chain") >>
run_inspect_route == << Do("get_route"), IfAbsent("no route") >>
run_generate_payload == << Do("build_message") >>

run_register_parent == << Do("register_parent") >>
run_add_controller == << Do("add_controller") >>
run_create_subdomain == << Do("create_subdomain") >>
run_transfer_subdomain == << Do("transfer_subdomain") >>

run_nft_inspect == << Need("nft"), Wrapped("get_nft_record") >>
run_whois == << Wrapped("get_registration") >>
run_quote == << Expect("registrar"), Wrapped("quote_registration") >>
run_availability == << Wrapped("get_registration") >>
run_healthcheck == << Probe("get_registration") >>

\* With JSON or CSV output the metadata of every name listed is fetched.
run_portfolio(export) ==
    IF export
    THEN << Wrapped("list_registrations_by_owner_page"),
            Do("get_registry_metadata"), Do("get_registry_metadata") >>
    ELSE << Wrapped("list_registrations_by_owner_page") >>

run_bulk_register == << Local, DryStops, Need("registrar"), Each("register") >>
run_bulk_renew == << Local, DryStops, Need("registrar"), Each("renew") >>

\* The watchlist itself is the subject of module Watchlist.
run_watch == << Local >>
run_watch_check == << Local, Do("get_registration"), Local >>

run_config_init == << Local >>
run_config_edit == << Local, Local >>
run_config_validate == << Local, Checks >>
run_config_show == << Local >>

run_migrate_transform == << Local, DryStops, Local >>
run_migrate_verify == << Local, Local, Local >>
run_migrate_rollback == << Local >>
run_migrate_export == << DryStops, Local >>
run_migrate_import == << Local >>

run_completion_command == << Local >>

Handlers == [
    register |-> [plain |-> run_register(FALSE), interactive |-> run_register(TRUE)],
    renew |-> [run |-> run_renew],
    transfer |-> [run |-> run_transfer],
    resolve |-> [run |-> run_resolve],
    reverse |-> [run |-> run_reverse],
    text |-> [get |-> run_text_get, set |-> run_text_set],
    auction |-> [create |-> run_auction_create, bid |-> run_auction_bid,
                 inspect |-> run_auction_inspect, settle |-> run_auction_settle,
                 export |-> << Unimplemented >>],
    bridge |-> [register |-> run_register_chain, inspect |-> run_inspect_route,
                payload |-> run_generate_payload, vectors |-> << Unimplemented >>],
    subdomain |-> [parent |-> run_register_parent, controller |-> run_add_controller,
                   create |-> run_create_subdomain, transfer |-> run_transfer_subdomain],
    nft |-> [inspect |-> run_nft_inspect],
    whois |-> [run |-> run_whois],
    portfolio |-> [human |-> run_portfolio(FALSE), export |-> run_portfolio(TRUE)],
    quote |-> [run |-> run_quote],
    availability |-> [run |-> run_availability],
    healthcheck |-> [run |-> run_healthcheck],
    bulk |-> [register |-> run_bulk_register, renew |-> run_bulk_renew],
    watch |-> [list |-> run_watch, check |-> run_watch_check],
    config |-> [init |-> run_config_init, edit |-> run_config_edit,
                validate |-> run_config_validate, show |-> run_config_show],
    migrate |-> [transform |-> run_migrate_transform, verify |-> run_migrate_verify,
                 rollback |-> run_migrate_rollback, export |-> run_migrate_export,
                 import |-> run_migrate_import],
    completions |-> [run |-> run_completion_command]]

Commands == UNION {{<< g, s >> : s \in DOMAIN Handlers[g]} : g \in DOMAIN Handlers}
Handler(cmd) == Handlers[cmd[1]][cmd[2]]

\* Commands with a --signer flag.
Signed == {<< "register", "plain" >>, << "register", "interactive" >>, << "text", "set" >>,
           << "transfer", "run" >>, << "renew", "run" >>, << "auction", "create" >>,
           << "auction", "bid" >>, << "auction", "settle" >>}

-----------------------------------------------------------------------------
(* Configuration, policy and error context.                                *)

\* The value of an id is the first one given by --flag, the environment, the
\* section of the network in the file, and the file's default section.
Layers == [{"flag", "env", "network", "default"} -> IdStates]

or(id, otherwise) == IF id # "none" THEN id ELSE otherwise

\* The network's section of the file is applied over the default one.
apply(file) == or(file["network"], file["default"])

\* load_config: the flag, or the environment, or the file.
layered(l) == or(or(l["flag"], l["env"]), apply(l))

\* What the layers can come to for one contract: the id, and whether its flag
\* was given.
Settings == {[id |-> layered(l), flag |-> l["flag"] # "none"] : l \in Layers}

\* validate_network_config: every id that is set is well formed, needed or not.
valid_config(ids) == \A c \in Contracts : ids[c] # "bad"

allowed == [
    register |-> {"registrar", "registry"}, renew |-> {"registrar", "registry"},
    quote |-> {"registrar", "registry"}, bulk |-> {"registrar", "registry"},
    resolve |-> {"resolver", "registry"}, reverse |-> {"resolver", "registry"},
    text |-> {"resolver", "registry"}, transfer |-> {"registry"},
    auction |-> {"auction", "registry"}, bridge |-> {"bridge", "registry"},
    subdomain |-> {"subdomain", "registry"}, nft |-> {"nft", "registry"},
    whois |-> {"registry", "resolver"}, portfolio |-> {"registry", "resolver"},
    availability |-> {"registry"}, watch |-> {"registry"}, healthcheck |-> Contracts,
    config |-> {}, migrate |-> {}, completions |-> {}]

\* Faulty variant: quoting is taken for a command that needs no contract.
required_but_quote(group) ==
    CASE group \in {"register", "renew", "bulk"} -> {"registrar"}
      [] group \in {"resolve", "reverse", "text"} -> {"resolver"}
      [] group \in {"transfer", "whois", "portfolio"} -> {"registry"}
      [] group \in {"auction", "bridge", "subdomain", "nft"} -> {group}
      [] OTHER -> {}

required(group) ==
    CASE group \in {"register", "renew", "quote", "bulk"} -> {"registrar"}
      [] group \in {"resolve", "reverse", "text"} -> {"resolver"}
      [] group \in {"transfer", "whois", "portfolio"} -> {"registry"}
      [] group \in {"auction", "bridge", "subdomain", "nft"} -> {group}
      [] OTHER -> {}

error_domain(group) ==
    CASE group \in {"register", "renew", "quote", "bulk"} -> "registrar"
      [] group \in {"resolve", "reverse", "text"} -> "resolver"
      [] group \in {"transfer", "watch", "whois", "portfolio", "availability"} -> "registry"
      [] group \in {"auction", "bridge", "subdomain", "nft"} -> group
      [] OTHER -> "general"

\* The ids a handler gives its client: those of XlmNsClient::new, and what it
\* adds.  whois and portfolio put a word in place of a missing resolver, and
\* healthcheck one in place of a missing registry.
OrWord(id) == IF id = "none" THEN "bad" ELSE id

ClientIds(group, ids) ==
    [c \in Contracts |->
        CASE c = "registry" -> IF group = "healthcheck" THEN OrWord(ids[c]) ELSE ids[c]
          [] c \in {"subdomain", "bridge", "auction"} -> ids[c]
          [] c = "registrar" /\ group \in {"register", "renew", "quote", "bulk"} -> ids[c]
          [] c = "resolver" /\ group \in {"whois", "portfolio"} -> OrWord(ids[c])
          [] c = "nft" /\ group = "nft" -> ids[c]
          [] OTHER -> "none"]

-----------------------------------------------------------------------------
(* State.                                                                  *)

Off == [at |-> "off", cmd |-> << "completions", "run" >>, dry |-> FALSE, args |-> "good",
        given |-> TRUE, tty |-> TRUE, ids |-> [c \in Contracts |-> "none"],
        todo |-> << >>, left |-> << >>, absent |-> FALSE,
        sent |-> 0, cause |-> "none", missing |-> "none", advice |-> "none"]

\* Before a run there is no client.
Unmade == new(TRUE, TRUE, [c \in Contracts |-> "ok"])

CliInit == cli = Off

CliTypeOK ==
    /\ cli.at \in {"off", "run", "wait", "ok", "failed", "panic"}
    /\ cli.cmd \in Commands
    /\ cli.args \in {"good", "bad", "unknown"}
    /\ cli.given \in BOOLEAN
    /\ cli.ids \in [Contracts -> {"none", "ok"}]
    /\ cli.sent \in Nat
    /\ cli.missing \in Contracts \cup {"none", "passphrase"}
    /\ (cli.at = "failed") <=> (cli.advice # "none")
    /\ cli.at \in {"ok", "failed", "panic"} => call = Idle

Done == {"off", "ok", "failed", "panic"}

\* The run ends; only what it was and what came of it is kept.
Ended(run, at, cause, missing, advice) ==
    [Off EXCEPT !.at = at, !.cmd = run.cmd, !.dry = run.dry, !.left = run.left,
                !.sent = run.sent, !.cause = cause, !.missing = missing, !.advice = advice]

\* handle_error, and exit with 1.
Failed(run, kind, detail, cause, missing) ==
    Ended(run, "failed", cause, missing, classify_error(kind, detail, error_domain(run.cmd[1])))

\* An error that is only a text.
Says(run, phrase, cause, missing) == Failed(run, "Text", Text(phrase), cause, missing)

-----------------------------------------------------------------------------
(* run_with_cli up to the handler.                                         *)

\* odd is the one contract whose id is set in its own way; the others are all
\* set in the file or all missing.  broken: the file cannot be read or parsed.
Start(cmd, dry, args, url, odd, setting, rest, broken, signer, given, tty, records) ==
    LET ids   == [c \in Contracts |-> IF c = odd THEN setting.id ELSE rest]
        flags == IF setting.flag THEN {odd} ELSE {}
        run   == [Off EXCEPT !.at = "run", !.cmd = cmd, !.dry = dry, !.args = args,
                             !.given = given, !.tty = tty, !.ids = ids,
                             !.todo = Handler(cmd), !.left = records]
    IN  /\ cli = Off
        /\ cli' = IF cmd[1] = "completions" THEN [run EXCEPT !.ids = Off.ids]
                  ELSE IF broken \/ ~valid_config(ids) THEN Says(run, "no config", "config", "none")
                  ELSE IF ~dry /\ ~(flags \subseteq allowed[cmd[1]])
                       THEN Says(run, "flag not allowed", "policy", "none")
                  ELSE IF ~dry /\ \E c \in required(cmd[1]) : ids[c] = "none"
                       THEN Says(run, "contract required", "policy", "none")
                  ELSE IF ~signer THEN Says(run, "no profile", "signer", "none")
                  ELSE run
        /\ client' = new(url, TRUE, ClientIds(cmd[1], ids))
        /\ UNCHANGED << call, rpc, returned >>

\* The process is gone.
Exit ==
    /\ cli.at \in {"ok", "failed", "panic"}
    /\ cli' = Off
    /\ client' = Unmade
    /\ rpc' = Silence
    /\ returned' = Nothing
    /\ UNCHANGED call

-----------------------------------------------------------------------------
(* Steps of the handler.                                                   *)

Doing(kind) == cli.at = "run" /\ cli.todo # << >> /\ Head(cli.todo)[1] = kind
What        == Head(cli.todo)[2]
Onward      == [cli EXCEPT !.at = "run", !.todo = Tail(@)]

DoLocal == UNCHANGED sdkVars

Conclude ==
    /\ cli.at = "run" /\ cli.todo = << >>
    /\ cli' = Ended(cli, "ok", "none", "none", "none")
    /\ DoLocal

CheckId ==
    /\ Doing("need")
    /\ cli' = IF cli.ids[What] = "none" THEN Says(cli, "not configured", "missing id", What)
              ELSE Onward
    /\ DoLocal

ExpectId ==
    /\ Doing("expect")
    /\ cli' = IF cli.ids[What] = "none" THEN Ended(cli, "panic", "missing id", What, "none")
              ELSE Onward
    /\ DoLocal

\* Whether the last lookup found the name.
Judge ==
    /\ \/ Doing("found") /\ cli' = IF cli.absent THEN Onward ELSE Says(cli, What, What, "none")
       \/ Doing("absent") /\ cli' = IF cli.absent THEN Says(cli, What, What, "none") ELSE Onward
    /\ DoLocal

\* prompt_text asks until it has a valid answer, unless what was given on the
\* command line is malformed; without a terminal everything must be given.
prompt_registration_inputs ==
    /\ Doing("inputs")
    /\ \/ ~cli.given /\ ~cli.tty /\ cli' = Says(cli, "no terminal", "inputs", "none")
       \/ cli.given /\ cli.args = "bad" /\ cli' = Says(cli, "invalid", "inputs", "none")
       \/ cli.given /\ cli.args # "bad" /\ cli' = Onward
       \/ ~cli.given /\ cli.tty /\ cli' = Onward
    /\ DoLocal

prompt_confirm ==
    /\ Doing("confirm")
    /\ cli' \in {Onward, Says(cli, "aborted", "aborted", "none")}
    /\ DoLocal

UseFile ==
    /\ Doing("local")
    /\ cli' \in {Onward, Says(cli, "bad file", "file", "none"), Says(cli, "other", "file", "none")}
    /\ DoLocal

run_validate ==
    /\ Doing("checks")
    /\ cli' \in {Onward, Ended(cli, "failed", "checks", "none", "checks")}
    /\ DoLocal

StopIfDry ==
    /\ Doing("dry")
    /\ cli' = IF cli.dry THEN Ended(cli, "ok", "none", "none", "none") ELSE Onward
    /\ DoLocal

NotImplemented ==
    /\ Doing("unimplemented")
    /\ cli' = Says(cli, "not implemented", "unimplemented", "none")
    /\ DoLocal

CallSdk ==
    /\ \/ /\ Doing("do") \/ Doing("wrapped") \/ Doing("try") \/ Doing("probe")
          /\ Invoke(What, cli.args, FALSE)
       \/ /\ Doing("each") /\ cli.left # << >>
          /\ Invoke(What, Head(cli.left), FALSE)
    /\ cli' = [cli EXCEPT !.at = "wait"]

EachDone ==
    /\ Doing("each") /\ cli.left = << >>
    /\ cli' = Onward
    /\ DoLocal

\* A step of the SDK inside the call; sent counts the transactions made.
InSdk ==
    /\ cli.at = "wait"
    /\ ClientStep
    /\ cli' = [cli EXCEPT !.sent = IF call.status = "none" /\ call'.status = "Submitted"
                                   THEN @ + 1 ELSE @]

-----------------------------------------------------------------------------
(* What a handler makes of the result of a call.                           *)

Ok == returned.kind = "Ok"

SdkCause == CASE returned.kind = "NetworkPassphraseMismatch" -> "wrong network"
              [] returned.detail = Text("not configured")    -> "missing id"
              [] OTHER                                       -> "refused"
SdkMissing == IF SdkCause = "missing id" THEN returned.about ELSE "none"

AfterDo ==
    IF Ok THEN [Onward EXCEPT !.absent = returned.detail = Text("absent")]
    ELSE Failed(cli, returned.kind, returned.detail, SdkCause, SdkMissing)

AfterWrapped == IF Ok THEN Onward ELSE Failed(cli, "Text", returned.detail, SdkCause, SdkMissing)

AfterTry == Onward

\* Whatever else the server or the SDK refuses, the server was reached.  The
\* placeholders of the SDK never return an error of the transport, and an empty
\* passphrase, the other reason to report a degraded status, is refused by
\* validate_network_config before.
AfterProbe == IF returned.kind = "Transport" THEN Says(cli, "degraded", "degraded", "none") ELSE Onward

AfterEach == [cli EXCEPT !.at = "run", !.left = Tail(@)]

Resume ==
    /\ cli.at = "wait" /\ call = Idle /\ returned # Nothing
    /\ cli' = CASE Head(cli.todo)[1] = "do"      -> AfterDo
                [] Head(cli.todo)[1] = "wrapped" -> AfterWrapped
                [] Head(cli.todo)[1] = "try"     -> AfterTry
                [] Head(cli.todo)[1] = "probe"   -> AfterProbe
                [] Head(cli.todo)[1] = "each"    -> AfterEach
    /\ DoLocal

HandlerStep ==
    \/ Conclude \/ CheckId \/ ExpectId \/ Judge
    \/ prompt_registration_inputs \/ prompt_confirm
    \/ UseFile \/ run_validate \/ StopIfDry \/ NotImplemented
    \/ CallSdk \/ EachDone \/ Resume

\* Contracts whose setting can matter to a command: those of its policy, the
\* registry, and one it has no use for.  A URL is malformed in an otherwise
\* complete configuration only.
Odd(cmd) == allowed[cmd[1]] \cup {"registry", "nft"}

AnyStart ==
    /\ cli = Off
    /\ \E cmd \in Commands, dry \in BOOLEAN, args \in {"good", "bad", "unknown"},
          setting \in Settings, rest \in {"none", "ok"} :
       \E odd \in Odd(cmd),
          url \in IF setting = [id |-> "ok", flag |-> FALSE] /\ rest = "ok" THEN BOOLEAN ELSE {TRUE},
          broken \in BOOLEAN,
          signer \in IF cmd \in Signed THEN BOOLEAN ELSE {TRUE},
          given \in IF cmd[1] = "register" /\ args # "bad" THEN BOOLEAN ELSE {TRUE},
          tty \in IF cmd[1] = "register" THEN BOOLEAN ELSE {TRUE},
          records \in IF cmd[1] = "bulk" THEN Records ELSE {<< >>} :
           Start(cmd, dry, args, url, odd, setting, rest, broken, signer, given, tty, records)

-----------------------------------------------------------------------------
(* Properties.                                                             *)

\* After the policy check of a run without --dry-run only the registry's id can
\* still turn out to be missing, and no handler panics for want of an id.
MissingIdOnlyRegistry ==
    ~cli.dry => cli.at # "panic" /\ cli.missing \in {"none", "registry"}

\* The advice that reaches the user is the one for what went wrong, for the four
\* causes the handlers tell apart: whichever command it was, and whether the error
\* came as an error of the SDK, as its text, or from the handler itself.
AdviceFits ==
    /\ cli.cause = "already registered" => cli.advice = "already registered"
    /\ cli.cause = "not registered" => cli.advice = "not registered"
    /\ cli.cause = "missing id" /\ cli.at = "failed" => cli.advice = "not configured"
    /\ cli.cause = "wrong network" => cli.advice = "NetworkPassphraseMismatch"

\* What the exit of the process says is true: a run that reports an error has made
\* no transaction, so that the command can be repeated, and a bulk command that
\* reports none has tried every record, the ones after a failure too.
ExitStatusTrue ==
    /\ cli.at \in {"failed", "panic"} => cli.sent = 0
    /\ cli.at = "ok" /\ cli.cmd[1] = "bulk" /\ ~cli.dry => cli.left = << >>

\* A run ends, if the user answers the prompts.
CommandEnds == (cli.at \notin Done) ~> (cli.at \in Done)
=============================================================================
