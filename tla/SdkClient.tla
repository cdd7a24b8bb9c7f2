------------------------------ MODULE SdkClient ------------------------------
(***************************************************************************)
(* The client of the Rust SDK (packages/xlm-ns-sdk/src/client.rs) talking  *)
(* to a Soroban RPC server that may be slow, down or on another network.   *)
(*                                                                         *)
(* A method is the list of the steps it takes: checks of arguments,        *)
(* contract ids and URL that return at the first failure, the check of the *)
(* network and the polling for a final status, which are the two places    *)
(* where the client waits for the server, and the submission itself.       *)
(* Methods that call methods contain their lists.  Every wait goes through *)
(* execute_with_retry.                                                     *)
(*                                                                         *)
(* Contract queries and submissions are placeholders in this SDK that      *)
(* always succeed; what they answer is left out, except whether the name   *)
(* asked for exists.                                                       *)
(***************************************************************************)
EXTENDS ErrorCodes

CONSTANTS
    MaxRetries,         \* config.retry.max_retries
    PollFinalStatus     \* config.poll_final_status

ASSUME RetryAssumption ==
    /\ MaxRetries \in Nat
    /\ PollFinalStatus \in BOOLEAN

VARIABLES
    client,     \* what the client was built with
    call,       \* the method being executed
    rpc,        \* what it has heard from the server
    returned    \* what the last method returned

sdkVars == << client, call, rpc, returned >>

IdStates == {"none", "bad", "ok"}
Clients == [url        : BOOLEAN,                    \* rpc_url can be parsed
            passphrase : BOOLEAN,                    \* network_passphrase is set
            ids        : [Contracts -> IdStates]]    \* contract ids: absent, malformed, valid

-----------------------------------------------------------------------------
(* Steps.                                                                  *)

Args      == << "args", "-" >>      \* non-empty names, valid accounts, positive amounts
Id(c)     == << "id", c >>          \* require_contract_id
IsSet(c)  == << "set", c >>         \* the id is only looked for
Url       == << "url", "-" >>       \* a Client is made from rpc_url
Chain     == << "chain", "-" >>     \* the chain is one the SDK knows
Lookup    == << "lookup", "-" >>    \* None when the name is unknown
Known     == << "known", "-" >>     \* an error when the name is unknown
Submit    == << "submit", "-" >>
Network   == << "network", "-" >>   \* verify_write_network
Hydrate   == << "hydrate", "-" >>   \* maybe_hydrate_submission

\* execute_with_retry around a placeholder: only making the Client can fail.
Query == Url

(* Queries.                                                                *)

resolve == << Id("registry"), Query, Query >>
get_registration == << Lookup >> \o resolve
get_registry_metadata == << Id("registry"), Query >>
get_owner_portfolio == << Args >>
list_registrations_by_owner_page == << Args >>
reverse_resolve == << Args >>
get_text_record == << Args >>
get_subdomains == << Args >>
get_bridge_routes == << Args >>
get_nft_record == << Args >>
get_auction == << Args, Lookup >>
get_auction_state == << Args, Known >>
rpc_context == << Url >>
get_route == << Args >> \o rpc_context \o << Lookup >>
build_message == << Args >> \o rpc_context \o << Chain >>
get_treasury_balance == << Id("registrar") >>
get_fee_metrics == << Id("registrar") >>
quote_registration == << Args, Id("registrar") >>
simulate_register == << Args, Id("registrar") >> \o quote_registration
simulate_renew == << Args, Id("registrar") >>

(* Writes.                                                                 *)

simulate_and_submit(c) == << Id(c), Submit, Hydrate >>

set_text_record == << Network, Args, Submit, Hydrate >>
set_text_records == << Args, Submit, Hydrate >>
register == << Args, Id("registrar"), Network >> \o quote_registration \o << Submit, Hydrate >>
renew == << Args, Id("registrar"), Network, Submit, Hydrate >>
transfer == << Network, Args, Submit, Hydrate >>
register_parent == << Network, Args >> \o simulate_and_submit("subdomain") \o << Hydrate >>
add_controller == << Network, Args >> \o simulate_and_submit("subdomain") \o << Hydrate >>
create_subdomain == << Network, Args >> \o simulate_and_submit("subdomain") \o << Hydrate >>
transfer_subdomain == << Network, Args >> \o simulate_and_submit("subdomain") \o << Hydrate >>
register_chain == << Network, Args >> \o rpc_context \o << IsSet("bridge"), Chain >>
mint_nft == << Args >> \o simulate_and_submit("nft") \o << Hydrate >>
approve_nft == << Args >> \o simulate_and_submit("nft") \o << Hydrate >>
transfer_nft == << Args >> \o simulate_and_submit("nft") \o << Hydrate >>
create_auction == << Network, Args >> \o rpc_context \o << Submit >>
bid_auction == << Network, Args >> \o rpc_context \o << Submit >>
settle_auction == << Network, Args >> \o rpc_context \o << Submit >>
load_reserved_manifest == << Args, IsSet("registrar") >> \o rpc_context \o << Submit >>

Steps == [
    resolve |-> resolve, get_registration |-> get_registration,
    get_registry_metadata |-> get_registry_metadata,
    get_owner_portfolio |-> get_owner_portfolio,
    list_registrations_by_owner_page |-> list_registrations_by_owner_page,
    reverse_resolve |-> reverse_resolve, get_text_record |-> get_text_record,
    get_subdomains |-> get_subdomains, get_bridge_routes |-> get_bridge_routes,
    get_nft_record |-> get_nft_record, get_auction |-> get_auction,
    get_auction_state |-> get_auction_state, get_route |-> get_route,
    build_message |-> build_message, get_treasury_balance |-> get_treasury_balance,
    get_fee_metrics |-> get_fee_metrics, quote_registration |-> quote_registration,
    simulate_register |-> simulate_register, simulate_renew |-> simulate_renew,
    set_text_record |-> set_text_record, set_text_records |-> set_text_records,
    register |-> register, renew |-> renew, transfer |-> transfer,
    register_parent |-> register_parent, add_controller |-> add_controller,
    create_subdomain |-> create_subdomain, transfer_subdomain |-> transfer_subdomain,
    register_chain |-> register_chain, mint_nft |-> mint_nft,
    approve_nft |-> approve_nft, transfer_nft |-> transfer_nft,
    create_auction |-> create_auction, bid_auction |-> bid_auction,
    settle_auction |-> settle_auction, load_reserved_manifest |-> load_reserved_manifest]

Methods == DOMAIN Steps

\* Methods with a dry_run parameter.
DryRunMethods == {"register_parent", "add_controller", "create_subdomain",
                  "transfer_subdomain", "mint_nft", "approve_nft", "transfer_nft"}

\* The arguments a caller may pass: in order, malformed, a name or chain the
\* SDK does not know.
ArgsOf(m) ==
    {"good"}
    \cup (IF \E i \in DOMAIN Steps[m] : Steps[m][i] = Args THEN {"bad"} ELSE {})
    \cup (IF \E i \in DOMAIN Steps[m] : Steps[m][i] \in {Lookup, Known, Chain}
          THEN {"unknown"} ELSE {})

-----------------------------------------------------------------------------
(* State.                                                                  *)

Statuses == {"none", "Simulated", "Submitted", "Confirmed", "Failed"}
Idle     == [op |-> "idle", args |-> "good", dry |-> FALSE, todo |-> << >>, status |-> "none"]

\* What is heard in one call.  attempt belongs to the wait that is
\* under way; requests counts those of the whole call.
Silence  == [attempt |-> 0, requests |-> 0,
             network |-> "unasked", final |-> "unknown"]
Nothing  == [kind |-> "none", detail |-> Text("none"), about |-> "-"]

\* XlmNsClient::new, the with_ methods and the builder.
new(url, passphrase, ids) == [url |-> url, passphrase |-> passphrase, ids |-> ids]

ClientInit(made) ==
    /\ client = made
    /\ call = Idle
    /\ rpc = Silence
    /\ returned = Nothing

ClientTypeOK ==
    /\ client \in Clients
    /\ call.op \in Methods \cup {"idle"}
    /\ call.status \in Statuses
    /\ rpc.attempt \in 0 .. MaxRetries
    /\ rpc.network \in {"unasked", "same", "other"}
    /\ rpc.final \in {"unknown", "SUCCESS", "FAILED"}
    /\ returned.kind \in {"none", "Ok", "InvalidRequest", "ContractError",
                          "NetworkPassphraseMismatch"}
    /\ returned.kind = "ContractError" => returned.detail \in ContractErrorCode

-----------------------------------------------------------------------------
(* A call and its local steps.                                             *)

Invoke(m, args, dry) ==
    /\ call = Idle
    /\ call' = [op |-> m, args |-> args, dry |-> dry, todo |-> Steps[m], status |-> "none"]
    /\ rpc' = Silence
    /\ returned' = Nothing
    /\ UNCHANGED client

At(step) == call # Idle /\ call.todo # << >> /\ Head(call.todo) = step
Step     == Head(call.todo)

\* The step is done.
Pass(status) ==
    /\ call' = [call EXCEPT !.todo = Tail(@), !.status = status]
    /\ rpc' = [rpc EXCEPT !.attempt = 0]
    /\ UNCHANGED << client, returned >>

Return(kind, detail, about) ==
    /\ returned' = [kind |-> kind, detail |-> detail, about |-> about]
    /\ call' = Idle
    /\ UNCHANGED << client, rpc >>

Refuse(phrase, about) == Return("InvalidRequest", Text(phrase), about)

\* The error or the early answer a local step ends the call with, if any.
require_contract_id(c) ==
    /\ At(Id(c))
    /\ CASE client.ids[c] = "ok"   -> Pass(call.status)
         [] client.ids[c] = "none" -> Refuse("not configured", c)
         [] client.ids[c] = "bad"  -> Refuse("invalid", c)

\* Only that there is an id.
contract_id_error(c) ==
    /\ At(IsSet(c))
    /\ IF client.ids[c] = "none" THEN Refuse("not configured", c) ELSE Pass(call.status)

rpc_client ==
    /\ At(Url)
    /\ IF client.url THEN Pass(call.status) ELSE Refuse("no client", "-")

\* require_label, validate_account and the other checks of arguments.
require_label ==
    /\ At(Args)
    /\ IF call.args = "bad" THEN Refuse("empty", "-") ELSE Pass(call.status)

CheckChain ==
    /\ At(Chain)
    /\ IF call.args = "unknown" THEN Refuse("unsupported chain", "-") ELSE Pass(call.status)

LookUpName ==
    \/ /\ At(Lookup)
       /\ IF call.args = "unknown" THEN Return("Ok", Text("absent"), "-") ELSE Pass(call.status)
    \/ /\ At(Known)
       /\ IF call.args = "unknown"
          THEN Return("ContractError", << "any", "NameNotFound" >>, "-")
          ELSE Pass(call.status)

\* make_submission, and the records written in place of it.
make_submission ==
    /\ At(Submit)
    /\ Pass(IF call.dry THEN "Simulated" ELSE "Submitted")

Finish ==
    /\ call # Idle
    /\ call.todo = << >>
    /\ Return("Ok", Text(call.status), "-")

-----------------------------------------------------------------------------
(* Waiting for the server.                                                 *)

\* Faulty variant: one retry too many.
may_retry_inclusive(attempt) == attempt <= MaxRetries

may_retry(attempt) == attempt < MaxRetries

\* execute_with_retry asks once more after a failure that may pass; the delay
\* before it is finite.
Retry ==
    /\ may_retry(rpc.attempt)
    /\ rpc' = [rpc EXCEPT !.attempt = @ + 1, !.requests = @ + 1]
    /\ UNCHANGED << client, call, returned >>

\* The wait is over.  rpc records what was heard.
Heard(field, value, status) ==
    /\ call' = [call EXCEPT !.todo = Tail(@), !.status = status]
    /\ rpc' = [rpc EXCEPT !.attempt = 0, !.requests = @ + 1, ![field] = value]
    /\ UNCHANGED << client, returned >>

\* Errors of the transport, once retrying is over or useless, never end a call.
Unheard == Heard("network", rpc.network, call.status)

\* Faulty variant: an answer from another network is dropped with the errors.
wrong_network_dropped == Heard("network", "other", call.status)

wrong_network ==
    /\ returned' = [kind |-> "NetworkPassphraseMismatch", detail |-> Text("none"), about |-> "-"]
    /\ rpc' = [rpc EXCEPT !.requests = @ + 1, !.network = "other"]
    /\ call' = Idle
    /\ UNCHANGED client

CanAsk == client.url

verify_write_network ==
    /\ At(Network)
    /\ \/ ~client.passphrase /\ Refuse("not configured", "passphrase")
       \/ client.passphrase /\ ~CanAsk /\ Pass(call.status)
       \/ /\ client.passphrase /\ CanAsk
          /\ \/ Heard("network", "same", call.status)
             \/ wrong_network
             \/ Retry
             \/ Unheard

\* Faulty variant: a server that lags behind takes the status back.
hydrated_reset(status, answer) ==
    CASE answer = "SUCCESS" -> "Confirmed"
      [] answer = "FAILED"  -> "Failed"
      [] OTHER              -> "Submitted"

hydrated(status, answer) ==
    CASE answer = "SUCCESS" -> "Confirmed"
      [] answer = "FAILED"  -> "Failed"
      [] OTHER              -> status

\* A transaction has one final status; a server may not know it yet.
maybe_hydrate_submission ==
    /\ At(Hydrate)
    /\ IF ~PollFinalStatus \/ ~CanAsk
       THEN Pass(call.status)
       ELSE \/ \E answer \in {"SUCCESS", "FAILED"} :
                  /\ rpc.final \in {"unknown", answer}
                  /\ Heard("final", answer, hydrated(call.status, answer))
            \/ Heard("final", rpc.final, hydrated(call.status, "OTHER"))
            \/ Retry
            \/ Unheard

-----------------------------------------------------------------------------
ClientStep ==
    \/ \E c \in Contracts : require_contract_id(c) \/ contract_id_error(c)
    \/ rpc_client
    \/ require_label
    \/ CheckChain
    \/ LookUpName
    \/ make_submission
    \/ Finish
    \/ verify_write_network
    \/ maybe_hydrate_submission

\* An application calls a method.
AnyCall ==
    \E m \in Methods : \E args \in ArgsOf(m), dry \in BOOLEAN :
        /\ dry => m \in DryRunMethods
        /\ Invoke(m, args, dry)

SdkInit == \E made \in Clients : ClientInit(made)

SdkSpec == SdkInit /\ [][AnyCall \/ ClientStep]_sdkVars

-----------------------------------------------------------------------------
\* No transaction is made, and no call succeeds, once the server has answered
\* that it serves another network, however many failures came before.
NeverOnWrongNetwork ==
    rpc.network = "other" => call.status = "none" /\ returned.kind # "Ok"

\* A server that fails on and on is asked a bounded number of times in a call,
\* which waits for it in at most three places.
RequestsBounded == rpc.requests <= 3 * (MaxRetries + 1)

\* A final status that was reported is never taken back, although the status
\* is polled again by the caller of simulate_and_submit.
FinalStatusKept ==
    [][call.status \in {"Confirmed", "Failed"} /\ call'.op = call.op
          => call'.status = call.status]_call

=============================================================================
