----------------------------- MODULE ErrorCodes ------------------------------
(***************************************************************************)
(* From the number a contract throws to the advice the command line gives. *)
(*                                                                         *)
(* The same code is looked up in four places that nothing keeps in step:   *)
(*   - the error enum of the contract that throws it;                      *)
(*   - decode_error of the Rust SDK (packages/xlm-ns-sdk/src/errors.rs);   *)
(*   - contract_error of the CLI (cli/src/error.rs), for decoded errors;   *)
(*   - contract_error_for_domain of the CLI, for codes found in a text.    *)
(* An error of a contract is the pair of contract and name; an advice is   *)
(* named for what its summary says.                                        *)
(***************************************************************************)
EXTENDS Integers, Sequences

Contracts == {"registry", "registrar", "resolver", "subdomain", "auction", "bridge", "nft"}

-----------------------------------------------------------------------------
(* What the contracts throw: the n-th name has code n.                     *)

RegistryError == << "AlreadyRegistered", "NotFound", "NotYetClaimable", "NotActive",
    "Unauthorized", "MetadataTooLong", "Validation", "InvalidExpiry",
    "InvalidGracePeriod", "UpgradeFailed", "Locked" >>
RegistrarError == << "InsufficientFee", "NotFound", "NotRenewable", "AlreadyRegistered",
    "Reserved", "Unauthorized", "Validation", "RegistrationClaimable", "NotInitialized",
    "AlreadyInitialized", "RateLimitExceeded", "UpgradeFailed", "QuoteExpired" >>
ResolverError == << "Validation", "RecordNotFound", "Unauthorized", "TooManyTextRecords",
    "NotInitialized", "TextRecordValueTooLong", "InvalidChain", "InvalidKey",
    "BatchTooLarge", "UpgradeFailed" >>
SubdomainError == << "Validation", "ParentNotFound", "AlreadyExists", "NotFound",
    "Unauthorized", "UpgradeFailed", "DepthLimitExceeded" >>
AuctionError == << "Validation", "AlreadyExists", "NotFound", "Closed", "NotStarted",
    "NotEnded", "AlreadySettled", "InvalidBid", "UpgradeFailed", "ReentrancyDetected" >>
BridgeError == << "Validation", "UnsupportedChain", "UpgradeFailed", "Unauthorized",
    "NotFound", "AlreadyExists" >>
NftError == << "AlreadyMinted", "NotFound", "Unauthorized", "UpgradeFailed", "NotInitialized" >>

Thrown == [registry |-> RegistryError, registrar |-> RegistrarError,
           resolver |-> ResolverError, subdomain |-> SubdomainError,
           auction |-> AuctionError, bridge |-> BridgeError, nft |-> NftError]

-----------------------------------------------------------------------------
(* The SDK.                                                                *)

\* Faulty variant: the table misses the code a contract gained last.
decode_table_short == [Thrown EXCEPT !.registrar = SubSeq(@, 1, 12)]

decode_table == [
    registry  |-> << "AlreadyRegistered", "NotFound", "NotYetClaimable", "NotActive",
                     "Unauthorized", "MetadataTooLong", "Validation", "InvalidExpiry",
                     "InvalidGracePeriod", "UpgradeFailed", "Locked" >>,
    registrar |-> << "InsufficientFee", "NotFound", "NotRenewable", "AlreadyRegistered",
                     "Reserved", "Unauthorized", "Validation", "RegistrationClaimable",
                     "NotInitialized", "AlreadyInitialized", "RateLimitExceeded",
                     "UpgradeFailed", "QuoteExpired" >>,
    resolver  |-> << "Validation", "RecordNotFound", "Unauthorized", "TooManyTextRecords",
                     "NotInitialized", "TextRecordValueTooLong", "InvalidChain",
                     "InvalidKey", "BatchTooLarge", "UpgradeFailed" >>,
    subdomain |-> << "Validation", "ParentNotFound", "AlreadyExists", "NotFound",
                     "Unauthorized", "UpgradeFailed", "DepthLimitExceeded" >>,
    auction   |-> << "Validation", "AlreadyExists", "NotFound", "Closed", "NotStarted",
                     "NotEnded", "AlreadySettled", "InvalidBid", "UpgradeFailed",
                     "ReentrancyDetected" >>,
    bridge    |-> << "Validation", "UnsupportedChain", "UpgradeFailed", "Unauthorized",
                     "NotFound", "AlreadyExists" >>,
    nft       |-> << "AlreadyMinted", "NotFound", "Unauthorized", "UpgradeFailed",
                     "NotInitialized" >>]

Other == << "any", "Other" >>

ContractErrorCode ==
    ({"any"} \X {"NameNotFound", "NotOwner", "Expired", "InvalidLabel", "Other"})
    \cup UNION {{<< c, decode_table[c][i] >> : i \in DOMAIN decode_table[c]} : c \in Contracts}

decode_error(contract, code) ==
    IF contract \in Contracts /\ code \in DOMAIN decode_table[contract]
    THEN << contract, decode_table[contract][code] >>
    ELSE Other

\* The lookup without the contract, kept for older callers.
decode_error_generic(code) ==
    IF code \in 1 .. 4
    THEN << "any", << "NameNotFound", "NotOwner", "Expired", "InvalidLabel" >>[code] >>
    ELSE Other

-----------------------------------------------------------------------------
(* The CLI: contract_error, by decoded error.                              *)

generic_advice == [NameNotFound |-> "not found", NotOwner |-> "other owner",
    Expired |-> "expired", InvalidLabel |-> "invalid label", Other |-> "unknown"]
registry_advice == [AlreadyRegistered |-> "already registered", NotFound |-> "not found",
    NotYetClaimable |-> "in grace period", NotActive |-> "not active",
    Unauthorized |-> "unauthorized", MetadataTooLong |-> "metadata too long",
    Validation |-> "invalid input", InvalidExpiry |-> "invalid expiry",
    InvalidGracePeriod |-> "invalid grace period", UpgradeFailed |-> "upgrade failed",
    Locked |-> "locked"]
registrar_advice == [InsufficientFee |-> "higher fee needed", NotFound |-> "not registered",
    NotRenewable |-> "not renewable", AlreadyRegistered |-> "already registered",
    Reserved |-> "reserved", Unauthorized |-> "unauthorized", Validation |-> "invalid input",
    RegistrationClaimable |-> "claimable", NotInitialized |-> "not initialized",
    AlreadyInitialized |-> "already initialized", RateLimitExceeded |-> "rate limit",
    UpgradeFailed |-> "upgrade failed", QuoteExpired |-> "quote expired"]
resolver_advice == [Validation |-> "invalid input", RecordNotFound |-> "no record",
    Unauthorized |-> "unauthorized", TooManyTextRecords |-> "too many records",
    NotInitialized |-> "not initialized", TextRecordValueTooLong |-> "value too long",
    InvalidChain |-> "unsupported chain", InvalidKey |-> "invalid key",
    BatchTooLarge |-> "batch too large", UpgradeFailed |-> "upgrade failed"]
subdomain_advice == [Validation |-> "invalid input", ParentNotFound |-> "no parent",
    AlreadyExists |-> "already exists", NotFound |-> "not found",
    Unauthorized |-> "unauthorized", UpgradeFailed |-> "upgrade failed",
    DepthLimitExceeded |-> "too deep"]
auction_advice == [Validation |-> "invalid input", AlreadyExists |-> "already auctioned",
    NotFound |-> "no auction", Closed |-> "closed", NotStarted |-> "not started",
    NotEnded |-> "not ended", AlreadySettled |-> "already settled",
    InvalidBid |-> "bid too low", UpgradeFailed |-> "upgrade failed",
    ReentrancyDetected |-> "reentrancy"]
bridge_advice == [Validation |-> "invalid input", UnsupportedChain |-> "unsupported chain",
    UpgradeFailed |-> "upgrade failed", Unauthorized |-> "unauthorized",
    NotFound |-> "not found", AlreadyExists |-> "already exists"]
nft_advice == [AlreadyMinted |-> "already minted", NotFound |-> "not found",
    Unauthorized |-> "unauthorized", UpgradeFailed |-> "upgrade failed",
    NotInitialized |-> "not initialized"]

contract_error(error) ==
    [any |-> generic_advice, registry |-> registry_advice, registrar |-> registrar_advice,
     resolver |-> resolver_advice, subdomain |-> subdomain_advice,
     auction |-> auction_advice, bridge |-> bridge_advice, nft |-> nft_advice]
        [error[1]][error[2]]

-----------------------------------------------------------------------------
(* The CLI: contract_error_for_domain, by number.                          *)

registrar_codes == << "higher fee needed", "not registered", "not renewable",
    "already registered", "reserved", "unauthorized", "invalid input", "claimable",
    "not initialized", "already initialized", "rate limit", "upgrade failed",
    "quote expired" >>
registry_codes == << "already registered", "not found", "in grace period", "not active",
    "unauthorized", "metadata too long", "invalid input", "invalid expiry",
    "invalid grace period", "upgrade failed", "locked" >>
resolver_codes == << "invalid input", "no record", "unauthorized", "too many records",
    "not initialized", "value too long", "unsupported chain", "invalid key",
    "batch too large", "upgrade failed" >>
subdomain_codes == << "invalid input", "no parent", "already exists", "not found",
    "unauthorized", "upgrade failed", "too deep" >>
bridge_codes == << "invalid input", "unsupported chain", "upgrade failed", "unauthorized",
    "not found", "already exists" >>

auction_codes == << "invalid input", "already auctioned", "no auction", "closed",
    "not started", "not ended", "already settled", "bid too low", "upgrade failed",
    "reentrancy" >>
nft_codes == << "already minted", "not found", "unauthorized", "upgrade failed",
    "not initialized" >>

\* unknown_contract_error: no code of this domain, or no domain at all.
unknown_contract_error == "unknown"

contract_error_for_domain(domain, code) ==
    LET codes == [registrar |-> registrar_codes, registry |-> registry_codes,
                  resolver |-> resolver_codes, subdomain |-> subdomain_codes,
                  bridge |-> bridge_codes, auction |-> auction_codes, nft |-> nft_codes]
    IN  IF domain \in Contracts /\ code \in DOMAIN codes[domain]
        THEN codes[domain][code]
        ELSE unknown_contract_error

-----------------------------------------------------------------------------
(* Error texts: a text is the phrase classify_text looks for and the       *)
(* number that follows "contract error", if it has one.                    *)

Text(phrase) == << phrase, 0 >>

\* Phrases that are reported as they stand.
PlainPhrases == {"flag not allowed", "contract required", "not configured", "bad file",
                 "degraded", "no primary name", "insufficient"}

\* Phrases that stand for a number are looked up in the domain of the command,
\* with the number the registrar gives them.
classify_text(text, domain) ==
    CASE text[1] \in PlainPhrases      -> text[1]
      [] text[1] = "contract error"     -> contract_error_for_domain(domain, text[2])
      [] text[1] = "already registered" -> contract_error_for_domain(domain, 4)
      [] text[1] \in {"not registered", "not found"} -> contract_error_for_domain(domain, 2)
      [] text[1] = "expired"            -> contract_error_for_domain(domain, 3)
      [] OTHER                          -> "none"

or_else(advice, otherwise) == IF advice = "none" THEN otherwise ELSE advice

\* An error of the SDK: its kind, and the text or contract error it carries.
\* The other kinds have one advice each; transport_error and the wording of
\* the kinds are left out.
classify_sdk_error(kind, detail, domain) ==
    CASE kind = "InvalidRequest"           -> or_else(classify_text(detail, domain), "invalid request")
      [] kind = "ContractError"            -> contract_error(detail)
      [] kind = "ContractInvocationFailed" -> or_else(classify_text(detail, domain), "operation failed")
      [] kind = "SimulationFailed"         -> or_else(classify_text(detail, domain), "simulation failed")
      [] OTHER                             -> kind

\* An error with no SdkError in its chain is classified by its text.
classify_error(kind, detail, domain) ==
    IF kind = "Text" THEN or_else(classify_text(detail, domain), "unexpected")
    ELSE classify_sdk_error(kind, detail, domain)

=============================================================================
