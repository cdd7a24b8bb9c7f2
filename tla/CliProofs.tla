----------------------------- MODULE CliProofs -------------------------------
(***************************************************************************)
(* Proofs about the command line client and, with it, about the programs   *)
(* put together in MCStandalone: what its runs check of the client, the    *)
(* command line and the ingestion holds for every number of retries, every *)
(* file of records and every instance of the other parts.                  *)
(***************************************************************************)
EXTENDS MCStandalone, ProgramProofs

-----------------------------------------------------------------------------
(* What the handlers are made of.                                          *)

\* Methods that only look something up and do not ask for the network first.
Lookups ==
    {"get_registration", "quote_registration", "get_auction", "get_route", "get_registry_metadata",
     "list_registrations_by_owner_page", "get_nft_record", "resolve", "reverse_resolve"}

\* The contract a method looks for, besides the registry.
Needed(m) ==
    CASE m \in {"quote_registration", "register", "renew"} -> {"registrar"}
      [] m \in {"register_parent", "add_controller", "create_subdomain", "transfer_subdomain"} -> {"subdomain"}
      [] m = "register_chain" -> {"bridge"}
      [] OTHER -> {}

\* The contracts whose ids a handler of the group hands on to its client, and
\* which its policy requires.
Own(g) ==
    CASE g \in {"register", "renew", "quote", "bulk"} -> {"registrar"}
      [] g \in {"subdomain", "bridge"} -> {g}
      [] OTHER -> {}

LooksFor(list, needed) ==
    \A i \in 1 .. Len(list) : list[i][1] \in {"id", "set"} => list[i][2] \in needed \cup {"registry"}

OnlyLooks(list) == \A i \in 1 .. Len(list) : list[i] \notin {Submit, Network}

CliMethods ==
    Lookups \cup
    {"register", "renew", "transfer", "get_text_record", "set_text_record",
     "create_auction", "bid_auction", "settle_auction", "register_chain", "build_message",
     "register_parent", "add_controller", "create_subdomain", "transfer_subdomain"}

LEMMA MethodsLookFor == \A m \in CliMethods : m \in Methods /\ LooksFor(Steps[m], Needed(m))
<1> USE DEF LooksFor, Args, Id, IsSet, Url, Chain, Lookup, Known, Submit, Network, Hydrate, Query
<1>1. /\ LooksFor(resolve, {}) /\ LooksFor(get_registration, {}) /\ LooksFor(get_registry_metadata, {})
      /\ LooksFor(list_registrations_by_owner_page, {}) /\ LooksFor(reverse_resolve, {}) /\ LooksFor(get_text_record, {})
  BY DEF resolve, get_registration, get_registry_metadata, list_registrations_by_owner_page, reverse_resolve, get_text_record
<1>2. /\ LooksFor(get_nft_record, {}) /\ LooksFor(get_auction, {}) /\ LooksFor(get_route, {}) /\ LooksFor(build_message, {})
  BY DEF get_nft_record, get_auction, get_route, rpc_context, build_message
<1>3. LooksFor(quote_registration, {"registrar"}) /\ LooksFor(renew, {"registrar"})
  BY DEF quote_registration, renew
<1>4. LooksFor(register, {"registrar"})
  BY DEF register, quote_registration
<1>5. LooksFor(set_text_record, {}) /\ LooksFor(transfer, {})
  BY DEF set_text_record, transfer
<1>6. LooksFor(register_parent, {"subdomain"}) /\ LooksFor(add_controller, {"subdomain"})
  BY DEF register_parent, add_controller, simulate_and_submit
<1>7. LooksFor(create_subdomain, {"subdomain"}) /\ LooksFor(transfer_subdomain, {"subdomain"})
  BY DEF create_subdomain, transfer_subdomain, simulate_and_submit
<1>8. LooksFor(register_chain, {"bridge"}) /\ LooksFor(create_auction, {})
  BY DEF register_chain, create_auction, rpc_context
<1>9. LooksFor(bid_auction, {}) /\ LooksFor(settle_auction, {})
  BY DEF bid_auction, settle_auction, rpc_context
<1> HIDE DEF LooksFor
<1> QED
  BY <1>1, <1>2, <1>3, <1>4, <1>5, <1>6, <1>7, <1>8, <1>9 DEF CliMethods, Lookups, Needed, Methods, Steps

LEMMA LookupsOnlyLook == \A m \in Lookups : OnlyLooks(Steps[m])
<1> USE DEF OnlyLooks, Args, Id, IsSet, Url, Chain, Lookup, Known, Submit, Network, Hydrate, Query
<1>1. /\ OnlyLooks(get_registration) /\ OnlyLooks(get_registry_metadata)
      /\ OnlyLooks(list_registrations_by_owner_page) /\ OnlyLooks(get_nft_record)
  BY DEF resolve, get_registration, get_registry_metadata, list_registrations_by_owner_page, get_nft_record
<1>2. /\ OnlyLooks(get_auction) /\ OnlyLooks(get_route) /\ OnlyLooks(quote_registration)
      /\ OnlyLooks(resolve) /\ OnlyLooks(reverse_resolve)
  BY DEF get_auction, get_route, rpc_context, quote_registration, resolve, reverse_resolve
<1> HIDE DEF OnlyLooks
<1> QED
  BY <1>1, <1>2 DEF Lookups, Steps

\* Kinds of steps that call the SDK; those that end the run when the call fails.
Calls  == {"do", "wrapped", "try", "probe", "each"}
Strict == {"do", "wrapped"}

\* A step that fits into a handler of the group.
FitsStep(g, step) ==
    /\ step[1] \in {"need", "expect"} => step[2] \in required(g)
    /\ step[1] \in {"found", "absent"} =>
          \/ step[2] \in {"already registered", "not registered"} /\ error_domain(g) = "registrar"
          \/ step[2] \in {"no auction", "no route", "not found", "no primary name"}
    /\ step[1] \in Calls => step[2] \in CliMethods /\ Needed(step[2]) \subseteq Own(g)
    /\ step[1] = "wrapped" => step[2] \in Lookups

\* A step that writes nothing.
Harmless(step) == step[1] \in Calls => step[2] \in Lookups

\* A list of steps that fits: after a call that may write there are only calls
\* whose errors do not end the run.
Fits(g, list) ==
    /\ list \in Seq({list[i] : i \in 1 .. Len(list)})
    /\ \A i \in 1 .. Len(list) : FitsStep(g, list[i])
    /\ \A i, j \in 1 .. Len(list) :
          i < j /\ ~Harmless(list[i]) => list[j][1] \in {"try", "each"}

HasEach(list) == \E i \in 1 .. Len(list) : list[i][1] = "each"

LEMMA StepsFit ==
    /\ \A g : /\ FitsStep(g, Inputs) /\ FitsStep(g, Confirm) /\ FitsStep(g, Local) /\ FitsStep(g, Checks)
              /\ FitsStep(g, DryStops) /\ FitsStep(g, Unimplemented)
              /\ FitsStep(g, IfAbsent("no auction")) /\ FitsStep(g, IfAbsent("no route"))
              /\ FitsStep(g, IfAbsent("not found")) /\ FitsStep(g, IfAbsent("no primary name"))
    /\ \A g, m : m \in CliMethods /\ Needed(m) \subseteq Own(g) => FitsStep(g, Do(m)) /\ FitsStep(g, Try(m)) /\ FitsStep(g, Each(m))
    /\ \A g, m : m \in Lookups /\ Needed(m) \subseteq Own(g) => FitsStep(g, Wrapped(m)) /\ FitsStep(g, Probe(m))
    /\ \A g, c : c \in required(g) => FitsStep(g, Need(c)) /\ FitsStep(g, Expect(c))
    /\ \A g, why : why \in {"already registered", "not registered"} /\ error_domain(g) = "registrar"
          => FitsStep(g, IfFound(why)) /\ FitsStep(g, IfAbsent(why))
<1> USE DEF FitsStep, Calls
<1>1. \A g : /\ FitsStep(g, Inputs) /\ FitsStep(g, Confirm) /\ FitsStep(g, Local) /\ FitsStep(g, Checks)
             /\ FitsStep(g, DryStops) /\ FitsStep(g, Unimplemented)
  BY DEF Inputs, Confirm, Local, Checks, DryStops, Unimplemented
<1>2. \A g : /\ FitsStep(g, IfAbsent("no auction")) /\ FitsStep(g, IfAbsent("no route"))
             /\ FitsStep(g, IfAbsent("not found")) /\ FitsStep(g, IfAbsent("no primary name"))
  BY DEF IfAbsent
<1>3. \A g, m : m \in CliMethods /\ Needed(m) \subseteq Own(g) => FitsStep(g, Do(m)) /\ FitsStep(g, Try(m)) /\ FitsStep(g, Each(m))
  BY DEF Do, Try, Each
<1>4. \A g, m : m \in Lookups /\ Needed(m) \subseteq Own(g) => FitsStep(g, Wrapped(m)) /\ FitsStep(g, Probe(m))
  BY DEF Wrapped, Probe, CliMethods
<1>5. \A g, c : c \in required(g) => FitsStep(g, Need(c)) /\ FitsStep(g, Expect(c))
  BY DEF Need, Expect
<1>6. \A g, why : why \in {"already registered", "not registered"} /\ error_domain(g) = "registrar"
         => FitsStep(g, IfFound(why)) /\ FitsStep(g, IfAbsent(why))
  BY DEF IfFound, IfAbsent
<1> HIDE DEF FitsStep
<1> QED
  BY <1>1, <1>2, <1>3, <1>4, <1>5, <1>6

\* What the groups' policies and error contexts are for their steps.
LEMMA GroupsFit ==
    /\ \A m \in CliMethods \ {"quote_registration", "register", "renew", "register_parent", "add_controller",
                           "create_subdomain", "transfer_subdomain", "register_chain"} :
          \A g : Needed(m) \subseteq Own(g)
    /\ \A g \in {"register", "renew", "quote", "bulk"} :
          /\ \A m \in {"quote_registration", "register", "renew"} : Needed(m) \subseteq Own(g)
          /\ "registrar" \in required(g) /\ error_domain(g) = "registrar"
    /\ \A m \in {"register_parent", "add_controller", "create_subdomain", "transfer_subdomain"} :
          Needed(m) \subseteq Own("subdomain")
    /\ Needed("register_chain") \subseteq Own("bridge")
    /\ "nft" \in required("nft")
  BY DEF Needed, Own, required, error_domain

LEMMA StepsHarmless ==
    /\ Harmless(Inputs) /\ Harmless(Confirm) /\ Harmless(Local) /\ Harmless(Checks) /\ Harmless(DryStops)
    /\ \A c : Harmless(Need(c)) /\ Harmless(Expect(c)) /\ Harmless(IfFound(c)) /\ Harmless(IfAbsent(c))
    /\ \A m \in Lookups : Harmless(Do(m)) /\ Harmless(Wrapped(m))
  BY DEF Harmless, Calls, Inputs, Confirm, Local, Checks, DryStops, Need, Expect, IfFound, IfAbsent, Do, Wrapped

\* Lists of the lengths the handlers have.
LEMMA ListsFit ==
    ASSUME NEW g, NEW a, NEW b, NEW c, NEW d, NEW e, NEW f, NEW h,
           FitsStep(g, a)
    PROVE  /\ Fits(g, << a >>)
           /\ FitsStep(g, b) /\ (Harmless(a) \/ b[1] = "try") => Fits(g, << a, b >>)
           /\ FitsStep(g, b) /\ FitsStep(g, c) /\ Harmless(a) /\ Harmless(b) => Fits(g, << a, b, c >>)
           /\ FitsStep(g, b) /\ FitsStep(g, c) /\ FitsStep(g, d) /\ Harmless(a) /\ Harmless(b) /\ Harmless(c)
                 => Fits(g, << a, b, c, d >>)
           /\ FitsStep(g, b) /\ FitsStep(g, c) /\ FitsStep(g, d) /\ FitsStep(g, e) /\ FitsStep(g, f) /\ FitsStep(g, h) /\
              Harmless(a) /\ Harmless(b) /\ Harmless(c) /\ Harmless(d) /\ Harmless(e) /\ Harmless(f)
                 => Fits(g, << a, b, c, d, e, f, h >>)
<1>1. Fits(g, << a >>)
  BY DEF Fits
<1>2. FitsStep(g, b) /\ (Harmless(a) \/ b[1] = "try") => Fits(g, << a, b >>)
  BY DEF Fits
<1>3. FitsStep(g, b) /\ FitsStep(g, c) /\ Harmless(a) /\ Harmless(b) => Fits(g, << a, b, c >>)
  BY DEF Fits
<1>4. FitsStep(g, b) /\ FitsStep(g, c) /\ FitsStep(g, d) /\ Harmless(a) /\ Harmless(b) /\ Harmless(c)
         => Fits(g, << a, b, c, d >>)
  BY DEF Fits
<1>5. FitsStep(g, b) /\ FitsStep(g, c) /\ FitsStep(g, d) /\ FitsStep(g, e) /\ FitsStep(g, f) /\ FitsStep(g, h) /\
      Harmless(a) /\ Harmless(b) /\ Harmless(c) /\ Harmless(d) /\ Harmless(e) /\ Harmless(f)
         => Fits(g, << a, b, c, d, e, f, h >>)
  <2> SUFFICES ASSUME FitsStep(g, b), FitsStep(g, c), FitsStep(g, d), FitsStep(g, e), FitsStep(g, f), FitsStep(g, h),
                      Harmless(a), Harmless(b), Harmless(c), Harmless(d), Harmless(e), Harmless(f)
               PROVE  Fits(g, << a, b, c, d, e, f, h >>)
    OBVIOUS
  <2> DEFINE list == << a, b, c, d, e, f, h >>
  <2>1. list \in Seq({list[i] : i \in 1 .. Len(list)}) /\ Len(list) = 7
    OBVIOUS
  <2>2. \A i \in 1 .. 7 : FitsStep(g, list[i])
    OBVIOUS
  <2>3. \A i \in 1 .. 6 : Harmless(list[i])
    OBVIOUS
  <2> HIDE DEF list
  <2>4. \A i, j \in 1 .. 7 : i < j => i \in 1 .. 6
    OBVIOUS
  <2>5. Fits(g, list)
    BY <2>1, <2>2, <2>3, <2>4 DEF Fits
  <2> QED
    BY <2>5 DEF list
<1> QED
  BY <1>1, <1>2, <1>3, <1>4, <1>5

LEMMA BulkHasEach == HasEach(run_bulk_register) /\ HasEach(run_bulk_renew)
<1>1. /\ Len(run_bulk_register) = 4 /\ run_bulk_register[4][1] = "each"
      /\ Len(run_bulk_renew) = 4 /\ run_bulk_renew[4][1] = "each"
  BY DEF run_bulk_register, run_bulk_renew, Each
<1>2. 4 \in 1 .. 4
  OBVIOUS
<1> QED
  BY <1>1, <1>2 DEF HasEach

LEMMA HandlersFit ==
    ASSUME NEW cmd \in Commands
    PROVE  /\ cmd[1] \in DOMAIN Handlers
           /\ Fits(cmd[1], Handler(cmd))
           /\ cmd[1] = "bulk" => HasEach(Handler(cmd))
<1> USE StepsFit, GroupsFit, StepsHarmless, ListsFit DEF CliMethods, Lookups
<1>1. Fits("register", run_register(FALSE))
  BY DEF run_register
<1>2. Fits("register", run_register(TRUE))
  BY DEF run_register
<1>3a. Fits("renew", run_renew) /\ Fits("resolve", run_resolve) /\ Fits("reverse", run_reverse)
  BY DEF run_renew, run_resolve, run_reverse
<1>3b. Try("get_registration")[1] = "try"
  BY DEF Try
<1>3c. Fits("transfer", run_transfer)
  BY <1>3b DEF run_transfer
<1>4. Fits("text", run_text_get) /\ Fits("text", run_text_set)
  BY DEF run_text_get, run_text_set
<1>5. /\ Fits("auction", run_auction_create) /\ Fits("auction", run_auction_bid) /\ Fits("auction", run_auction_inspect)
      /\ Fits("auction", run_auction_settle) /\ Fits("auction", << Unimplemented >>)
  BY DEF run_auction_create, run_auction_bid, run_auction_inspect, run_auction_settle
<1>6. /\ Fits("bridge", run_register_chain) /\ Fits("bridge", run_inspect_route) /\ Fits("bridge", run_generate_payload)
      /\ Fits("bridge", << Unimplemented >>)
  BY DEF run_register_chain, run_inspect_route, run_generate_payload
<1>7. /\ Fits("subdomain", run_register_parent) /\ Fits("subdomain", run_add_controller)
      /\ Fits("subdomain", run_create_subdomain) /\ Fits("subdomain", run_transfer_subdomain)
  BY DEF run_register_parent, run_add_controller, run_create_subdomain, run_transfer_subdomain
<1>8. /\ Fits("nft", run_nft_inspect) /\ Fits("whois", run_whois) /\ Fits("quote", run_quote)
      /\ Fits("availability", run_availability) /\ Fits("healthcheck", run_healthcheck)
  BY DEF run_nft_inspect, run_whois, run_quote, run_availability, run_healthcheck
<1>9. Fits("portfolio", run_portfolio(FALSE)) /\ Fits("portfolio", run_portfolio(TRUE))
  BY DEF run_portfolio
<1>10. Fits("bulk", run_bulk_register) /\ Fits("bulk", run_bulk_renew)
  BY DEF run_bulk_register, run_bulk_renew
<1>11. Fits("watch", run_watch) /\ Fits("watch", run_watch_check)
  BY DEF run_watch, run_watch_check
<1>12. /\ Fits("config", run_config_init) /\ Fits("config", run_config_edit)
       /\ Fits("config", run_config_validate) /\ Fits("config", run_config_show)
  BY DEF run_config_init, run_config_edit, run_config_validate, run_config_show
<1>13. /\ Fits("migrate", run_migrate_transform) /\ Fits("migrate", run_migrate_verify) /\ Fits("migrate", run_migrate_rollback)
       /\ Fits("migrate", run_migrate_export) /\ Fits("migrate", run_migrate_import)
       /\ Fits("completions", run_completion_command)
  BY DEF run_migrate_transform, run_migrate_verify, run_migrate_rollback, run_migrate_export, run_migrate_import,
         run_completion_command
<1> HIDE StepsFit, GroupsFit, StepsHarmless, ListsFit
<1> HIDE DEF CliMethods, Lookups
<1>14. PICK g \in DOMAIN Handlers : \E s \in DOMAIN Handlers[g] : cmd = << g, s >>
  BY DEF Commands
<1>15. PICK s \in DOMAIN Handlers[g] : cmd = << g, s >>
  BY <1>14
<1> DEFINE h == Handlers[g][s]
<1> SUFFICES Fits(g, h) /\ (g = "bulk" => HasEach(h))
  BY <1>15 DEF Handler
<1>16. CASE g = "register"
  <2>1. h = run_register(FALSE) \/ h = run_register(TRUE)
    <3>1. Handlers["register"] = [plain |-> run_register(FALSE), interactive |-> run_register(TRUE)]
      BY DEF Handlers
    <3>2. s \in {"plain", "interactive"}
      BY <1>16, <3>1
    <3>3. Handlers["register"]["plain"] = run_register(FALSE) /\ Handlers["register"]["interactive"] = run_register(TRUE)
      BY <3>1
    <3> QED
      BY <1>16, <3>2, <3>3
  <2> HIDE DEF h
  <2> QED
    BY <1>16, <2>1, <1>1, <1>2
<1>17. CASE g = "renew"
  <2>1. h = run_renew
    BY <1>17 DEF Handlers
  <2> HIDE DEF h
  <2> QED
    BY <1>17, <2>1, <1>3a
<1>18. CASE g = "transfer"
  <2>1. h = run_transfer
    BY <1>18 DEF Handlers
  <2> HIDE DEF h
  <2> QED
    BY <1>18, <2>1, <1>3c
<1>19. CASE g = "resolve"
  <2>1. h = run_resolve
    BY <1>19 DEF Handlers
  <2> HIDE DEF h
  <2> QED
    BY <1>19, <2>1, <1>3a
<1>20. CASE g = "reverse"
  <2>1. h = run_reverse
    BY <1>20 DEF Handlers
  <2> HIDE DEF h
  <2> QED
    BY <1>20, <2>1, <1>3a
<1>21. CASE g = "text"
  <2>1. h = run_text_get \/ h = run_text_set
    BY <1>21 DEF Handlers
  <2> HIDE DEF h
  <2> QED
    BY <1>21, <2>1, <1>4
<1>22. CASE g = "auction"
  <2>1. h = run_auction_create \/ h = run_auction_bid \/ h = run_auction_inspect \/ h = run_auction_settle \/ h = << Unimplemented >>
    BY <1>22 DEF Handlers
  <2> HIDE DEF h
  <2> QED
    BY <1>22, <2>1, <1>5
<1>23. CASE g = "bridge"
  <2>1. h = run_register_chain \/ h = run_inspect_route \/ h = run_generate_payload \/ h = << Unimplemented >>
    BY <1>23 DEF Handlers
  <2> HIDE DEF h
  <2> QED
    BY <1>23, <2>1, <1>6
<1>24. CASE g = "subdomain"
  <2>1. h = run_register_parent \/ h = run_add_controller \/ h = run_create_subdomain \/ h = run_transfer_subdomain
    BY <1>24 DEF Handlers
  <2> HIDE DEF h
  <2> QED
    BY <1>24, <2>1, <1>7
<1>25. CASE g = "nft"
  <2>1. h = run_nft_inspect
    BY <1>25 DEF Handlers
  <2> HIDE DEF h
  <2> QED
    BY <1>25, <2>1, <1>8
<1>26. CASE g = "whois"
  <2>1. h = run_whois
    BY <1>26 DEF Handlers
  <2> HIDE DEF h
  <2> QED
    BY <1>26, <2>1, <1>8
<1>27. CASE g = "portfolio"
  <2>1. h = run_portfolio(FALSE) \/ h = run_portfolio(TRUE)
    <3>1. Handlers["portfolio"] = [human |-> run_portfolio(FALSE), export |-> run_portfolio(TRUE)]
      BY DEF Handlers
    <3>2. s \in {"human", "export"}
      BY <1>27, <3>1
    <3>3. Handlers["portfolio"]["human"] = run_portfolio(FALSE) /\ Handlers["portfolio"]["export"] = run_portfolio(TRUE)
      BY <3>1
    <3> QED
      BY <1>27, <3>2, <3>3
  <2> HIDE DEF h
  <2> QED
    BY <1>27, <2>1, <1>9
<1>28. CASE g = "quote"
  <2>1. h = run_quote
    BY <1>28 DEF Handlers
  <2> HIDE DEF h
  <2> QED
    BY <1>28, <2>1, <1>8
<1>29. CASE g = "availability"
  <2>1. h = run_availability
    BY <1>29 DEF Handlers
  <2> HIDE DEF h
  <2> QED
    BY <1>29, <2>1, <1>8
<1>30. CASE g = "healthcheck"
  <2>1. h = run_healthcheck
    BY <1>30 DEF Handlers
  <2> HIDE DEF h
  <2> QED
    BY <1>30, <2>1, <1>8
<1>31. CASE g = "bulk"
  <2>1. h = run_bulk_register \/ h = run_bulk_renew
    BY <1>31 DEF Handlers
  <2> HIDE DEF h
  <2> QED
    BY <1>31, <2>1, <1>10, BulkHasEach
<1>32. CASE g = "watch"
  <2>1. h = run_watch \/ h = run_watch_check
    BY <1>32 DEF Handlers
  <2> HIDE DEF h
  <2> QED
    BY <1>32, <2>1, <1>11
<1>33. CASE g = "config"
  <2>1. h = run_config_init \/ h = run_config_edit \/ h = run_config_validate \/ h = run_config_show
    BY <1>33 DEF Handlers
  <2> HIDE DEF h
  <2> QED
    BY <1>33, <2>1, <1>12
<1>34. CASE g = "migrate"
  <2>1. h = run_migrate_transform \/ h = run_migrate_verify \/ h = run_migrate_rollback \/ h = run_migrate_export \/ h = run_migrate_import
    BY <1>34 DEF Handlers
  <2> HIDE DEF h
  <2> QED
    BY <1>34, <2>1, <1>13
<1>35. CASE g = "completions"
  <2>1. h = run_completion_command
    BY <1>35 DEF Handlers
  <2> HIDE DEF h
  <2> QED
    BY <1>35, <2>1, <1>13
<1>36. g \in {"register", "renew", "transfer", "resolve", "reverse", "text", "auction", "bridge", "subdomain", "nft", "whois", "portfolio", "quote", "availability", "healthcheck", "bulk", "watch", "config", "migrate", "completions"}
  BY DEF Handlers
<1> QED
  BY <1>16, <1>17, <1>18, <1>19, <1>20, <1>21, <1>22, <1>23, <1>24, <1>25, <1>26, <1>27, <1>28, <1>29, <1>30, <1>31, <1>32, <1>33, <1>34, <1>35, <1>36

-----------------------------------------------------------------------------
(* How a call of the SDK ends.                                             *)

\* The call goes on: its step is tried again, or is done.
Goes ==
    /\ call.todo # << >> /\ returned' = returned
    /\ \/ call' = call
       \/ \E status :
             /\ call' = [call EXCEPT !.todo = Tail(@), !.status = status]
             /\ \/ status = call.status
                \/ Step = Submit /\ status \in {"Simulated", "Submitted"}
                \/ Step = Hydrate /\ status \in {"Confirmed", "Failed"}

Tells(kind, detail, about) == returned' = [kind |-> kind, detail |-> detail, about |-> about]

Complaints == {"invalid", "no client", "empty", "unsupported chain"}

\* The call is over: with an answer, or at a step that no poll is with an error.
Ends ==
    /\ call' = Idle
    /\ \/ returned'.kind = "Ok"
       \/ /\ call.todo # << >> /\ Step # Hydrate
          /\ \/ \E c \in Contracts : /\ Step \in {Id(c), IsSet(c)} /\ client.ids[c] = "none"
                                     /\ Tells("InvalidRequest", Text("not configured"), c)
             \/ ~client.passphrase /\ Tells("InvalidRequest", Text("not configured"), "passphrase")
             \/ \E phrase \in Complaints : \E about : Tells("InvalidRequest", Text(phrase), about)
             \/ Tells("ContractError", << "any", "NameNotFound" >>, "-")
             \/ Step = Network /\ Tells("NetworkPassphraseMismatch", Text("none"), "-")

LEMMA StepVerdict ==
    ASSUME ClientStep, client \in Clients
    PROVE  Goes \/ Ends
<1>0. /\ \A c : Id(c) # Hydrate /\ IsSet(c) # Hydrate
      /\ Url # Hydrate /\ Args # Hydrate /\ Chain # Hydrate /\ Lookup # Hydrate /\ Known # Hydrate /\ Network # Hydrate
  BY DEF Id, IsSet, Url, Args, Chain, Lookup, Known, Network, Hydrate
<1>1. ASSUME NEW status, call.todo # << >>, Pass(status),
             \/ status = call.status
             \/ Step = Submit /\ status \in {"Simulated", "Submitted"}
             \/ Step = Hydrate /\ status \in {"Confirmed", "Failed"}
      PROVE  Goes
  BY <1>1 DEF Goes, Pass
<1>2. ASSUME NEW c \in Contracts, require_contract_id(c) \/ contract_id_error(c)
      PROVE  Goes \/ Ends
  <2>1. client.ids[c] \in {"ok", "none", "bad"}
    BY DEF Clients, IdStates
  <2>2. call.todo # << >> /\ Step \in {Id(c), IsSet(c)} /\ Step # Hydrate
    BY <1>0, <1>2 DEF require_contract_id, contract_id_error, At, Step
  <2>3. \/ Pass(call.status)
        \/ client.ids[c] = "none" /\ Refuse("not configured", c)
        \/ Refuse("invalid", c)
    BY <1>2, <2>1 DEF require_contract_id, contract_id_error
  <2>4. CASE Pass(call.status)
    BY <1>1, <2>2, <2>4
  <2>5. CASE client.ids[c] = "none" /\ Refuse("not configured", c)
    BY <2>2, <2>5 DEF Refuse, Return, Ends, Tells
  <2>6. CASE Refuse("invalid", c)
    BY <2>2, <2>6 DEF Refuse, Return, Ends, Tells, Complaints
  <2> QED
    BY <2>3, <2>4, <2>5, <2>6
<1>3. ASSUME rpc_client \/ require_label \/ CheckChain PROVE Goes \/ Ends
  <2>1. call.todo # << >> /\ Step # Hydrate
    BY <1>0, <1>3 DEF rpc_client, require_label, CheckChain, At, Step
  <2>2. Pass(call.status) \/ \E phrase \in Complaints : Refuse(phrase, "-")
    BY <1>3 DEF rpc_client, require_label, CheckChain, Complaints
  <2> QED
    BY <1>1, <2>1, <2>2 DEF Refuse, Return, Ends, Tells
<1>4. ASSUME LookUpName PROVE Goes \/ Ends
  <2>1. call.todo # << >> /\ Step # Hydrate
    BY <1>0, <1>4 DEF LookUpName, At, Step
  <2>2. \/ Pass(call.status)
        \/ Return("Ok", Text("absent"), "-")
        \/ Return("ContractError", << "any", "NameNotFound" >>, "-")
    BY <1>4 DEF LookUpName
  <2>3. CASE Pass(call.status)
    BY <1>1, <2>1, <2>3
  <2>4. CASE Return("Ok", Text("absent"), "-")
    BY <2>4 DEF Return, Ends
  <2>5. CASE Return("ContractError", << "any", "NameNotFound" >>, "-")
    BY <2>1, <2>5 DEF Return, Ends, Tells
  <2> QED
    BY <2>2, <2>3, <2>4, <2>5
<1>5. ASSUME make_submission PROVE Goes
  BY <1>1, <1>5 DEF make_submission, At, Step
<1>6. ASSUME Finish PROVE Ends
  BY <1>6 DEF Finish, Return, Ends
<1>7. ASSUME call.todo # << >>, Retry PROVE Goes
  BY <1>7 DEF Goes, Retry
<1>8. ASSUME verify_write_network PROVE Goes \/ Ends
  <2>1. call.todo # << >> /\ Step = Network /\ Step # Hydrate
    BY <1>0, <1>8 DEF verify_write_network, At, Step
  <2>2. \/ ~client.passphrase /\ Refuse("not configured", "passphrase")
        \/ Pass(call.status)
        \/ Heard("network", "same", call.status)
        \/ wrong_network
        \/ Retry
        \/ Heard("network", rpc.network, call.status)
    BY <1>8 DEF verify_write_network, Unheard
  <2>3. CASE ~client.passphrase /\ Refuse("not configured", "passphrase")
    BY <2>1, <2>3 DEF Refuse, Return, Ends, Tells
  <2>4. CASE wrong_network
    BY <2>1, <2>4 DEF wrong_network, Ends, Tells
  <2>5. CASE Pass(call.status)
    BY <1>1, <2>1, <2>5
  <2>6. CASE Heard("network", "same", call.status)
    <3>1. call' = [call EXCEPT !.todo = Tail(@), !.status = call.status] /\ returned' = returned
      BY <2>6 DEF Heard
    <3> QED
      BY <2>1, <3>1 DEF Goes
  <2>7. CASE Heard("network", rpc.network, call.status)
    <3>1. call' = [call EXCEPT !.todo = Tail(@), !.status = call.status] /\ returned' = returned
      BY <2>7 DEF Heard
    <3> QED
      BY <2>1, <3>1 DEF Goes
  <2> QED
    BY <1>7, <2>1, <2>2, <2>3, <2>4, <2>5, <2>6, <2>7
<1>9. ASSUME maybe_hydrate_submission PROVE Goes
  <2>1. call.todo # << >> /\ Step = Hydrate
    BY <1>9 DEF maybe_hydrate_submission, At, Step
  <2>2. \/ Pass(call.status)
        \/ \E answer \in {"SUCCESS", "FAILED"} : Heard("final", answer, hydrated(call.status, answer))
        \/ Heard("final", rpc.final, hydrated(call.status, "OTHER"))
        \/ Retry
        \/ Heard("network", rpc.network, call.status)
    BY <1>9 DEF maybe_hydrate_submission, Unheard
  <2>3. /\ hydrated(call.status, "OTHER") = call.status
        /\ \A answer \in {"SUCCESS", "FAILED"} : hydrated(call.status, answer) \in {"Confirmed", "Failed"}
    BY DEF hydrated
  <2>4. CASE Pass(call.status)
    BY <1>1, <2>1, <2>4
  <2>5. ASSUME NEW answer \in {"SUCCESS", "FAILED"}, Heard("final", answer, hydrated(call.status, answer)) PROVE Goes
    <3>1. call' = [call EXCEPT !.todo = Tail(@), !.status = hydrated(call.status, answer)] /\ returned' = returned
      BY <2>5 DEF Heard
    <3> QED
      BY <2>1, <2>3, <3>1 DEF Goes
  <2>6. CASE Heard("final", rpc.final, hydrated(call.status, "OTHER"))
    <3>1. call' = [call EXCEPT !.todo = Tail(@), !.status = hydrated(call.status, "OTHER")] /\ returned' = returned
      BY <2>6 DEF Heard
    <3> QED
      BY <2>1, <2>3, <3>1 DEF Goes
  <2>7. CASE Heard("network", rpc.network, call.status)
    <3>1. call' = [call EXCEPT !.todo = Tail(@), !.status = call.status] /\ returned' = returned
      BY <2>7 DEF Heard
    <3> QED
      BY <2>1, <3>1 DEF Goes
  <2> QED
    BY <1>7, <2>1, <2>2, <2>4, <2>5, <2>6, <2>7
<1> QED
  BY <1>2, <1>3, <1>4, <1>5, <1>6, <1>8, <1>9 DEF ClientStep

\* The steps left are steps of the method.
FromSteps ==
    call # Idle =>
        \A i \in 1 .. Len(call.todo) : \E k \in 1 .. Len(Steps[call.op]) : call.todo[i] = Steps[call.op][k]

\* What a call can return.
Result(r) ==
    /\ r.kind \in {"none", "Ok", "InvalidRequest", "ContractError", "NetworkPassphraseMismatch"}
    /\ r.kind = "none" => r = Nothing
    /\ r.kind = "InvalidRequest" =>
          \/ \E phrase \in Complaints : r.detail = Text(phrase)
          \/ r.detail = Text("not configured") /\ r.about \in Contracts \cup {"passphrase"}
    /\ r.kind = "ContractError" => r.detail = << "any", "NameNotFound" >>
    /\ r.kind = "NetworkPassphraseMismatch" => r.detail = Text("none")

CallInv == call.status \in Statuses /\ FromSteps /\ Result(returned)

ClientInv == NetworkInv /\ StatusInv /\ RequestsCounted /\ CallInv

LEMMA InvokeSound ==
    ASSUME ClientInv, NEW m \in Methods, NEW args, NEW dry, Invoke(m, args, dry)
    PROVE  ClientInv' /\ call' # Idle /\ call'.op = m /\ call'.todo = Steps[m] /\ client' = client /\ call'.status = "none"
<1>1. /\ call' = [op |-> m, args |-> args, dry |-> dry, todo |-> Steps[m], status |-> "none"]
      /\ rpc' = Silence /\ client' = client /\ returned' = Nothing
  BY DEF Invoke
<1>2. call'.op = m /\ call'.todo = Steps[m] /\ call'.status = "none" /\ call' # Idle
  BY <1>1, IdleShape
<1>3. NetworkInv'
  BY <1>1 DEF ClientInv, NetworkInv, Heardable, WrongNetworkEnds, Silence
<1>4. Result(Nothing)
  BY DEF Result, Nothing
<1>5. CallInv'
  BY <1>1, <1>2, <1>4 DEF CallInv, FromSteps, Statuses
<1> QED
  BY <1>1, <1>2, <1>3, <1>5, CallStarts, CallStartsCount DEF ClientInv

LEMMA ClientStepSound ==
    ASSUME ClientInv, ClientStep
    PROVE  ClientInv' /\ client' = client
<1>1. ClientStep /\ client \in Clients /\ call # Idle /\ client' = client
  BY StepEndings DEF ClientInv, NetworkInv
<1>2. NetworkInv' /\ StatusInv' /\ RequestsCounted'
  BY <1>1, ClientStepHears, ClientStepKeepsStatus, ClientStepCounts DEF ClientInv, NetworkInv, StatusInv
<1>3. CallShape /\ call.status \in Statuses /\ FromSteps /\ Result(returned)
  BY DEF ClientInv, StatusInv, CallInv
<1>4. CASE Ends
  <2>1. call'.status \in Statuses /\ FromSteps'
    BY <1>4 DEF Ends, FromSteps, Idle, Statuses
  <2>2. Result(returned')
    <3>1. CASE returned'.kind = "Ok"
      BY <3>1 DEF Result
    <3>2. CASE returned'.kind # "Ok"
      <4>1. ASSUME NEW c \in Contracts \cup {"passphrase"}, Tells("InvalidRequest", Text("not configured"), c)
            PROVE  Result(returned')
        BY <4>1 DEF Tells, Result
      <4>2. ASSUME NEW phrase \in Complaints, NEW about, Tells("InvalidRequest", Text(phrase), about)
            PROVE  Result(returned')
        BY <4>2 DEF Tells, Result
      <4>3. CASE Tells("ContractError", << "any", "NameNotFound" >>, "-")
        BY <4>3 DEF Tells, Result
      <4>4. CASE Tells("NetworkPassphraseMismatch", Text("none"), "-")
        BY <4>4 DEF Tells, Result
      <4> QED
        BY <1>4, <3>2, <4>1, <4>2, <4>3, <4>4 DEF Ends
    <3> QED
      BY <3>1, <3>2
  <2> QED
    BY <1>1, <1>2, <2>1, <2>2 DEF ClientInv, CallInv
<1>5. CASE Goes
  <2>1. CASE call' = call
    BY <1>1, <1>2, <1>3, <1>5, <2>1 DEF ClientInv, CallInv, FromSteps, Goes
  <2>2. CASE call' # call
    <3>1. PICK status \in Statuses :
              call' = [call EXCEPT !.todo = Tail(@), !.status = status]
      BY <1>3, <1>5, <2>2 DEF Goes, Statuses
    <3>2. call'.op = call.op /\ call'.todo = Tail(call.todo) /\ call'.status = status /\ call.todo # << >>
      BY <1>3, <1>5, <3>1 DEF CallShape, Goes
    <3>3. \A i \in 1 .. Len(Tail(call.todo)) : i + 1 \in 1 .. Len(call.todo) /\ Tail(call.todo)[i] = call.todo[i + 1]
      BY <1>3, <3>2, TailListed DEF CallShape, PollsLast
    <3>4. FromSteps'
      BY <1>1, <1>3, <3>2, <3>3 DEF FromSteps
    <3> QED
      BY <1>1, <1>2, <1>3, <1>5, <3>2, <3>4 DEF ClientInv, CallInv, Goes
  <2> QED
    BY <2>1, <2>2
<1> QED
  BY <1>1, <1>4, <1>5, StepVerdict

\* The client's part of the type invariant.
LEMMA ClientTypes == ClientInv => ClientTypeOK /\ RequestsBounded
<1> SUFFICES ASSUME ClientInv PROVE ClientTypeOK /\ RequestsBounded
  OBVIOUS
<1>1. client \in Clients /\ rpc \in Heardable /\ CallShape /\ RequestsCounted /\ call.status \in Statuses /\ Result(returned)
  BY DEF ClientInv, NetworkInv, StatusInv, CallInv
<1>2. call.op \in Methods \cup {"idle"}
  BY <1>1 DEF CallShape, Idle
<1>3. rpc.attempt \in 0 .. MaxRetries
  BY <1>1, RetryAssumption DEF RequestsCounted, Heardable
<1>4. << "any", "NameNotFound" >> \in ContractErrorCode
  BY DEF ContractErrorCode
<1>5. RequestsBounded
  BY <1>1, CountIsBounded
<1> QED
  BY <1>1, <1>2, <1>3, <1>4, <1>5 DEF ClientTypeOK, Heardable, Result

-----------------------------------------------------------------------------
(* Errors.                                                                 *)

\* The two tables of the command line for a contract agree, name by name.
TablesAgree(c, advice, codes) ==
    /\ DOMAIN decode_table[c] = DOMAIN codes
    /\ \A i \in DOMAIN codes : advice[decode_table[c][i]] = codes[i] /\ codes[i] # "none"
    /\ \A name : contract_error(<< c, name >>) = advice[name]
    /\ \A code : contract_error_for_domain(c, code) = IF code \in DOMAIN codes THEN codes[code] ELSE unknown_contract_error

\* Then both ways of a code to its advice meet.
LEMMA WaysMeet ==
    ASSUME NEW c \in Contracts, NEW advice, NEW codes, NEW code, TablesAgree(c, advice, codes)
    PROVE  classify_error("SimulationFailed", << "contract error", code >>, c)
              = classify_error("ContractError", decode_error(c, code), c)
<1> DEFINE text == << "contract error", code >>
<1>1. contract_error(Other) = "unknown"
  <2>1. contract_error(<< "any", "Other" >>) = generic_advice["Other"]
    BY DEF contract_error
  <2>2. generic_advice["Other"] = "unknown"
    BY DEF generic_advice
  <2> QED
    BY <2>1, <2>2 DEF Other
<1>2. contract_error(decode_error(c, code)) = contract_error_for_domain(c, code)
  BY <1>1 DEF decode_error, unknown_contract_error, TablesAgree
<1>3. contract_error_for_domain(c, code) # "none"
  BY DEF unknown_contract_error, TablesAgree
<1>4. text[1] = "contract error" /\ text[2] = code
  OBVIOUS
<1> HIDE DEF text
<1>5. classify_text(text, c) = contract_error_for_domain(c, code)
  BY <1>4 DEF classify_text, PlainPhrases
<1>6. classify_error("SimulationFailed", text, c) = contract_error_for_domain(c, code)
  BY <1>3, <1>5 DEF classify_error, classify_sdk_error, or_else
<1>7. classify_error("ContractError", decode_error(c, code), c) = contract_error(decode_error(c, code))
  BY DEF classify_error, classify_sdk_error
<1> QED
  BY <1>2, <1>6, <1>7 DEF text

LEMMA AdviceAgrees ==
    ASSUME NEW c \in Contracts, NEW code
    PROVE  /\ classify_error("SimulationFailed", << "contract error", code >>, c)
                 = classify_error("ContractError", decode_error(c, code), c)
           /\ Thrown[c] = decode_table[c]
<1>1. CASE c = "registry"
  <2>1. decode_table["registry"] = << "AlreadyRegistered", "NotFound", "NotYetClaimable", "NotActive", "Unauthorized", "MetadataTooLong", "Validation", "InvalidExpiry", "InvalidGracePeriod", "UpgradeFailed", "Locked" >>
    BY DEF decode_table
  <2>2. Thrown["registry"] = decode_table["registry"]
    BY <2>1 DEF Thrown, RegistryError
  <2>3. DOMAIN decode_table["registry"] = 1 .. 11 /\ DOMAIN registry_codes = 1 .. 11
    BY <2>1 DEF registry_codes
  <2>4. /\ registry_advice["AlreadyRegistered"] = registry_codes[1] /\ registry_codes[1] # "none"
        /\ registry_advice["NotFound"] = registry_codes[2] /\ registry_codes[2] # "none"
        /\ registry_advice["NotYetClaimable"] = registry_codes[3] /\ registry_codes[3] # "none"
        /\ registry_advice["NotActive"] = registry_codes[4] /\ registry_codes[4] # "none"
        /\ registry_advice["Unauthorized"] = registry_codes[5] /\ registry_codes[5] # "none"
        /\ registry_advice["MetadataTooLong"] = registry_codes[6] /\ registry_codes[6] # "none"
        /\ registry_advice["Validation"] = registry_codes[7] /\ registry_codes[7] # "none"
        /\ registry_advice["InvalidExpiry"] = registry_codes[8] /\ registry_codes[8] # "none"
        /\ registry_advice["InvalidGracePeriod"] = registry_codes[9] /\ registry_codes[9] # "none"
        /\ registry_advice["UpgradeFailed"] = registry_codes[10] /\ registry_codes[10] # "none"
        /\ registry_advice["Locked"] = registry_codes[11] /\ registry_codes[11] # "none"
    BY DEF registry_advice, registry_codes
  <2>5. \A i \in 1 .. 11 : registry_advice[decode_table["registry"][i]] = registry_codes[i] /\ registry_codes[i] # "none"
    BY <2>1, <2>4
  <2>6. \A name : contract_error(<< "registry", name >>) = registry_advice[name]
    BY DEF contract_error
  <2>7. \A n : contract_error_for_domain("registry", n) = IF n \in DOMAIN registry_codes THEN registry_codes[n] ELSE unknown_contract_error
    BY DEF contract_error_for_domain, Contracts
  <2>8. TablesAgree("registry", registry_advice, registry_codes)
    BY <2>3, <2>5, <2>6, <2>7 DEF TablesAgree
  <2> QED
    BY <1>1, <2>2, <2>8, WaysMeet
<1>2. CASE c = "registrar"
  <2>1. decode_table["registrar"] = << "InsufficientFee", "NotFound", "NotRenewable", "AlreadyRegistered", "Reserved", "Unauthorized", "Validation", "RegistrationClaimable", "NotInitialized", "AlreadyInitialized", "RateLimitExceeded", "UpgradeFailed", "QuoteExpired" >>
    BY DEF decode_table
  <2>2. Thrown["registrar"] = decode_table["registrar"]
    BY <2>1 DEF Thrown, RegistrarError
  <2>3. DOMAIN decode_table["registrar"] = 1 .. 13 /\ DOMAIN registrar_codes = 1 .. 13
    BY <2>1 DEF registrar_codes
  <2>4. /\ registrar_advice["InsufficientFee"] = registrar_codes[1] /\ registrar_codes[1] # "none"
        /\ registrar_advice["NotFound"] = registrar_codes[2] /\ registrar_codes[2] # "none"
        /\ registrar_advice["NotRenewable"] = registrar_codes[3] /\ registrar_codes[3] # "none"
        /\ registrar_advice["AlreadyRegistered"] = registrar_codes[4] /\ registrar_codes[4] # "none"
        /\ registrar_advice["Reserved"] = registrar_codes[5] /\ registrar_codes[5] # "none"
        /\ registrar_advice["Unauthorized"] = registrar_codes[6] /\ registrar_codes[6] # "none"
        /\ registrar_advice["Validation"] = registrar_codes[7] /\ registrar_codes[7] # "none"
        /\ registrar_advice["RegistrationClaimable"] = registrar_codes[8] /\ registrar_codes[8] # "none"
        /\ registrar_advice["NotInitialized"] = registrar_codes[9] /\ registrar_codes[9] # "none"
        /\ registrar_advice["AlreadyInitialized"] = registrar_codes[10] /\ registrar_codes[10] # "none"
        /\ registrar_advice["RateLimitExceeded"] = registrar_codes[11] /\ registrar_codes[11] # "none"
        /\ registrar_advice["UpgradeFailed"] = registrar_codes[12] /\ registrar_codes[12] # "none"
        /\ registrar_advice["QuoteExpired"] = registrar_codes[13] /\ registrar_codes[13] # "none"
    BY DEF registrar_advice, registrar_codes
  <2>5. \A i \in 1 .. 13 : registrar_advice[decode_table["registrar"][i]] = registrar_codes[i] /\ registrar_codes[i] # "none"
    BY <2>1, <2>4
  <2>6. \A name : contract_error(<< "registrar", name >>) = registrar_advice[name]
    BY DEF contract_error
  <2>7. \A n : contract_error_for_domain("registrar", n) = IF n \in DOMAIN registrar_codes THEN registrar_codes[n] ELSE unknown_contract_error
    BY DEF contract_error_for_domain, Contracts
  <2>8. TablesAgree("registrar", registrar_advice, registrar_codes)
    BY <2>3, <2>5, <2>6, <2>7 DEF TablesAgree
  <2> QED
    BY <1>2, <2>2, <2>8, WaysMeet
<1>3. CASE c = "resolver"
  <2>1. decode_table["resolver"] = << "Validation", "RecordNotFound", "Unauthorized", "TooManyTextRecords", "NotInitialized", "TextRecordValueTooLong", "InvalidChain", "InvalidKey", "BatchTooLarge", "UpgradeFailed" >>
    BY DEF decode_table
  <2>2. Thrown["resolver"] = decode_table["resolver"]
    BY <2>1 DEF Thrown, ResolverError
  <2>3. DOMAIN decode_table["resolver"] = 1 .. 10 /\ DOMAIN resolver_codes = 1 .. 10
    BY <2>1 DEF resolver_codes
  <2>4. /\ resolver_advice["Validation"] = resolver_codes[1] /\ resolver_codes[1] # "none"
        /\ resolver_advice["RecordNotFound"] = resolver_codes[2] /\ resolver_codes[2] # "none"
        /\ resolver_advice["Unauthorized"] = resolver_codes[3] /\ resolver_codes[3] # "none"
        /\ resolver_advice["TooManyTextRecords"] = resolver_codes[4] /\ resolver_codes[4] # "none"
        /\ resolver_advice["NotInitialized"] = resolver_codes[5] /\ resolver_codes[5] # "none"
        /\ resolver_advice["TextRecordValueTooLong"] = resolver_codes[6] /\ resolver_codes[6] # "none"
        /\ resolver_advice["InvalidChain"] = resolver_codes[7] /\ resolver_codes[7] # "none"
        /\ resolver_advice["InvalidKey"] = resolver_codes[8] /\ resolver_codes[8] # "none"
        /\ resolver_advice["BatchTooLarge"] = resolver_codes[9] /\ resolver_codes[9] # "none"
        /\ resolver_advice["UpgradeFailed"] = resolver_codes[10] /\ resolver_codes[10] # "none"
    BY DEF resolver_advice, resolver_codes
  <2>5. \A i \in 1 .. 10 : resolver_advice[decode_table["resolver"][i]] = resolver_codes[i] /\ resolver_codes[i] # "none"
    BY <2>1, <2>4
  <2>6. \A name : contract_error(<< "resolver", name >>) = resolver_advice[name]
    BY DEF contract_error
  <2>7. \A n : contract_error_for_domain("resolver", n) = IF n \in DOMAIN resolver_codes THEN resolver_codes[n] ELSE unknown_contract_error
    BY DEF contract_error_for_domain, Contracts
  <2>8. TablesAgree("resolver", resolver_advice, resolver_codes)
    BY <2>3, <2>5, <2>6, <2>7 DEF TablesAgree
  <2> QED
    BY <1>3, <2>2, <2>8, WaysMeet
<1>4. CASE c = "subdomain"
  <2>1. decode_table["subdomain"] = << "Validation", "ParentNotFound", "AlreadyExists", "NotFound", "Unauthorized", "UpgradeFailed", "DepthLimitExceeded" >>
    BY DEF decode_table
  <2>2. Thrown["subdomain"] = decode_table["subdomain"]
    BY <2>1 DEF Thrown, SubdomainError
  <2>3. DOMAIN decode_table["subdomain"] = 1 .. 7 /\ DOMAIN subdomain_codes = 1 .. 7
    BY <2>1 DEF subdomain_codes
  <2>4. /\ subdomain_advice["Validation"] = subdomain_codes[1] /\ subdomain_codes[1] # "none"
        /\ subdomain_advice["ParentNotFound"] = subdomain_codes[2] /\ subdomain_codes[2] # "none"
        /\ subdomain_advice["AlreadyExists"] = subdomain_codes[3] /\ subdomain_codes[3] # "none"
        /\ subdomain_advice["NotFound"] = subdomain_codes[4] /\ subdomain_codes[4] # "none"
        /\ subdomain_advice["Unauthorized"] = subdomain_codes[5] /\ subdomain_codes[5] # "none"
        /\ subdomain_advice["UpgradeFailed"] = subdomain_codes[6] /\ subdomain_codes[6] # "none"
        /\ subdomain_advice["DepthLimitExceeded"] = subdomain_codes[7] /\ subdomain_codes[7] # "none"
    BY DEF subdomain_advice, subdomain_codes
  <2>5. \A i \in 1 .. 7 : subdomain_advice[decode_table["subdomain"][i]] = subdomain_codes[i] /\ subdomain_codes[i] # "none"
    BY <2>1, <2>4
  <2>6. \A name : contract_error(<< "subdomain", name >>) = subdomain_advice[name]
    BY DEF contract_error
  <2>7. \A n : contract_error_for_domain("subdomain", n) = IF n \in DOMAIN subdomain_codes THEN subdomain_codes[n] ELSE unknown_contract_error
    BY DEF contract_error_for_domain, Contracts
  <2>8. TablesAgree("subdomain", subdomain_advice, subdomain_codes)
    BY <2>3, <2>5, <2>6, <2>7 DEF TablesAgree
  <2> QED
    BY <1>4, <2>2, <2>8, WaysMeet
<1>5. CASE c = "auction"
  <2>1. decode_table["auction"] = << "Validation", "AlreadyExists", "NotFound", "Closed", "NotStarted", "NotEnded", "AlreadySettled", "InvalidBid", "UpgradeFailed", "ReentrancyDetected" >>
    BY DEF decode_table
  <2>2. Thrown["auction"] = decode_table["auction"]
    BY <2>1 DEF Thrown, AuctionError
  <2>3. DOMAIN decode_table["auction"] = 1 .. 10 /\ DOMAIN auction_codes = 1 .. 10
    BY <2>1 DEF auction_codes
  <2>4. /\ auction_advice["Validation"] = auction_codes[1] /\ auction_codes[1] # "none"
        /\ auction_advice["AlreadyExists"] = auction_codes[2] /\ auction_codes[2] # "none"
        /\ auction_advice["NotFound"] = auction_codes[3] /\ auction_codes[3] # "none"
        /\ auction_advice["Closed"] = auction_codes[4] /\ auction_codes[4] # "none"
        /\ auction_advice["NotStarted"] = auction_codes[5] /\ auction_codes[5] # "none"
        /\ auction_advice["NotEnded"] = auction_codes[6] /\ auction_codes[6] # "none"
        /\ auction_advice["AlreadySettled"] = auction_codes[7] /\ auction_codes[7] # "none"
        /\ auction_advice["InvalidBid"] = auction_codes[8] /\ auction_codes[8] # "none"
        /\ auction_advice["UpgradeFailed"] = auction_codes[9] /\ auction_codes[9] # "none"
        /\ auction_advice["ReentrancyDetected"] = auction_codes[10] /\ auction_codes[10] # "none"
    BY DEF auction_advice, auction_codes
  <2>5. \A i \in 1 .. 10 : auction_advice[decode_table["auction"][i]] = auction_codes[i] /\ auction_codes[i] # "none"
    BY <2>1, <2>4
  <2>6. \A name : contract_error(<< "auction", name >>) = auction_advice[name]
    BY DEF contract_error
  <2>7. \A n : contract_error_for_domain("auction", n) = IF n \in DOMAIN auction_codes THEN auction_codes[n] ELSE unknown_contract_error
    BY DEF contract_error_for_domain, Contracts
  <2>8. TablesAgree("auction", auction_advice, auction_codes)
    BY <2>3, <2>5, <2>6, <2>7 DEF TablesAgree
  <2> QED
    BY <1>5, <2>2, <2>8, WaysMeet
<1>6. CASE c = "bridge"
  <2>1. decode_table["bridge"] = << "Validation", "UnsupportedChain", "UpgradeFailed", "Unauthorized", "NotFound", "AlreadyExists" >>
    BY DEF decode_table
  <2>2. Thrown["bridge"] = decode_table["bridge"]
    BY <2>1 DEF Thrown, BridgeError
  <2>3. DOMAIN decode_table["bridge"] = 1 .. 6 /\ DOMAIN bridge_codes = 1 .. 6
    BY <2>1 DEF bridge_codes
  <2>4. /\ bridge_advice["Validation"] = bridge_codes[1] /\ bridge_codes[1] # "none"
        /\ bridge_advice["UnsupportedChain"] = bridge_codes[2] /\ bridge_codes[2] # "none"
        /\ bridge_advice["UpgradeFailed"] = bridge_codes[3] /\ bridge_codes[3] # "none"
        /\ bridge_advice["Unauthorized"] = bridge_codes[4] /\ bridge_codes[4] # "none"
        /\ bridge_advice["NotFound"] = bridge_codes[5] /\ bridge_codes[5] # "none"
        /\ bridge_advice["AlreadyExists"] = bridge_codes[6] /\ bridge_codes[6] # "none"
    BY DEF bridge_advice, bridge_codes
  <2>5. \A i \in 1 .. 6 : bridge_advice[decode_table["bridge"][i]] = bridge_codes[i] /\ bridge_codes[i] # "none"
    BY <2>1, <2>4
  <2>6. \A name : contract_error(<< "bridge", name >>) = bridge_advice[name]
    BY DEF contract_error
  <2>7. \A n : contract_error_for_domain("bridge", n) = IF n \in DOMAIN bridge_codes THEN bridge_codes[n] ELSE unknown_contract_error
    BY DEF contract_error_for_domain, Contracts
  <2>8. TablesAgree("bridge", bridge_advice, bridge_codes)
    BY <2>3, <2>5, <2>6, <2>7 DEF TablesAgree
  <2> QED
    BY <1>6, <2>2, <2>8, WaysMeet
<1>7. CASE c = "nft"
  <2>1. decode_table["nft"] = << "AlreadyMinted", "NotFound", "Unauthorized", "UpgradeFailed", "NotInitialized" >>
    BY DEF decode_table
  <2>2. Thrown["nft"] = decode_table["nft"]
    BY <2>1 DEF Thrown, NftError
  <2>3. DOMAIN decode_table["nft"] = 1 .. 5 /\ DOMAIN nft_codes = 1 .. 5
    BY <2>1 DEF nft_codes
  <2>4. /\ nft_advice["AlreadyMinted"] = nft_codes[1] /\ nft_codes[1] # "none"
        /\ nft_advice["NotFound"] = nft_codes[2] /\ nft_codes[2] # "none"
        /\ nft_advice["Unauthorized"] = nft_codes[3] /\ nft_codes[3] # "none"
        /\ nft_advice["UpgradeFailed"] = nft_codes[4] /\ nft_codes[4] # "none"
        /\ nft_advice["NotInitialized"] = nft_codes[5] /\ nft_codes[5] # "none"
    BY DEF nft_advice, nft_codes
  <2>5. \A i \in 1 .. 5 : nft_advice[decode_table["nft"][i]] = nft_codes[i] /\ nft_codes[i] # "none"
    BY <2>1, <2>4
  <2>6. \A name : contract_error(<< "nft", name >>) = nft_advice[name]
    BY DEF contract_error
  <2>7. \A n : contract_error_for_domain("nft", n) = IF n \in DOMAIN nft_codes THEN nft_codes[n] ELSE unknown_contract_error
    BY DEF contract_error_for_domain, Contracts
  <2>8. TablesAgree("nft", nft_advice, nft_codes)
    BY <2>3, <2>5, <2>6, <2>7 DEF TablesAgree
  <2> QED
    BY <1>7, <2>2, <2>8, WaysMeet
<1> QED
  BY <1>1, <1>2, <1>3, <1>4, <1>5, <1>6, <1>7 DEF Contracts

LEMMA CodesGiven ==
    /\ 2 \in DOMAIN registrar_codes /\ registrar_codes[2] = "not registered"
    /\ 4 \in DOMAIN registrar_codes /\ registrar_codes[4] = "already registered"
  BY DEF registrar_codes

\* No error is without an advice, and those the properties are about have theirs.
LEMMA AdviceGiven ==
    ASSUME NEW domain
    PROVE  /\ \A text : classify_error("Text", text, domain) # "none"
           /\ \A r : Result(r) /\ r.kind \notin {"none", "Ok"} => classify_error(r.kind, r.detail, domain) # "none"
           /\ \A kind \in {"Text", "InvalidRequest"} :
                 classify_error(kind, Text("not configured"), domain) = "not configured"
           /\ \A detail : classify_error("NetworkPassphraseMismatch", detail, domain) = "NetworkPassphraseMismatch"
           /\ domain = "registrar" => \A why \in {"already registered", "not registered"} :
                 classify_error("Text", Text(why), domain) = why
<1>1. \A x : or_else(x, "unexpected") # "none" /\ or_else(x, "invalid request") # "none"
  BY DEF or_else
<1>2. \A text : classify_error("Text", text, domain) = or_else(classify_text(text, domain), "unexpected")
  BY DEF classify_error
<1>3. \A text : classify_error("InvalidRequest", text, domain) = or_else(classify_text(text, domain), "invalid request")
  BY DEF classify_error, classify_sdk_error
<1>4. \A detail : classify_error("NetworkPassphraseMismatch", detail, domain) = "NetworkPassphraseMismatch"
  BY DEF classify_error, classify_sdk_error
<1>5. classify_error("ContractError", << "any", "NameNotFound" >>, domain) # "none"
  <2>1. contract_error(<< "any", "NameNotFound" >>) = generic_advice["NameNotFound"]
    BY DEF contract_error
  <2>2. generic_advice["NameNotFound"] = "not found"
    BY DEF generic_advice
  <2> QED
    BY <2>1, <2>2 DEF classify_error, classify_sdk_error
<1>6. ASSUME NEW r, Result(r), r.kind \notin {"none", "Ok"} PROVE classify_error(r.kind, r.detail, domain) # "none"
  <2>1. r.kind \in {"InvalidRequest", "ContractError", "NetworkPassphraseMismatch"}
    BY <1>6 DEF Result
  <2>2. CASE r.kind = "InvalidRequest"
    BY <1>1, <1>3, <2>2
  <2>3. CASE r.kind = "ContractError"
    BY <1>5, <1>6, <2>3 DEF Result
  <2>4. CASE r.kind = "NetworkPassphraseMismatch"
    BY <1>4, <2>4
  <2> QED
    BY <2>1, <2>2, <2>3, <2>4
<1>7. classify_text(Text("not configured"), domain) = "not configured"
  BY DEF classify_text, Text, PlainPhrases
<1>8. \A kind \in {"Text", "InvalidRequest"} : classify_error(kind, Text("not configured"), domain) = "not configured"
  BY <1>2, <1>3, <1>7 DEF or_else
<1>9. ASSUME domain = "registrar", NEW why \in {"already registered", "not registered"}
      PROVE  classify_error("Text", Text(why), domain) = why
  <2>1. \A code : contract_error_for_domain(domain, code)
                     = IF code \in DOMAIN registrar_codes THEN registrar_codes[code] ELSE unknown_contract_error
    BY <1>9 DEF contract_error_for_domain, Contracts
  <2>2. /\ 2 \in DOMAIN registrar_codes /\ registrar_codes[2] = "not registered"
        /\ 4 \in DOMAIN registrar_codes /\ registrar_codes[4] = "already registered"
    BY CodesGiven
  <2>3. /\ classify_text(Text("already registered"), domain) = contract_error_for_domain(domain, 4)
        /\ classify_text(Text("not registered"), domain) = contract_error_for_domain(domain, 2)
    BY DEF classify_text, Text, PlainPhrases
  <2>4. classify_text(Text(why), domain) = why
    BY <1>9, <2>1, <2>2, <2>3
  <2> QED
    BY <1>2, <1>9, <2>4 DEF or_else
<1> QED
  BY <1>1, <1>2, <1>4, <1>6, <1>8, <1>9

-----------------------------------------------------------------------------
(* A run of the command line. *)

CliShape ==
    cli = [at |-> cli.at, cmd |-> cli.cmd, dry |-> cli.dry, args |-> cli.args, given |-> cli.given, tty |-> cli.tty,
           ids |-> cli.ids, todo |-> cli.todo, left |-> cli.left, absent |-> cli.absent, sent |-> cli.sent,
           cause |-> cli.cause, missing |-> cli.missing, advice |-> cli.advice]

Group == cli.cmd[1]

\* No error can end the run any more.
OnlyTried(list) == \A i \in 1 .. Len(list) : list[i][1] \in {"try", "each"}

\* While the handler runs its steps fit, the client has the ids the policy has
\* checked, and a bulk command that is not through its records comes back to them.
Running ==
    /\ Fits(Group, cli.todo)
    /\ cli.cause = "none" /\ cli.missing = "none" /\ cli.advice = "none"
    /\ client.passphrase
    /\ \A c \in Own(Group) : client.ids[c] = cli.ids[c]
    /\ ~cli.dry => \A c \in required(Group) : cli.ids[c] # "none"
    /\ Group = "bulk" => cli.left = << >> \/ HasEach(cli.todo)

\* After a transaction was made only calls are left whose errors are no errors of
\* the run; one under way that has made a transaction can no longer fail.
Harmed ==
    /\ cli.sent > 0 /\ cli.at = "run" => OnlyTried(cli.todo)
    /\ cli.sent > 0 /\ cli.at = "wait" =>
          /\ OnlyTried(Tail(cli.todo))
          /\ Head(cli.todo)[1] \in Strict => IF call = Idle THEN returned.kind = "Ok" ELSE call.status # "none"

\* The call under way is the one of the step, and what it has returned is
\* something this command can meet.
Waiting ==
    /\ cli.todo # << >> /\ Head(cli.todo)[1] \in Calls
    /\ call # Idle => call.op = What
    /\ call = Idle =>
          /\ returned.kind = "NetworkPassphraseMismatch" => What \notin Lookups
          /\ ~cli.dry /\ returned.kind = "InvalidRequest" /\ returned.detail = Text("not configured")
                => returned.about = "registry"

CliInv ==
    /\ CliShape /\ CliTypeOK
    /\ MissingIdOnlyRegistry /\ AdviceFits /\ ExitStatusTrue
    /\ cli.at \in {"run", "wait"} => Running /\ Harmed
    /\ cli.at = "wait" => Waiting

\* A handler without its first step.
LEMMA FitsTail ==
    ASSUME NEW g, NEW list, Fits(g, list), list # << >>
    PROVE  /\ Fits(g, Tail(list)) /\ FitsStep(g, Head(list))
           /\ HasEach(list) /\ Head(list)[1] # "each" => HasEach(Tail(list))
           /\ Head(list)[1] = "each" => HasEach(list)
           /\ OnlyTried(list) => OnlyTried(Tail(list)) /\ Head(list)[1] \in {"try", "each"}
           /\ OnlyTried(Tail(list)) /\ Head(list)[1] \in {"try", "each"} => OnlyTried(list)
           /\ ~Harmless(Head(list)) => OnlyTried(Tail(list))
<1>1. /\ Len(list) \in Nat /\ Len(list) >= 1 /\ Len(Tail(list)) = Len(list) - 1
      /\ \A i \in 1 .. Len(Tail(list)) : i + 1 \in 1 .. Len(list) /\ Tail(list)[i] = list[i + 1]
      /\ Tail(list) \in Seq({Tail(list)[i] : i \in 1 .. Len(Tail(list))})
      /\ Head(list) = list[1] /\ 1 \in 1 .. Len(list)
  BY TailListed DEF Fits
<1>2. \A i \in 1 .. Len(list) : i # 1 => i - 1 \in 1 .. Len(Tail(list)) /\ list[i] = Tail(list)[i - 1]
  <2>1. \A i \in 1 .. Len(list) : i # 1 => i - 1 \in 1 .. Len(Tail(list)) /\ (i - 1) + 1 = i
    BY <1>1
  <2> QED
    BY <1>1, <2>1
<1>3. Fits(g, Tail(list)) /\ FitsStep(g, Head(list))
  <2>1. \A i, j \in 1 .. Len(Tail(list)) : i < j => i + 1 < j + 1
    BY <1>1
  <2>2. \A i, j \in 1 .. Len(list) : i < j /\ ~Harmless(list[i]) => list[j][1] \in {"try", "each"}
    BY DEF Fits
  <2>3. \A i, j \in 1 .. Len(Tail(list)) :
            i < j /\ ~Harmless(Tail(list)[i]) => Tail(list)[j][1] \in {"try", "each"}
    BY <1>1, <2>1, <2>2
  <2>4. \A i \in 1 .. Len(list) : FitsStep(g, list[i])
    BY DEF Fits
  <2> QED
    BY <1>1, <2>3, <2>4 DEF Fits
<1>4. HasEach(list) /\ Head(list)[1] # "each" => HasEach(Tail(list))
  BY <1>1, <1>2 DEF HasEach
<1>5. Head(list)[1] = "each" => HasEach(list)
  BY <1>1 DEF HasEach
<1>6. OnlyTried(list) => OnlyTried(Tail(list)) /\ Head(list)[1] \in {"try", "each"}
  BY <1>1 DEF OnlyTried
<1>7. OnlyTried(Tail(list)) /\ Head(list)[1] \in {"try", "each"} => OnlyTried(list)
  BY <1>1, <1>2 DEF OnlyTried
<1>8. ASSUME ~Harmless(Head(list)) PROVE OnlyTried(Tail(list))
  <2>1. \A i \in 1 .. Len(Tail(list)) : i + 1 \in 1 .. Len(list) /\ 1 < i + 1 /\ Tail(list)[i] = list[i + 1]
    BY <1>1
  <2>2. \A j \in 1 .. Len(list) : 1 < j => list[j][1] \in {"try", "each"}
    BY <1>1, <1>8 DEF Fits
  <2> QED
    BY <2>1, <2>2 DEF OnlyTried
<1> QED
  BY <1>3, <1>4, <1>5, <1>6, <1>7, <1>8

\* What the handlers hand on to the client is required.
LEMMA OwnIsRequired == \A g : Own(g) \subseteq required(g) /\ required(g) \subseteq Contracts
<1> SUFFICES ASSUME NEW g PROVE Own(g) \subseteq required(g) /\ required(g) \subseteq Contracts
  OBVIOUS
<1> QED
  BY DEF Own, required, Contracts

\* What a run may end with.
EndFits(run, at, cause, missing, advice) ==
    /\ at \in {"ok", "failed", "panic"} /\ missing \in Contracts \cup {"none", "passphrase"}
    /\ run.cmd \in Commands /\ run.sent \in Nat
    /\ (at = "failed") <=> (advice # "none")
    /\ at # "ok" => run.sent = 0
    /\ at = "ok" /\ run.cmd[1] = "bulk" /\ ~run.dry => run.left = << >>
    /\ ~run.dry => at # "panic" /\ missing \in {"none", "registry"}
    /\ cause = "already registered" => advice = "already registered"
    /\ cause = "not registered" => advice = "not registered"
    /\ cause = "missing id" /\ at = "failed" => advice = "not configured"
    /\ cause = "wrong network" => advice = "NetworkPassphraseMismatch"

LEMMA EndsWell ==
    ASSUME NEW run, NEW at, NEW cause, NEW missing, NEW advice,
           EndFits(run, at, cause, missing, advice), cli' = Ended(run, at, cause, missing, advice), call' = Idle
    PROVE  CliInv'
<1>1. /\ cli'.at = at /\ cli'.cmd = run.cmd /\ cli'.dry = run.dry /\ cli'.left = run.left /\ cli'.sent = run.sent
      /\ cli'.cause = cause /\ cli'.missing = missing /\ cli'.advice = advice
      /\ cli'.args = "good" /\ cli'.given = TRUE /\ cli'.ids = [c \in Contracts |-> "none"]
      /\ CliShape'
  BY DEF Ended, Off, CliShape
<1>2. CliTypeOK'
  <2>0. \A S : [c \in S |-> "none"] \in [S -> {"none", "ok"}]
    OBVIOUS
  <2>1. cli'.ids \in [Contracts -> {"none", "ok"}] /\ cli'.given \in BOOLEAN /\ cli'.args \in {"good", "bad", "unknown"}
    BY <1>1, <2>0
  <2>2. (cli'.at = "failed") <=> (cli'.advice # "none")
    BY <1>1 DEF EndFits
  <2>3. cli'.at \in {"ok", "failed", "panic"} /\ cli'.cmd \in Commands /\ cli'.sent \in Nat
    BY <1>1 DEF EndFits
  <2>4. cli'.missing \in Contracts \cup {"none", "passphrase"}
    BY <1>1 DEF EndFits
  <2> QED
    BY <2>1, <2>2, <2>3, <2>4 DEF CliTypeOK
<1>3. MissingIdOnlyRegistry'
  BY <1>1 DEF MissingIdOnlyRegistry, EndFits
<1>4. AdviceFits'
  BY <1>1 DEF AdviceFits, EndFits
<1>5. ExitStatusTrue'
  BY <1>1 DEF ExitStatusTrue, EndFits
<1>6. cli'.at \notin {"run", "wait"}
  BY <1>1 DEF EndFits
<1> QED
  BY <1>1, <1>2, <1>3, <1>4, <1>5, <1>6 DEF CliInv

\* One that ends with an error of the command line itself.
SaysFits(run, phrase, cause, missing) ==
    /\ run.cmd \in Commands /\ run.sent \in Nat /\ run.sent = 0
    /\ missing \in Contracts \cup {"none", "passphrase"}
    /\ ~run.dry => missing \in {"none", "registry"}
    /\ cause \in {"already registered", "not registered"} => cause = phrase /\ error_domain(run.cmd[1]) = "registrar"
    /\ cause = "missing id" => phrase = "not configured"
    /\ cause # "wrong network"

LEMMA SaysWell ==
    ASSUME NEW run, NEW phrase, NEW cause, NEW missing,
           SaysFits(run, phrase, cause, missing), cli' = Says(run, phrase, cause, missing), call' = Idle
    PROVE  CliInv'
<1> DEFINE domain == error_domain(run.cmd[1])
           advice == classify_error("Text", Text(phrase), domain)
<1>1. cli' = Ended(run, "failed", cause, missing, advice)
  BY DEF Says, Failed
<1>2. advice # "none"
  BY AdviceGiven
<1>3. cause = "missing id" => advice = "not configured"
  BY AdviceGiven DEF SaysFits
<1>4. cause \in {"already registered", "not registered"} => advice = cause
  BY AdviceGiven DEF SaysFits
<1> HIDE DEF advice
<1>5. EndFits(run, "failed", cause, missing, advice)
  BY <1>2, <1>3, <1>4 DEF EndFits, SaysFits
<1> QED
  BY <1>1, <1>5, EndsWell

\* The run goes on: nothing that was checked when it started changes.
Moved ==
    /\ CliShape'
    /\ cli'.at \in {"run", "wait"} /\ cli'.sent \in Nat
    /\ cli'.cmd = cli.cmd /\ cli'.dry = cli.dry /\ cli'.args = cli.args /\ cli'.given = cli.given
    /\ cli'.ids = cli.ids /\ cli'.cause = cli.cause /\ cli'.missing = cli.missing /\ cli'.advice = cli.advice

LEMMA MovesOn ==
    ASSUME CliInv, cli.at \in {"run", "wait"}, Moved, client' = client,
           Fits(Group, cli'.todo), Group = "bulk" => cli'.left = << >> \/ HasEach(cli'.todo),
           Harmed', cli'.at = "wait" => Waiting'
    PROVE  CliInv'
<1>1. CliTypeOK /\ Running
  BY DEF CliInv
<1>2. /\ cli'.at \in {"run", "wait"} /\ cli'.sent \in Nat /\ cli'.cmd = cli.cmd /\ cli'.dry = cli.dry
      /\ cli'.ids = cli.ids /\ cli'.cause = "none" /\ cli'.missing = "none" /\ cli'.advice = "none"
      /\ cli'.args = cli.args /\ cli'.given = cli.given /\ CliShape'
  BY <1>1 DEF Moved, Running
<1>3. CliTypeOK'
  BY <1>1, <1>2 DEF CliTypeOK
<1>4. MissingIdOnlyRegistry' /\ AdviceFits' /\ ExitStatusTrue'
  BY <1>2 DEF MissingIdOnlyRegistry, AdviceFits, ExitStatusTrue
<1>5. Running'
  BY <1>1, <1>2 DEF Running, Group
<1> QED
  BY <1>2, <1>3, <1>4, <1>5 DEF CliInv

\* So it is when a step is done.
LEMMA StepDone ==
    ASSUME CliInv, cli.at \in {"run", "wait"}, cli.todo # << >>, client' = client,
           NEW absent, cli' = [Onward EXCEPT !.absent = absent],
           Head(cli.todo)[1] = "each" => cli.left = << >>,
           cli.sent > 0 => OnlyTried(Tail(cli.todo))
    PROVE  CliInv' /\ cli'.at = "run"
<1>1. CliShape /\ CliTypeOK /\ Running
  BY DEF CliInv
<1>2. /\ cli'.at = "run" /\ cli'.todo = Tail(cli.todo) /\ cli'.left = cli.left /\ cli'.sent = cli.sent
      /\ cli'.cmd = cli.cmd /\ cli'.dry = cli.dry /\ cli'.args = cli.args /\ cli'.given = cli.given
      /\ cli'.ids = cli.ids /\ cli'.cause = cli.cause /\ cli'.missing = cli.missing /\ cli'.advice = cli.advice
      /\ CliShape'
  BY <1>1 DEF Onward, CliShape
<1>3. Moved
  BY <1>1, <1>2 DEF Moved, CliTypeOK
<1>4. /\ Fits(Group, Tail(cli.todo))
      /\ HasEach(cli.todo) /\ Head(cli.todo)[1] # "each" => HasEach(Tail(cli.todo))
  BY <1>1, FitsTail DEF Running
<1>5. Group = "bulk" => cli.left = << >> \/ HasEach(cli.todo)
  BY <1>1 DEF Running
<1>6. Harmed'
  BY <1>2 DEF Harmed
<1> QED
  BY <1>2, <1>3, <1>4, <1>5, <1>6, MovesOn

LEMMA StepIsDone ==
    ASSUME CliInv, cli.at \in {"run", "wait"}, cli.todo # << >>, client' = client, cli' = Onward,
           Head(cli.todo)[1] = "each" => cli.left = << >>,
           cli.sent > 0 => OnlyTried(Tail(cli.todo))
    PROVE  CliInv' /\ cli'.at = "run"
<1>1. CliShape
  BY DEF CliInv
<1>2. Onward = [Onward EXCEPT !.absent = cli.absent]
  BY <1>1 DEF Onward, CliShape
<1> QED
  BY <1>2, StepDone

\* The steps of the handler that do not call.
LocalStep ==
    \/ Conclude \/ CheckId \/ ExpectId \/ Judge
    \/ prompt_registration_inputs \/ prompt_confirm
    \/ UseFile \/ run_validate \/ StopIfDry \/ NotImplemented
    \/ EachDone

LEMMA LocalKeeps ==
    ASSUME CliInv, LocalStep, cli.at = "run" => call = Idle
    PROVE  CliInv' /\ (cli'.at # "wait" => call' = Idle) /\ UNCHANGED sdkVars
<1>1. cli.at = "run" /\ UNCHANGED sdkVars
  BY DEF LocalStep, Conclude, CheckId, ExpectId, Judge, prompt_registration_inputs, prompt_confirm, UseFile,
         run_validate, StopIfDry, NotImplemented, EachDone, Doing, DoLocal
<1>2. call' = Idle /\ client' = client
  BY <1>1 DEF sdkVars
<1>. SUFFICES CliInv'
  BY <1>1, <1>2
<1>3. CliTypeOK /\ Running /\ Harmed /\ cli.cmd \in Commands /\ cli.sent \in Nat
  BY <1>1 DEF CliInv, CliTypeOK
<1>4. cli.todo # << >> =>
          /\ FitsStep(Group, Head(cli.todo))
          /\ cli.sent > 0 => OnlyTried(Tail(cli.todo)) /\ Head(cli.todo)[1] \in {"try", "each"}
  BY <1>1, <1>3, FitsTail DEF Running, Harmed
<1>5. cli.todo # << >> /\ Head(cli.todo)[1] \notin {"try", "each"} => cli.sent = 0
  BY <1>3, <1>4
<1>6. ASSUME cli.todo # << >>, Head(cli.todo)[1] # "each", cli' = Onward PROVE CliInv'
  BY <1>1, <1>2, <1>4, <1>6, StepIsDone
<1>7. ASSUME NEW phrase, NEW cause, cli.todo # << >>, Head(cli.todo)[1] \notin {"try", "each"},
             cli' = Says(cli, phrase, cause, "none"),
             cause \in {"already registered", "not registered"} => cause = phrase /\ error_domain(Group) = "registrar",
             cause \notin {"missing id", "wrong network"}
      PROVE  CliInv'
  <2>1. SaysFits(cli, phrase, cause, "none")
    BY <1>3, <1>5, <1>7 DEF SaysFits, Group
  <2> QED
    BY <1>2, <1>7, <2>1, SaysWell
<1>8. CASE Conclude
  <2>1. cli.todo = << >> /\ cli' = Ended(cli, "ok", "none", "none", "none")
    BY <1>8 DEF Conclude
  <2>2. ~HasEach(cli.todo)
    BY <2>1 DEF HasEach
  <2>3. EndFits(cli, "ok", "none", "none", "none")
    BY <1>3, <2>2 DEF EndFits, Running, Group
  <2> QED
    BY <1>2, <2>1, <2>3, EndsWell
<1>9. CASE CheckId \/ ExpectId
  <2>1. cli.todo # << >> /\ Head(cli.todo)[1] \in {"need", "expect"}
    BY <1>9 DEF CheckId, ExpectId, Doing
  <2>2. What \in required(Group) /\ What \in Contracts
    BY <1>4, <2>1, OwnIsRequired DEF FitsStep, What
  <2>3. cli.ids[What] = "none" => cli.dry
    BY <1>3, <2>2 DEF Running
  <2>4. CASE cli' = Onward
    BY <1>6, <2>1, <2>4
  <2>5. CASE cli.ids[What] = "none" /\ cli' = Says(cli, "not configured", "missing id", What)
    <3>1. SaysFits(cli, "not configured", "missing id", What)
      BY <1>3, <1>5, <2>1, <2>2, <2>3, <2>5 DEF SaysFits
    <3> QED
      BY <1>2, <2>5, <3>1, SaysWell
  <2>6. CASE cli.ids[What] = "none" /\ cli' = Ended(cli, "panic", "missing id", What, "none")
    <3>1. EndFits(cli, "panic", "missing id", What, "none")
      BY <1>3, <1>5, <2>1, <2>2, <2>3, <2>6 DEF EndFits
    <3> QED
      BY <1>2, <2>6, <3>1, EndsWell
  <2> QED
    BY <1>9, <2>4, <2>5, <2>6 DEF CheckId, ExpectId
<1>10. CASE Judge
  <2>1. cli.todo # << >> /\ Head(cli.todo)[1] \in {"found", "absent"}
    BY <1>10 DEF Judge, Doing
  <2>2. cli' = Onward \/ cli' = Says(cli, What, What, "none")
    BY <1>10 DEF Judge
  <2>3. \/ What \in {"already registered", "not registered"} /\ error_domain(Group) = "registrar"
        \/ What \in {"no auction", "no route", "not found", "no primary name"}
    BY <1>4, <2>1 DEF FitsStep, What
  <2> QED
    BY <1>6, <1>7, <2>1, <2>2, <2>3
<1>11. CASE prompt_registration_inputs \/ prompt_confirm \/ UseFile \/ NotImplemented
  <2>1. cli.todo # << >> /\ Head(cli.todo)[1] \in {"inputs", "confirm", "local", "unimplemented"}
    BY <1>11 DEF prompt_registration_inputs, prompt_confirm, UseFile, NotImplemented, Doing
  <2>2. cli' = Onward \/ \E phrase : \E cause \in {"inputs", "aborted", "file", "unimplemented"} :
            cli' = Says(cli, phrase, cause, "none")
    BY <1>11 DEF prompt_registration_inputs, prompt_confirm, UseFile, NotImplemented
  <2> QED
    BY <1>6, <1>7, <2>1, <2>2
<1>12. CASE run_validate
  <2>1. cli.todo # << >> /\ Head(cli.todo)[1] = "checks"
    BY <1>12 DEF run_validate, Doing
  <2>2. EndFits(cli, "failed", "checks", "none", "checks")
    BY <1>3, <1>5, <2>1 DEF EndFits
  <2> QED
    BY <1>2, <1>6, <1>12, <2>1, <2>2, EndsWell DEF run_validate
<1>13. CASE StopIfDry
  <2>1. cli.todo # << >> /\ Head(cli.todo)[1] = "dry"
    BY <1>13 DEF StopIfDry, Doing
  <2>2. cli.dry => EndFits(cli, "ok", "none", "none", "none")
    BY <1>3 DEF EndFits
  <2> QED
    BY <1>2, <1>6, <1>13, <2>1, <2>2, EndsWell DEF StopIfDry
<1>14. CASE EachDone
  BY <1>1, <1>2, <1>4, <1>14, StepIsDone DEF EachDone, Doing
<1> QED
  BY <1>8, <1>9, <1>10, <1>11, <1>12, <1>13, <1>14 DEF LocalStep

\* A call of the SDK begins.
LEMMA CallSdkKeeps ==
    ASSUME ClientInv, CliInv, CallSdk
    PROVE  ClientInv' /\ CliInv' /\ cli'.at = "wait"
<1>1. /\ cli.at = "run" /\ cli.todo # << >> /\ Head(cli.todo)[1] \in Calls
      /\ cli' = [cli EXCEPT !.at = "wait"]
  BY DEF CallSdk, Doing, Calls
<1>2. PICK args : Invoke(What, args, FALSE)
  BY DEF CallSdk
<1>3. CliShape /\ CliTypeOK /\ Running /\ Harmed
  BY <1>1 DEF CliInv
<1>4. FitsStep(Group, Head(cli.todo))
  BY <1>1, <1>3, FitsTail DEF Running
<1>5. What \in Methods
  BY <1>1, <1>4, MethodsLookFor DEF FitsStep, What
<1>6. ClientInv' /\ call' # Idle /\ call'.op = What /\ client' = client
  BY <1>2, <1>5, InvokeSound
<1>7. /\ cli'.at = "wait" /\ cli'.todo = cli.todo /\ cli'.left = cli.left /\ cli'.sent = cli.sent
      /\ cli'.cmd = cli.cmd /\ cli'.dry = cli.dry /\ cli'.args = cli.args /\ cli'.given = cli.given
      /\ cli'.ids = cli.ids /\ cli'.cause = cli.cause /\ cli'.missing = cli.missing /\ cli'.advice = cli.advice
      /\ CliShape'
  BY <1>1, <1>3 DEF CliShape
<1>8. Moved
  BY <1>3, <1>7 DEF Moved, CliTypeOK
<1>9. cli.sent > 0 => OnlyTried(Tail(cli.todo)) /\ Head(cli.todo)[1] \notin Strict
  <2>1. cli.sent > 0 => OnlyTried(cli.todo)
    BY <1>1, <1>3 DEF Harmed
  <2>2. OnlyTried(cli.todo) => OnlyTried(Tail(cli.todo)) /\ Head(cli.todo)[1] \in {"try", "each"}
    BY <1>1, <1>3, FitsTail DEF Running
  <2> QED
    BY <2>1, <2>2 DEF Strict
<1>10. Harmed'
  BY <1>7, <1>9 DEF Harmed
<1>11. Waiting'
  <2>1. What' = What
    BY <1>7 DEF What
  <2> QED
    BY <1>1, <1>6, <1>7, <2>1 DEF Waiting
<1>12. Fits(Group, cli'.todo) /\ (Group = "bulk" => cli'.left = << >> \/ HasEach(cli'.todo))
  BY <1>3, <1>7 DEF Running
<1> QED
  BY <1>1, <1>6, <1>7, <1>8, <1>10, <1>11, <1>12, MovesOn

\* What a call of this run can end with: if a transaction was made, with Ok; on
\* another network only a write; for want of an id only of the registry's.
LEMMA CallVerdict ==
    ASSUME ClientInv, CliInv, cli.at = "wait", ClientStep, Ends
    PROVE  /\ call.status # "none" => returned'.kind = "Ok"
           /\ returned'.kind = "NetworkPassphraseMismatch" => What \notin Lookups
           /\ ~cli.dry /\ returned'.kind = "InvalidRequest" /\ returned'.detail = Text("not configured")
                 => returned'.about = "registry"
<1>1. Running /\ Waiting
  BY DEF CliInv
<1>2. call # Idle /\ CallShape /\ StatusEarned /\ FromSteps
  BY StepEndings DEF ClientInv, NetworkInv, StatusInv, CallInv
<1>3. call.op = What /\ cli.todo # << >> /\ Head(cli.todo)[1] \in Calls
  BY <1>1, <1>2 DEF Waiting
<1>4. What \in CliMethods /\ Needed(What) \subseteq Own(Group)
  BY <1>1, <1>3, FitsTail DEF Running, FitsStep, What
<1>5. call.todo # << >> => 1 \in 1 .. Len(call.todo) /\ Step = call.todo[1]
  BY <1>2, TailListed DEF CallShape, PollsLast, Step
<1>6. call.todo # << >> => \E k \in 1 .. Len(Steps[What]) : Step = Steps[What][k]
  BY <1>2, <1>3, <1>5 DEF FromSteps
<1>7. call.status # "none" /\ call.todo # << >> => Step = Hydrate
  BY <1>2, <1>5 DEF StatusEarned
<1>8. call.status # "none" => returned'.kind = "Ok"
  BY <1>7 DEF Ends
<1>9. call.todo # << >> /\ Step = Network => What \notin Lookups
  BY <1>6, LookupsOnlyLook DEF OnlyLooks
<1>e. \/ returned'.kind = "Ok"
      \/ \E c \in Contracts : /\ call.todo # << >> /\ Step \in {Id(c), IsSet(c)} /\ client.ids[c] = "none"
                             /\ returned' = [kind |-> "InvalidRequest", detail |-> Text("not configured"), about |-> c]
      \/ \E phrase \in Complaints : returned'.kind = "InvalidRequest" /\ returned'.detail = Text(phrase)
      \/ returned'.kind = "ContractError"
      \/ call.todo # << >> /\ Step = Network /\ returned'.kind = "NetworkPassphraseMismatch"
  <2>1. client.passphrase
    BY <1>1 DEF Running
  <2>2. \A phrase, about : Tells("InvalidRequest", Text(phrase), about)
           => returned'.kind = "InvalidRequest" /\ returned'.detail = Text(phrase)
    BY DEF Tells
  <2>3. Tells("ContractError", << "any", "NameNotFound" >>, "-") => returned'.kind = "ContractError"
    BY DEF Tells
  <2>4. Tells("NetworkPassphraseMismatch", Text("none"), "-") => returned'.kind = "NetworkPassphraseMismatch"
    BY DEF Tells
  <2>5. \A c : Tells("InvalidRequest", Text("not configured"), c)
            => returned' = [kind |-> "InvalidRequest", detail |-> Text("not configured"), about |-> c]
    BY DEF Tells
  <2> QED
    BY <2>1, <2>2, <2>3, <2>4, <2>5, Zenon DEF Ends
<1>10. returned'.kind = "NetworkPassphraseMismatch" => What \notin Lookups
  <2>1. ASSUME NEW c \in Contracts, returned' = [kind |-> "InvalidRequest", detail |-> Text("not configured"), about |-> c]
        PROVE  returned'.kind # "NetworkPassphraseMismatch"
    BY <2>1
  <2> QED
    BY <1>9, <1>e, <2>1
<1>11. ASSUME NEW c \in Contracts, call.todo # << >>, Step \in {Id(c), IsSet(c)}, client.ids[c] = "none", ~cli.dry
       PROVE  c = "registry"
  <2>1. Step[1] \in {"id", "set"} /\ Step[2] = c
    BY <1>11 DEF Id, IsSet
  <2>2. LooksFor(Steps[What], Needed(What))
    BY <1>4, MethodsLookFor
  <2>3. c \in Needed(What) \cup {"registry"}
    BY <1>6, <1>11, <2>1, <2>2 DEF LooksFor
  <2>4. c \in Own(Group) => cli.ids[c] = "none" /\ c \in required(Group)
    BY <1>1, <1>11, OwnIsRequired DEF Running
  <2>5. c \notin Own(Group)
    BY <1>1, <1>11, <2>4 DEF Running
  <2> QED
    BY <1>4, <2>3, <2>5
<1>12. ASSUME ~cli.dry, returned'.kind = "InvalidRequest", returned'.detail = Text("not configured")
       PROVE  returned'.about = "registry"
  <2>2. \A phrase \in Complaints : Text(phrase) # Text("not configured")
    BY DEF Complaints, Text
  <2>3. PICK c \in Contracts : /\ call.todo # << >> /\ Step \in {Id(c), IsSet(c)} /\ client.ids[c] = "none"
                               /\ returned' = [kind |-> "InvalidRequest", detail |-> Text("not configured"), about |-> c]
    BY <1>12, <1>e, <2>2
  <2> QED
    BY <1>11, <1>12, <2>3
<1> QED
  BY <1>8, <1>10, <1>12

\* A step of the client inside the call.
LEMMA InSdkKeeps ==
    ASSUME ClientInv, CliInv, InSdk
    PROVE  ClientInv' /\ CliInv' /\ cli'.at = "wait"
<1>1. cli.at = "wait" /\ ClientStep /\ CliShape /\ CliTypeOK /\ Running /\ Harmed /\ Waiting
  BY DEF InSdk, CliInv
<1>2. ClientInv' /\ client' = client
  BY <1>1, ClientStepSound
<1>3. call # Idle /\ CallShape /\ FromSteps /\ client \in Clients
  BY <1>1, StepEndings DEF ClientInv, NetworkInv, StatusInv, CallInv
<1> DEFINE made == call.status = "none" /\ call'.status = "Submitted"
<1>4. /\ cli'.at = "wait" /\ cli'.todo = cli.todo /\ cli'.left = cli.left
      /\ cli'.sent = IF made THEN cli.sent + 1 ELSE cli.sent
      /\ cli'.cmd = cli.cmd /\ cli'.dry = cli.dry /\ cli'.args = cli.args /\ cli'.given = cli.given
      /\ cli'.ids = cli.ids /\ cli'.cause = cli.cause /\ cli'.missing = cli.missing /\ cli'.advice = cli.advice
      /\ CliShape'
  BY <1>1 DEF InSdk, CliShape
<1>5. cli.sent \in Nat /\ cli'.sent \in Nat
  BY <1>1, <1>4 DEF CliTypeOK
<1>6. call.op = What /\ cli.todo # << >> /\ Head(cli.todo)[1] \in Calls
  BY <1>1, <1>3 DEF Waiting
<1>7. Goes \/ Ends
  BY <1>1, <1>3, StepVerdict
<1>8. Ends => call' = Idle /\ call'.status = "none"
  BY IdleShape DEF Ends
<1>9. ASSUME Goes
      PROVE  call' # Idle /\ call'.op = call.op /\ (call.status # "none" => call'.status # "none")
             /\ (made => Step = Submit /\ call.todo # << >>)
  <2>1. CASE call' = call
    BY <1>3, <2>1
  <2>2. CASE call' # call
    <3>1. PICK status : /\ call' = [call EXCEPT !.todo = Tail(@), !.status = status]
                        /\ \/ status = call.status
                           \/ Step = Submit /\ status \in {"Simulated", "Submitted"}
                           \/ Step = Hydrate /\ status \in {"Confirmed", "Failed"}
      BY <1>9, <2>2 DEF Goes
    <3>2. call'.op = call.op /\ call'.status = status
      BY <1>3, <3>1 DEF CallShape
    <3>3. call'.op # "idle"
      BY <1>3, <3>2, IdleShape DEF CallShape
    <3> QED
      BY <1>9, <3>1, <3>2, <3>3, IdleShape DEF Goes
  <2> QED
    BY <2>1, <2>2
<1>10. ASSUME made PROVE OnlyTried(Tail(cli.todo))
  <2>1. Goes /\ Step = Submit /\ call.todo # << >>
    BY <1>7, <1>8, <1>9, <1>10
  <2>2. 1 \in 1 .. Len(call.todo) /\ Step = call.todo[1]
    BY <1>3, <2>1, TailListed DEF CallShape, PollsLast, Step
  <2>3. What \notin Lookups
    BY <1>3, <1>6, <2>1, <2>2, LookupsOnlyLook DEF FromSteps, OnlyLooks
  <2>4. ~Harmless(Head(cli.todo))
    BY <1>6, <2>3 DEF Harmless, What
  <2> QED
    BY <1>1, <1>6, <2>4, FitsTail DEF Running
<1>11. cli'.sent > 0 => made \/ cli.sent > 0
  BY <1>4, <1>5
<1>12. cli'.sent > 0 => OnlyTried(Tail(cli.todo))
  BY <1>1, <1>10, <1>11 DEF Harmed
<1>13. cli'.sent > 0 /\ Head(cli.todo)[1] \in Strict => IF call' = Idle THEN returned'.kind = "Ok" ELSE call'.status # "none"
  <2>1. SUFFICES ASSUME cli'.sent > 0, Head(cli.todo)[1] \in Strict
                 PROVE  IF call' = Idle THEN returned'.kind = "Ok" ELSE call'.status # "none"
    OBVIOUS
  <2>2. made \/ call.status # "none"
    BY <1>1, <1>3, <1>11, <2>1 DEF Harmed
  <2>3. CASE Goes
    BY <1>9, <2>2, <2>3
  <2>4. CASE Ends
    <3>1. call.status # "none"
      BY <1>8, <2>2, <2>4
    <3>2. returned'.kind = "Ok" /\ call' = Idle
      BY <1>1, <1>8, <2>4, <3>1, CallVerdict
    <3> QED
      BY <3>2
  <2> QED
    BY <1>7, <2>3, <2>4
<1>14. Harmed'
  BY <1>4, <1>12, <1>13 DEF Harmed
<1>15. Waiting'
  <2>1. What' = What
    BY <1>4 DEF What
  <2>2. CASE Goes
    BY <1>4, <1>6, <1>9, <2>1, <2>2 DEF Waiting
  <2>3. CASE Ends
    <3>1. /\ returned'.kind = "NetworkPassphraseMismatch" => What \notin Lookups
          /\ ~cli.dry /\ returned'.kind = "InvalidRequest" /\ returned'.detail = Text("not configured")
                => returned'.about = "registry"
      BY <1>1, <2>3, CallVerdict
    <3> QED
      BY <1>4, <1>6, <1>8, <2>1, <2>3, <3>1 DEF Waiting
  <2> QED
    BY <1>7, <2>2, <2>3
<1>16. Moved
  BY <1>4, <1>5 DEF Moved
<1>17. Fits(Group, cli'.todo) /\ (Group = "bulk" => cli'.left = << >> \/ HasEach(cli'.todo))
  BY <1>1, <1>4 DEF Running
<1> QED
  BY <1>1, <1>2, <1>4, <1>14, <1>15, <1>16, <1>17, MovesOn

\* The run ends with the error of a call: as it is, or as its text.
FailsAs(kind) ==
    /\ kind = returned.kind \/ (kind = "Text" /\ What \in Lookups)
    /\ cli' = Failed(cli, kind, returned.detail, SdkCause, SdkMissing)

LEMMA CallFails ==
    ASSUME ClientInv, CliInv, cli.at = "wait", call = Idle, returned # Nothing, ~Ok, Head(cli.todo)[1] \in Strict,
           NEW kind, FailsAs(kind), call' = Idle
    PROVE  CliInv'
<1>0. /\ kind = returned.kind \/ (kind = "Text" /\ What \in Lookups)
      /\ cli' = Failed(cli, kind, returned.detail, SdkCause, SdkMissing)
  BY DEF FailsAs
<1> DEFINE domain == error_domain(cli.cmd[1])
           advice == classify_error(kind, returned.detail, domain)
           wrong == returned.kind = "NetworkPassphraseMismatch"
           unset == ~wrong /\ returned.detail = Text("not configured")
<1>1. CliTypeOK /\ Harmed /\ Waiting /\ Result(returned)
  BY DEF CliInv, ClientInv, CallInv
<1>2. cli.sent = 0 /\ cli.cmd \in Commands /\ cli.sent \in Nat
  BY <1>1 DEF Harmed, Ok, CliTypeOK
<1>3. returned.kind \in {"InvalidRequest", "ContractError", "NetworkPassphraseMismatch"}
  BY <1>1 DEF Result, Ok
<1>4. advice # "none"
  BY <1>0, <1>1, <1>3, AdviceGiven
<1>5. unset => returned.kind = "InvalidRequest" /\ returned.about \in Contracts \cup {"passphrase"}
  <2>1. \A phrase \in Complaints : Text(phrase) # Text("not configured")
    BY DEF Complaints, Text
  <2>2. << "any", "NameNotFound" >> # Text("not configured")
    BY DEF Text
  <2> QED
    BY <1>1, <1>3, <2>1, <2>2 DEF Result
<1>6. unset => advice = "not configured"
  BY <1>0, <1>5, AdviceGiven
<1>7. wrong => advice = "NetworkPassphraseMismatch"
  BY <1>0, <1>1, AdviceGiven DEF Waiting
<1>8. unset /\ ~cli.dry => returned.about = "registry"
  BY <1>1, <1>5 DEF Waiting
<1>9. cli' = Ended(cli, "failed", SdkCause, SdkMissing, advice)
  BY <1>0 DEF Failed
<1>10. SdkCause = IF wrong THEN "wrong network" ELSE IF unset THEN "missing id" ELSE "refused"
  <2>1. wrong => returned.detail # Text("not configured")
    <3>1. Text("none") # Text("not configured")
      BY DEF Text
    <3> QED
      BY <1>1, <3>1 DEF Result
  <2> QED
    BY <2>1 DEF SdkCause
<1>11. SdkMissing = IF unset THEN returned.about ELSE "none"
  BY <1>10 DEF SdkMissing
<1> HIDE DEF advice, wrong, unset
<1>12. EndFits(cli, "failed", SdkCause, SdkMissing, advice)
  BY <1>2, <1>4, <1>5, <1>6, <1>7, <1>8, <1>10, <1>11 DEF EndFits
<1> QED
  BY <1>9, <1>12, EndsWell

\* The handler takes up what a call has returned.
LEMMA ResumeKeeps ==
    ASSUME ClientInv, CliInv, Resume
    PROVE  CliInv' /\ call' = Idle /\ UNCHANGED sdkVars
<1>1. /\ cli.at = "wait" /\ call = Idle /\ returned # Nothing /\ UNCHANGED sdkVars
      /\ CliShape /\ CliTypeOK /\ Running /\ Harmed /\ Waiting
  BY DEF Resume, DoLocal, CliInv
<1>2. call' = Idle /\ client' = client
  BY <1>1 DEF sdkVars
<1>. SUFFICES CliInv'
  BY <1>1, <1>2
<1>3. cli.todo # << >> /\ Head(cli.todo)[1] \in {"do", "wrapped", "try", "probe", "each"} /\ FitsStep(Group, Head(cli.todo))
  BY <1>1, FitsTail DEF Waiting, Calls, Running
<1>4. cli.sent > 0 => OnlyTried(Tail(cli.todo))
  BY <1>1 DEF Harmed
<1>5. CASE Head(cli.todo)[1] = "do"
  <2>1. cli' = AfterDo
    BY <1>5 DEF Resume
  <2>2. CASE Ok
    <3>1. cli' = [Onward EXCEPT !.absent = (returned.detail = Text("absent"))]
      BY <2>1, <2>2 DEF AfterDo
    <3> QED
      BY <1>1, <1>2, <1>3, <1>4, <1>5, <3>1, StepDone
  <2>3. CASE ~Ok
    <3>1. AfterDo = Failed(cli, returned.kind, returned.detail, SdkCause, SdkMissing)
      BY <2>3, Zenon DEF AfterDo
    <3>2. FailsAs(returned.kind)
      BY <2>1, <3>1 DEF FailsAs
    <3> QED
      BY <1>1, <1>2, <1>5, <2>3, <3>2, CallFails DEF Strict
  <2> QED
    BY <2>2, <2>3
<1>6. CASE Head(cli.todo)[1] = "wrapped"
  <2>1. cli' = AfterWrapped
    BY <1>6 DEF Resume
  <2>2. CASE Ok
    <3>1. cli' = Onward
      BY <2>1, <2>2 DEF AfterWrapped
    <3> QED
      BY <1>1, <1>2, <1>3, <1>4, <1>6, <3>1, StepIsDone
  <2>3. CASE ~Ok
    <3>1. What \in Lookups
      BY <1>3, <1>6 DEF FitsStep, What
    <3>2. FailsAs("Text")
      BY <2>1, <2>3, <3>1 DEF AfterWrapped, FailsAs
    <3> QED
      BY <1>1, <1>2, <1>6, <2>3, <3>2, CallFails DEF Strict
  <2> QED
    BY <2>2, <2>3
<1>7. CASE Head(cli.todo)[1] = "try"
  <2>1. cli' = Onward
    BY <1>7 DEF Resume, AfterTry
  <2> QED
    BY <1>1, <1>2, <1>3, <1>4, <1>7, <2>1, StepIsDone
<1>8. CASE Head(cli.todo)[1] = "probe"
  <2>1. returned.kind # "Transport"
    BY DEF ClientInv, CallInv, Result
  <2>2. cli' = Onward
    BY <1>8, <2>1 DEF Resume, AfterProbe
  <2> QED
    BY <1>1, <1>2, <1>3, <1>4, <1>8, <2>2, StepIsDone
<1>9. CASE Head(cli.todo)[1] = "each"
  <2>1. cli' = [cli EXCEPT !.at = "run", !.left = Tail(@)]
    BY <1>9 DEF Resume, AfterEach
  <2>2. /\ cli'.at = "run" /\ cli'.todo = cli.todo /\ cli'.sent = cli.sent
        /\ cli'.cmd = cli.cmd /\ cli'.dry = cli.dry /\ cli'.args = cli.args /\ cli'.given = cli.given
        /\ cli'.ids = cli.ids /\ cli'.cause = cli.cause /\ cli'.missing = cli.missing /\ cli'.advice = cli.advice
        /\ CliShape'
    BY <1>1, <2>1 DEF CliShape
  <2>3. Moved
    BY <1>1, <2>2 DEF Moved, CliTypeOK
  <2>4. HasEach(cli.todo) /\ (OnlyTried(Tail(cli.todo)) => OnlyTried(cli.todo))
    BY <1>1, <1>3, <1>9, FitsTail DEF Running
  <2>5. Harmed'
    BY <1>4, <2>2, <2>4 DEF Harmed
  <2>6. Fits(Group, cli'.todo) /\ HasEach(cli'.todo)
    BY <1>1, <2>2, <2>4 DEF Running
  <2> QED
    BY <1>1, <1>2, <2>2, <2>3, <2>5, <2>6, MovesOn
<1> QED
  BY <1>3, <1>5, <1>6, <1>7, <1>8, <1>9

-----------------------------------------------------------------------------
(* Runs start and end. *)

LEMMA SettingsTyped == \A setting \in Settings : setting.id \in IdStates
<1> SUFFICES ASSUME NEW l \in Layers PROVE layered(l) \in IdStates
  BY DEF Settings
<1>1. l["flag"] \in IdStates /\ l["env"] \in IdStates /\ l["network"] \in IdStates /\ l["default"] \in IdStates
  BY DEF Layers
<1> QED
  BY <1>1 DEF layered, apply, or

LEMMA ClientIdsGiven ==
    ASSUME NEW group, NEW ids \in [Contracts -> IdStates]
    PROVE  /\ ClientIds(group, ids) \in [Contracts -> IdStates]
           /\ \A c \in Own(group) : ClientIds(group, ids)[c] = ids[c]
<1>1. \A id \in IdStates : OrWord(id) \in IdStates
  BY DEF OrWord, IdStates
<1>2. "none" \in IdStates
  BY DEF IdStates
<1>3. ASSUME NEW c \in Contracts PROVE ClientIds(group, ids)[c] \in {OrWord(ids[c]), ids[c], "none"}
  BY <1>3 DEF ClientIds
<1>4. ClientIds(group, ids) = [c \in Contracts |-> ClientIds(group, ids)[c]]
  BY DEF ClientIds
<1>5. \A c \in Contracts : ClientIds(group, ids)[c] \in IdStates
  BY <1>1, <1>2, <1>3
<1>6. ASSUME NEW c \in Own(group) PROVE ClientIds(group, ids)[c] = ids[c]
  <2>1. c \in Contracts
    BY <1>6, OwnIsRequired
  <2>2. CASE group \in {"register", "renew", "quote", "bulk"}
    BY <1>6, <2>1, <2>2 DEF Own, ClientIds
  <2>3. CASE group \in {"subdomain", "bridge"}
    BY <1>6, <2>1, <2>3 DEF Own, ClientIds
  <2> QED
    BY <1>6, <2>2, <2>3 DEF Own
<1> QED
  BY <1>4, <1>5, <1>6

\* A run whose handler begins.
Began(cmd, dry, args, given, tty, ids, records) ==
    [Off EXCEPT !.at = "run", !.cmd = cmd, !.dry = dry, !.args = args, !.given = given, !.tty = tty,
                !.ids = ids, !.todo = Handler(cmd), !.left = records]

LEMMA BeganWith ==
    ASSUME NEW cmd, NEW dry, NEW args, NEW given, NEW tty, NEW ids, NEW records, NEW known
    PROVE  [Began(cmd, dry, args, given, tty, ids, records) EXCEPT !.ids = known]
               = Began(cmd, dry, args, given, tty, known, records)
<1> DEFINE todo == Handler(cmd)
<1> HIDE DEF todo
<1> QED
  BY DEF Began, todo

Begins(cmd, dry, args, given, tty, ids, records) ==
    /\ cmd \in Commands /\ args \in {"good", "bad", "unknown"} /\ given \in BOOLEAN
    /\ ids \in [Contracts -> {"none", "ok"}]
    /\ client'.passphrase /\ \A c \in Own(cmd[1]) : client'.ids[c] = ids[c]
    /\ ~dry => \A c \in required(cmd[1]) : ids[c] # "none"
    /\ cli' = Began(cmd, dry, args, given, tty, ids, records)

LEMMA HandlerBegins ==
    ASSUME NEW cmd, NEW dry, NEW args, NEW given, NEW tty, NEW ids, NEW records,
           Begins(cmd, dry, args, given, tty, ids, records)
    PROVE  CliInv' /\ cli'.at = "run"
<1>0. cmd \in Commands /\ args \in {"good", "bad", "unknown"} /\ given \in BOOLEAN
  BY DEF Begins
<1>1. /\ cli'.at = "run" /\ cli'.cmd = cmd /\ cli'.dry = dry /\ cli'.args = args /\ cli'.given = given
      /\ cli'.ids = ids /\ cli'.todo = Handler(cmd) /\ cli'.left = records /\ cli'.sent = 0
      /\ cli'.cause = "none" /\ cli'.missing = "none" /\ cli'.advice = "none" /\ CliShape'
  BY DEF Begins, Began, Off, CliShape
<1>2. CliTypeOK'
  BY <1>0, <1>1 DEF Begins, CliTypeOK
<1>3. MissingIdOnlyRegistry' /\ AdviceFits' /\ ExitStatusTrue'
  BY <1>1 DEF MissingIdOnlyRegistry, AdviceFits, ExitStatusTrue
<1>4. Fits(cmd[1], Handler(cmd)) /\ (cmd[1] = "bulk" => HasEach(Handler(cmd)))
  BY <1>0, HandlersFit
<1>5. Running'
  BY <1>1, <1>4 DEF Running, Group, Begins
<1>6. Harmed'
  BY <1>1 DEF Harmed
<1> QED
  BY <1>1, <1>2, <1>3, <1>5, <1>6 DEF CliInv

LEMMA StartKeeps ==
    ASSUME ClientInv, call = Idle,
           NEW cmd \in Commands, NEW dry \in BOOLEAN, NEW args \in {"good", "bad", "unknown"}, NEW url \in BOOLEAN,
           NEW odd, NEW setting \in Settings, NEW rest \in {"none", "ok"}, NEW broken, NEW signer,
           NEW given \in BOOLEAN, NEW tty, NEW records,
           Start(cmd, dry, args, url, odd, setting, rest, broken, signer, given, tty, records)
    PROVE  ClientInv' /\ CliInv' /\ call' = Idle
<1> DEFINE ids   == [c \in Contracts |-> IF c = odd THEN setting.id ELSE rest]
           flags == IF setting.flag THEN {odd} ELSE {}
           unset == [c \in Contracts |-> "none"]
           Run(known) == Began(cmd, dry, args, given, tty, known, records)
           run   == Run(ids)
<1>1. /\ client' = new(url, TRUE, ClientIds(cmd[1], ids))
      /\ call' = call /\ rpc' = rpc /\ returned' = returned
  BY DEF Start
<1>2. cli' = IF cmd[1] = "completions" THEN [run EXCEPT !.ids = Off.ids]
             ELSE IF broken \/ ~valid_config(ids) THEN Says(run, "no config", "config", "none")
             ELSE IF ~dry /\ ~(flags \subseteq allowed[cmd[1]]) THEN Says(run, "flag not allowed", "policy", "none")
             ELSE IF ~dry /\ \E c \in required(cmd[1]) : ids[c] = "none"
                  THEN Says(run, "contract required", "policy", "none")
             ELSE IF ~signer THEN Says(run, "no profile", "signer", "none")
             ELSE run
  BY Zenon DEF Start, Began
<1>3. Off.ids = unset /\ [run EXCEPT !.ids = unset] = Run(unset)
  <2>1. Off.ids = unset
    BY DEF Off
  <2> HIDE DEF unset, ids
  <2> QED
    BY <2>1, BeganWith
<1>4. run.cmd \in Commands /\ run.cmd = cmd /\ run.sent = 0 /\ run.sent \in Nat
  BY DEF Began, Off
<1>5. ids \in [Contracts -> IdStates]
  BY SettingsTyped DEF IdStates
<1>6. unset \in [Contracts -> {"none", "ok"}]
  OBVIOUS
<1> HIDE DEF ids, flags, unset, Run, run
<1> DEFINE nofile == broken \/ ~valid_config(ids)
           notallowed == ~dry /\ ~(flags \subseteq allowed[cmd[1]])
           notset == ~dry /\ \E c \in required(cmd[1]) : ids[c] = "none"
           nosigner == ~signer
<1>e. \/ cmd[1] = "completions" /\ cli' = Run(unset)
      \/ cli' = Says(run, "no config", "config", "none")
      \/ cli' = Says(run, "flag not allowed", "policy", "none")
      \/ cli' = Says(run, "contract required", "policy", "none")
      \/ cli' = Says(run, "no profile", "signer", "none")
      \/ cli' = run /\ ~nofile /\ ~notset
  <2>1. cli' = IF cmd[1] = "completions" THEN Run(unset)
               ELSE IF nofile THEN Says(run, "no config", "config", "none")
               ELSE IF notallowed THEN Says(run, "flag not allowed", "policy", "none")
               ELSE IF notset THEN Says(run, "contract required", "policy", "none")
               ELSE IF nosigner THEN Says(run, "no profile", "signer", "none")
               ELSE run
    BY <1>2, <1>3, Zenon
  <2> HIDE DEF nofile, notallowed, notset, nosigner
  <2> QED
    BY <2>1
<1>7. ClientIds(cmd[1], ids) \in [Contracts -> IdStates] /\ \A c \in Own(cmd[1]) : ClientIds(cmd[1], ids)[c] = ids[c]
  BY <1>5, ClientIdsGiven
<1>8. client' \in Clients /\ client'.passphrase /\ client'.ids = ClientIds(cmd[1], ids)
  BY <1>1, <1>7 DEF new, Clients
<1>9. ClientInv'
  BY <1>1, <1>8 DEF ClientInv, NetworkInv, WrongNetworkEnds, StatusInv, CallShape, StatusEarned,
                    RequestsCounted, RequestsBounded, CallInv, FromSteps, Step
<1>. SUFFICES CliInv'
  BY <1>1, <1>9
<1>10. ASSUME NEW phrase, NEW cause \in {"config", "policy", "signer"}, cli' = Says(run, phrase, cause, "none")
       PROVE  CliInv'
  <2>1. SaysFits(run, phrase, cause, "none")
    BY <1>4, <1>10 DEF SaysFits
  <2> QED
    BY <1>1, <1>10, <2>1, SaysWell
<1>11. CASE cmd[1] = "completions" /\ cli' = Run(unset)
  <2>1. Own(cmd[1]) = {} /\ required(cmd[1]) = {}
    BY <1>11 DEF Own, required
  <2>2. /\ \A c \in Own(cmd[1]) : client'.ids[c] = unset[c]
        /\ ~dry => \A c \in required(cmd[1]) : unset[c] # "none"
    BY <2>1
  <2>3. Begins(cmd, dry, args, given, tty, unset, records)
    BY <1>6, <1>8, <1>11, <2>2 DEF Begins, Run
  <2> QED
    BY <2>3, HandlerBegins, Zenon
<1>12. CASE cli' = run /\ ~nofile /\ ~notset
  <2>0. valid_config(ids) /\ (~dry => \A c \in required(cmd[1]) : ids[c] # "none")
    BY <1>12, Zenon
  <2>1. ids \in [Contracts -> {"none", "ok"}]
    BY <1>5, <2>0 DEF valid_config, IdStates
  <2>2. \A c \in Own(cmd[1]) : client'.ids[c] = ids[c]
    BY <1>7, <1>8
  <2>3. Begins(cmd, dry, args, given, tty, ids, records)
    BY <1>8, <1>12, <2>0, <2>1, <2>2 DEF Begins, run, Run
  <2> QED
    BY <2>3, HandlerBegins, Zenon
<1> QED
  BY <1>e, <1>10, <1>11, <1>12

\* Before a run, and when the client is made anew.
LEMMA OffFits == (cli = Off => CliInv) /\ (cli' = Off => CliInv')
<1>0. /\ Off.at = "off" /\ Off.cmd = << "completions", "run" >> /\ Off.args = "good" /\ Off.given \in BOOLEAN
      /\ Off.ids = [c \in Contracts |-> "none"] /\ Off.sent = 0 /\ Off.cause = "none"
      /\ Off.missing = "none" /\ Off.advice = "none"
  BY DEF Off
<1>1. << "completions", "run" >> \in Commands
  <2>1. "completions" \in DOMAIN Handlers /\ "run" \in DOMAIN Handlers["completions"]
    BY DEF Handlers
  <2> QED
    BY <2>1 DEF Commands
<1>2. [c \in Contracts |-> "none"] \in [Contracts -> {"none", "ok"}]
  OBVIOUS
<1>3. (cli = Off => CliShape) /\ (cli' = Off => CliShape')
  BY DEF CliShape, Off
<1>4. (cli = Off => CliTypeOK) /\ (cli' = Off => CliTypeOK')
  <2>1. /\ Off.at \in {"off", "run", "wait", "ok", "failed", "panic"} /\ Off.cmd \in Commands
        /\ Off.args \in {"good", "bad", "unknown"} /\ Off.ids \in [Contracts -> {"none", "ok"}]
        /\ Off.sent \in Nat /\ Off.missing \in Contracts \cup {"none", "passphrase"}
        /\ (Off.at = "failed") <=> (Off.advice # "none")
        /\ Off.at \notin {"ok", "failed", "panic"}
    BY <1>0, <1>1, <1>2
  <2> QED
    BY <1>0, <2>1 DEF CliTypeOK
<1>5. /\ cli = Off => MissingIdOnlyRegistry /\ AdviceFits /\ ExitStatusTrue
      /\ cli' = Off => MissingIdOnlyRegistry' /\ AdviceFits' /\ ExitStatusTrue'
  BY <1>0 DEF MissingIdOnlyRegistry, AdviceFits, ExitStatusTrue
<1> QED
  BY <1>0, <1>3, <1>4, <1>5 DEF CliInv

LEMMA FreshClient ==
    /\ client \in Clients /\ call = Idle /\ rpc = Silence /\ returned = Nothing => ClientInv
    /\ client' \in Clients /\ call' = Idle /\ rpc' = Silence /\ returned' = Nothing => ClientInv'
<1>1. 0 <= MaxRetries /\ 0 <= 3 * (MaxRetries + 1) /\ ~(0 > 0)
  BY RetryAssumption
<1>2. Result(Nothing)
  BY DEF Result, Nothing
<1>3. Silence \in Heardable /\ Silence.network = "unasked" /\ Silence.requests = 0 /\ Silence.attempt = 0
  BY DEF Silence, Heardable
<1> QED
  BY <1>1, <1>2, <1>3, IdleShape
     DEF ClientInv, NetworkInv, WrongNetworkEnds, StatusInv, CallShape, StatusEarned, RequestsCounted,
         RequestsBounded, CallInv, FromSteps, Statuses

\* The client alone does not see what else stands still.
LEMMA ClientStands == ClientInv /\ UNCHANGED sdkVars => ClientInv'
  BY DEF sdkVars, ClientInv, NetworkInv, WrongNetworkEnds, StatusInv, CallShape, StatusEarned,
         RequestsCounted, RequestsBounded, CallInv, FromSteps, Step

LEMMA CliStands == CliInv /\ UNCHANGED cliVars => CliInv'
<1> SUFFICES ASSUME CliInv, UNCHANGED cliVars PROVE CliInv'
  OBVIOUS
<1>1. cli' = cli /\ client' = client /\ call' = call /\ returned' = returned
  BY DEF cliVars, sdkVars
<1>2. CliShape' /\ CliTypeOK'
  BY <1>1 DEF CliInv, CliShape, CliTypeOK
<1>3. MissingIdOnlyRegistry' /\ AdviceFits' /\ ExitStatusTrue'
  BY <1>1 DEF CliInv, MissingIdOnlyRegistry, AdviceFits, ExitStatusTrue
<1>4. (Running => Running') /\ (Harmed => Harmed')
  BY <1>1 DEF Running, Group, Harmed
<1>5. Waiting => Waiting'
  BY <1>1 DEF Waiting, What
<1> QED
  BY <1>1, <1>2, <1>3, <1>4, <1>5 DEF CliInv

\* Clients that an application may have made are clients.
LEMMA MadeClients == SomeClients \subseteq Clients /\ Unmade \in Clients
<1>1. \A url, passphrase \in BOOLEAN : \A ids \in [Contracts -> IdStates] : new(url, passphrase, ids) \in Clients
  BY DEF new, Clients
<1>2. \A c : \A id \in {"none", "ok"} :
          [d \in Contracts |-> IF d = c THEN id ELSE "ok"] \in [Contracts -> IdStates]
  BY DEF IdStates
<1>3. /\ [c \in Contracts |-> "bad"] \in [Contracts -> IdStates]
      /\ [c \in Contracts |-> "ok"] \in [Contracts -> IdStates]
  BY DEF IdStates
<1>4. TRUE \in BOOLEAN
  OBVIOUS
<1>5. \A odd \in Contracts, id \in {"none", "ok"} : OddClient(odd, id) \in Clients
  BY <1>1, <1>2, <1>4 DEF OddClient
<1>6. AllBadClient \in Clients /\ \A url, passphrase \in BOOLEAN : AllOkClient(url, passphrase) \in Clients
  BY <1>1, <1>3, <1>4 DEF AllBadClient, AllOkClient
<1>7. Unmade \in Clients
  BY <1>1, <1>3, <1>4 DEF Unmade
<1> QED
  BY <1>5, <1>6, <1>7 DEF SomeClients

-----------------------------------------------------------------------------
(* The programs together. *)

\* While another part runs there is no run of the command line, and while one of
\* its runs is at a step of its own the client is idle.
PartsInv ==
    /\ ClientInv /\ CliInv
    /\ part = "cli" /\ cli.at # "wait" => call = Idle
    /\ part # "cli" => cli = Off
    /\ thrown[1] \in Contracts

LEMMA PartsStart == Init => PartsInv
<1> SUFFICES ASSUME Init PROVE PartsInv
  OBVIOUS
<1>1. cli = Off /\ call = Idle /\ rpc = Silence /\ returned = Nothing /\ client \in SomeClients \cup {Unmade}
  BY DEF Init, CliInit, ClientInit
<1>2. ClientInv /\ CliInv
  BY <1>1, FreshClient, MadeClients, OffFits
<1>3. thrown[1] \in Contracts
  BY DEF Init, Contracts
<1> QED
  BY <1>1, <1>2, <1>3 DEF PartsInv

LEMMA CliPartKeeps ==
    ASSUME ClientInv, CliInv, cli.at # "wait" => call = Idle, CliStep
    PROVE  ClientInv' /\ CliInv' /\ (cli'.at # "wait" => call' = Idle)
<1>1. CASE AnyStart
  <2>1. cli = Off /\ call = Idle
    BY <1>1 DEF AnyStart, Off
  <2>2. PICK cmd \in Commands, dry \in BOOLEAN, args \in {"good", "bad", "unknown"},
             setting \in Settings, rest \in {"none", "ok"} :
        \E odd \in Odd(cmd),
           url \in IF setting = [id |-> "ok", flag |-> FALSE] /\ rest = "ok" THEN BOOLEAN ELSE {TRUE},
           broken \in BOOLEAN,
           signer \in IF cmd \in Signed THEN BOOLEAN ELSE {TRUE},
           given \in IF cmd[1] = "register" /\ args # "bad" THEN BOOLEAN ELSE {TRUE},
           tty \in IF cmd[1] = "register" THEN BOOLEAN ELSE {TRUE},
           records \in IF cmd[1] = "bulk" THEN Records ELSE {<< >>} :
            Start(cmd, dry, args, url, odd, setting, rest, broken, signer, given, tty, records)
    BY <1>1, Zenon DEF AnyStart
  <2> DEFINE Urls    == IF setting = [id |-> "ok", flag |-> FALSE] /\ rest = "ok" THEN BOOLEAN ELSE {TRUE}
             Signers == IF cmd \in Signed THEN BOOLEAN ELSE {TRUE}
             Givens  == IF cmd[1] = "register" /\ args # "bad" THEN BOOLEAN ELSE {TRUE}
             Ttys    == IF cmd[1] = "register" THEN BOOLEAN ELSE {TRUE}
             Lists   == IF cmd[1] = "bulk" THEN Records ELSE {<< >>}
  <2>3. Urls \subseteq BOOLEAN /\ Givens \subseteq BOOLEAN
    OBVIOUS
  <2>4. PICK odd \in Odd(cmd), url \in Urls, broken \in BOOLEAN, signer \in Signers,
             given \in Givens, tty \in Ttys, records \in Lists :
            Start(cmd, dry, args, url, odd, setting, rest, broken, signer, given, tty, records)
    BY <2>2, Zenon
  <2>5. url \in BOOLEAN /\ given \in BOOLEAN
    BY <2>3
  <2> HIDE DEF Urls, Signers, Givens, Ttys, Lists
  <2>6. ClientInv' /\ CliInv' /\ call' = Idle
    BY <2>1, <2>4, <2>5, StartKeeps, Zenon
  <2> QED
    BY <2>6
<1>2. CASE HandlerStep
  <2>1. CASE LocalStep
    <3>1. CliInv' /\ (cli'.at # "wait" => call' = Idle) /\ UNCHANGED sdkVars
      BY <2>1, LocalKeeps
    <3> QED
      BY <3>1, ClientStands
  <2>2. CASE CallSdk
    BY <2>2, CallSdkKeeps
  <2>3. CASE Resume
    BY <2>3, ResumeKeeps, ClientStands
  <2> QED
    BY <1>2, <2>1, <2>2, <2>3 DEF HandlerStep, LocalStep
<1>3. CASE InSdk
  BY <1>3, InSdkKeeps
<1>4. CASE Exit
  <2>1. cli' = Off /\ call' = Idle /\ rpc' = Silence /\ returned' = Nothing /\ client' = Unmade
    BY <1>4 DEF Exit
  <2> QED
    BY <2>1, FreshClient, MadeClients, OffFits
<1> QED
  BY <1>1, <1>2, <1>3, <1>4 DEF CliStep

LEMMA AppPartKeeps ==
    ASSUME ClientInv, AppStep
    PROVE  ClientInv' /\ cli' = cli
<1>1. CASE AnyCall
  <2>1. PICK m \in Methods, args \in {"good", "bad", "unknown"}, dry \in BOOLEAN : Invoke(m, args, dry)
    BY <1>1 DEF AnyCall, ArgsOf
  <2> QED
    BY <2>1, InvokeSound DEF AppStep
<1>2. CASE ClientStep
  BY <1>2, ClientStepSound DEF AppStep
<1> QED
  BY <1>1, <1>2 DEF AppStep

LEMMA PartsKeep == PartsInv /\ [Next]_standaloneVars => PartsInv'
<1> SUFFICES ASSUME PartsInv, [Next]_standaloneVars PROVE PartsInv'
  OBVIOUS
<1>1. ASSUME UNCHANGED << cliVars, part >>, thrown'[1] \in Contracts PROVE PartsInv'
  <2>1. cli' = cli /\ call' = call /\ part' = part /\ UNCHANGED sdkVars
    BY <1>1 DEF cliVars, sdkVars
  <2>2. ClientInv' /\ CliInv'
    BY <1>1, <2>1, ClientStands, CliStands DEF PartsInv
  <2> QED
    BY <1>1, <2>1, <2>2 DEF PartsInv
<1>2. CASE CliOnly(CliStep)
  <2>1. part = "cli" /\ part' = "cli" /\ thrown' = thrown /\ CliStep
    BY <1>2 DEF CliOnly
  <2> QED
    BY <2>1, CliPartKeeps DEF PartsInv
<1>3. CASE AppOnly(AppStep)
  <2>1. part = "app" /\ part' = "app" /\ thrown' = thrown /\ AppStep
    BY <1>3 DEF AppOnly
  <2>2. ClientInv' /\ cli' = Off
    BY <2>1, AppPartKeeps DEF PartsInv
  <2> QED
    BY <2>1, <2>2, OffFits DEF PartsInv
<1>4. CASE PortfolioOnly(PortfolioStep) \/ WatchOnly(WatchStep) \/ MonitorOnly(MonitorStep)
  BY <1>1, <1>4 DEF PortfolioOnly, WatchOnly, MonitorOnly, PartsInv
<1>5. CASE IngestionOnly(IngestionNext) \/ BridgeOnly(BridgeNext)
  BY <1>1, <1>5 DEF IngestionOnly, BridgeOnly, PartsInv
<1>6. CASE ErrorsOnly(Throws)
  BY <1>1, <1>6 DEF ErrorsOnly, Throws
<1>7. CASE UNCHANGED standaloneVars
  BY <1>1, <1>7 DEF standaloneVars, PartsInv
<1> QED
  BY <1>2, <1>3, <1>4, <1>5, <1>6, <1>7 DEF Next

LEMMA PartsAreSound == Spec => []PartsInv
  BY PartsStart, PartsKeep, PTL DEF Spec

\* The ingestion is not disturbed by the other parts.
LEMMA IngestionAlone == Spec => IngestionSpec
<1>1. Init => IngestionInit
  BY DEF Init
<1>2. [Next]_standaloneVars => [IngestionNext]_ingestionVars
  BY DEF Next, CliOnly, AppOnly, PortfolioOnly, WatchOnly, MonitorOnly, IngestionOnly, BridgeOnly, ErrorsOnly, standaloneVars
<1> QED
  BY <1>1, <1>2, PTL DEF Spec, IngestionSpec

\* Whatever the user, the server and the validator do, the variables of the client,
\* of the command line and of the supervisor hold only what the code can put
\* there; a run of the command line reports an advice exactly when it has failed.
THEOREM ProgramTypesHold == Spec => []ProgramTypeOK
<1>1. PartsInv => ClientTypeOK /\ CliTypeOK
  BY ClientTypes DEF PartsInv, CliInv
<1>2. ClientTypeOK /\ CliTypeOK /\ IngestionTypeOK => ProgramTypeOK
  BY DEF ProgramTypeOK
<1> QED
  BY <1>1, <1>2, PartsAreSound, IngestionAlone, IngestionTypeCorrect, PTL

\* However often requests fail and the process dies, a call of the client asks the
\* server no more than its three waits and the retry limit allow, also inside a
\* run of the command line, and next_ledger starts the process no more than
\* max_restart_attempts + 1 times, if restart_backoff is not zero.
THEOREM RetriesAreBounded == HasBackoff /\ Spec => []RetriesBounded
<1>1. PartsInv => RequestsBounded
  BY ClientTypes DEF PartsInv
<1>2. RequestsBounded /\ StartsBounded => RetriesBounded
  BY DEF RetriesBounded
<1> QED
  BY <1>1, <1>2, PartsAreSound, IngestionAlone, StartsAreBounded, PTL

\* Once run_with_cli has checked its ids against the policy, no handler panics for
\* want of one and only the registry's can still turn out to be missing,
\* whichever command runs and however the file, the environment and the flags
\* were layered.
THEOREM MissingIdIsRegistry == Spec => []MissingIdOnlyRegistry
<1>1. PartsInv => MissingIdOnlyRegistry
  BY DEF PartsInv, CliInv
<1> QED
  BY <1>1, PartsAreSound, PTL

\* The advice of handle_error is the one for what went wrong, whether the error came
\* as an error of the SDK, as its text or from the command line itself, and the
\* number a contract throws gets the same advice on both of its ways.
THEOREM AdviceIsRight == Spec => []AdviceRight
<1>1. ASSUME PartsInv PROVE CodesAgree
  <2>1. thrown[1] \in Contracts
    BY <1>1 DEF PartsInv
  <2> QED
    BY <2>1, AdviceAgrees DEF CodesAgree, decode_error
<1>2. PartsInv => AdviceFits
  BY DEF PartsInv, CliInv
<1>3. PartsInv => AdviceRight
  BY <1>1, <1>2 DEF AdviceRight
<1> QED
  BY <1>3, PartsAreSound, PTL

\* A run that exits with an error has made no transaction, whichever step failed, and
\* a bulk command that exits without one has tried every record of its file,
\* whatever became of those before.
THEOREM ExitStatusIsTrue == Spec => []ExitStatusTrue
<1>1. PartsInv => ExitStatusTrue
  BY DEF PartsInv, CliInv
<1> QED
  BY <1>1, PartsAreSound, PTL

============================================================================
