------------------------------- MODULE Bridge -------------------------------
(***************************************************************************)
(* The bridge contract (contracts/bridge/src/lib.rs): the destination      *)
(* chains an administrator supports, the routes made from them, and the    *)
(* listing of supported chains.  A message is built from the route of its  *)
(* chain; its text is left out.                                            *)
(***************************************************************************)
EXTENDS Naturals, Sequences, SequencesExt

CONSTANTS
    Chains,         \* names that pass validate_chain_name_soroban
    Endpoints,      \* non-empty resolver addresses on a destination chain
    BridgeAdmins,   \* accounts that may be made the administrator
    NO_VALUE

ASSUME BridgeAssumption == NO_VALUE \notin Endpoints \cup BridgeAdmins

VARIABLES
    supported,      \* DataKey::SupportedChain: resolver_address
    chain_ids,      \* DataKey::SupportedChainIds
    routes,         \* DataKey::Route: destination_resolver
    bridge_admin    \* DataKey::Admin

bridgeVars == << supported, chain_ids, routes, bridge_admin >>

Supported(c) == supported[c] # NO_VALUE

BridgeInit ==
    /\ supported = [c \in Chains |-> NO_VALUE]
    /\ chain_ids = <<>>
    /\ routes = [c \in Chains |-> NO_VALUE]
    /\ bridge_admin = NO_VALUE

InitializeBridge(a) ==
    /\ bridge_admin = NO_VALUE
    /\ bridge_admin' = a
    /\ UNCHANGED << supported, chain_ids, routes >>

\* register_chain: a route copies the endpoint of a supported chain.
RegisterChain(c) ==
    /\ bridge_admin # NO_VALUE
    /\ Supported(c)
    /\ routes' = [routes EXCEPT ![c] = supported[c]]
    /\ UNCHANGED << supported, chain_ids, bridge_admin >>

not_supported_yet(c) == ~Supported(c)

AddSupportedChain(c, resolver_address) ==
    /\ bridge_admin # NO_VALUE
    /\ not_supported_yet(c)
    /\ supported' = [supported EXCEPT ![c] = resolver_address]
    /\ chain_ids' = Append(chain_ids, c)
    /\ UNCHANGED << routes, bridge_admin >>

\* Faulty variant: the route outlives the chain.
drop_route_forgotten(c) == routes

drop_route(c) == [routes EXCEPT ![c] = NO_VALUE]

\* The loop of remove_supported_chain over the listing.
remaining(ids, c) ==
    LET kept[n \in 0 .. Len(ids)] ==
            IF n = 0 THEN << >>
            ELSE IF ids[n] = c THEN kept[n - 1] ELSE Append(kept[n - 1], ids[n])
    IN  kept[Len(ids)]

RemoveSupportedChain(c) ==
    /\ bridge_admin # NO_VALUE
    /\ Supported(c)
    /\ supported' = [supported EXCEPT ![c] = NO_VALUE]
    /\ chain_ids' = remaining(chain_ids, c)
    /\ routes' = drop_route(c)
    /\ UNCHANGED bridge_admin

BridgeNext ==
    \/ \E a \in BridgeAdmins : InitializeBridge(a)
    \/ \E c \in Chains :
        \/ RegisterChain(c)
        \/ RemoveSupportedChain(c)
        \/ \E e \in Endpoints : AddSupportedChain(c, e)

BridgeSpec == BridgeInit /\ [][BridgeNext]_bridgeVars

\* build_message and build_reverse_message address the endpoint of the route, or
\* fail without one.
destination(c) == routes[c]

-----------------------------------------------------------------------------
(* Safety. *)

\* A message is never addressed to an endpoint other than the one its chain is
\* supported with now, nor to a chain that was removed, however often chains are
\* added, routed, removed and added again with another endpoint; the listing of
\* get_supported_chains names every supported chain once.
RoutesCurrent ==
    /\ \A c \in Chains : destination(c) # NO_VALUE => destination(c) = supported[c]
    /\ IsInjective(chain_ids)
    /\ Range(chain_ids) = {c \in Chains : Supported(c)}

=============================================================================
