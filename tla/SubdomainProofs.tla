--------------------------- MODULE SubdomainProofs ---------------------------
(* The namespaces of the subdomain contract, for every value of the constants. *)
EXTENDS Subdomain, TLAPS

\* A subdomain is always recorded under the base of its own name.
ParentFixed == \A s \in Subs : Exists(s) => subdomains[s].parent = ParentOf[s]

NamespaceInv == SubdomainTypeOK /\ ParentFixed /\ SubdomainIndexExact

-----------------------------------------------------------------------------
(* The effects of the calls on a namespace. *)

\* A purge: every subdomain of p is gone, and nothing else changed.
Emptied(p) ==
    /\ subdomains' = [s \in Subs |->
          IF Exists(s) /\ subdomains[s].parent = p THEN NONE ELSE subdomains[s]]
    /\ parents' \in [Names -> ParentDomain \cup {NONE}]
    /\ \A q \in Names \ {p} : parents'[q] = parents[q]
    /\ parent_subdomains' = [parent_subdomains EXCEPT ![p] = {}]
    /\ owner_subdomains' = [a \in Addresses |->
          owner_subdomains[a] \ {s \in Subs : /\ Exists(s) /\ subdomains[s].parent = p
                                              /\ subdomains[s].owner = a}]

\* A call on one subdomain, or on the controllers of one parent.
ParentsKept ==
    /\ parents' \in [Names -> ParentDomain \cup {NONE}]
    /\ \A p \in Names : HasParent(p) => HasParent(p)' /\ parents'[p].owner = parents[p].owner

Created(s, owner) ==
    /\ ~Exists(s) /\ HasParent(ParentOf[s])
    /\ subdomains' = [subdomains EXCEPT ![s] = [parent |-> ParentOf[s], owner |-> owner]]
    /\ parent_subdomains' = [parent_subdomains EXCEPT ![ParentOf[s]] = @ \cup {s}]
    /\ owner_subdomains' = [owner_subdomains EXCEPT ![owner] = @ \cup {s}]
    /\ UNCHANGED parents

HandedOn(s, owner) ==
    /\ Exists(s)
    /\ invoker' = subdomains[s].owner
    /\ subdomains' = [subdomains EXCEPT ![s] = [parent |-> ParentOf[s], owner |-> owner]]
    /\ owner_subdomains' = reindex_owner_subdomain(subdomains[s].owner, owner, s)
    /\ UNCHANGED << parents, parent_subdomains >>

Deleted(s) ==
    /\ Exists(s)
    /\ may_delete(s, invoker')
    /\ subdomains' = [subdomains EXCEPT ![s] = NONE]
    /\ parent_subdomains' = [parent_subdomains EXCEPT ![ParentOf[s]] = @ \ {s}]
    /\ owner_subdomains' = [owner_subdomains EXCEPT ![subdomains[s].owner] = @ \ {s}]
    /\ UNCHANGED parents

\* A takeover or a query of a parent that is not active.
Cause(p) ==
    \/ ~parent_is_active(p)
    \/ /\ HasParent(p) /\ HasParent(p)' /\ parents'[p].owner # parents[p].owner
       /\ Registered(p) /\ parents'[p].owner = entries[p].owner

NamespaceEffect ==
    \/ UNCHANGED << subdomains, parent_subdomains, owner_subdomains >> /\ ParentsKept
    \/ \E p \in Names : Emptied(p) /\ Cause(p)
    \/ \E s \in Subs, owner \in Users : Created(s, owner) \/ HandedOn(s, owner)
    \/ \E s \in Subs : Deleted(s)

\* What purge_parent_namespace leaves behind, given an exact index.
LEMMA PurgeEffect ==
    ASSUME NamespaceInv, NEW p \in Names, NEW record \in ParentDomain \cup {NONE},
           NEW found \in SUBSET {s \in Subs : Exists(s) /\ subdomains[s].parent = p},
           purge_parent_namespace(p, found, record)
    PROVE  Emptied(p) /\ parents'[p] = record
<1> DEFINE gone == {s \in parent_subdomains[p] \cup found : Exists(s)}
<1>1. gone = {s \in Subs : Exists(s) /\ subdomains[s].parent = p}
  BY DEF NamespaceInv, SubdomainIndexExact, SubdomainTypeOK
<1>2. /\ subdomains' = [s \in Subs |-> IF s \in gone THEN NONE ELSE subdomains[s]]
      /\ owner_subdomains' = [a \in Addresses |->
            owner_subdomains[a] \ {s \in gone : subdomains[s].owner = a}]
      /\ parent_subdomains' = [parent_subdomains EXCEPT ![p] = {}]
      /\ parents' = [parents EXCEPT ![p] = record]
  BY DEF purge_parent_namespace
<1> HIDE DEF gone
<1>3. subdomains' = [s \in Subs |->
          IF Exists(s) /\ subdomains[s].parent = p THEN NONE ELSE subdomains[s]]
  BY <1>1, <1>2
<1>4. \A a : {s \in gone : subdomains[s].owner = a} =
             {s \in Subs : /\ Exists(s) /\ subdomains[s].parent = p /\ subdomains[s].owner = a}
  BY <1>1
<1>5. owner_subdomains' = [a \in Addresses |->
          owner_subdomains[a] \ {s \in Subs : /\ Exists(s) /\ subdomains[s].parent = p
                                              /\ subdomains[s].owner = a}]
  BY <1>2, <1>4
<1>6. /\ parents' \in [Names -> ParentDomain \cup {NONE}]
      /\ \A q \in Names \ {p} : parents'[q] = parents[q]
      /\ parents'[p] = record
  BY <1>2 DEF NamespaceInv, SubdomainTypeOK
<1> QED
  BY <1>2, <1>3, <1>5, <1>6 DEF Emptied

\* Every entrypoint of the contract has one of the effects.
LEMMA CallEffect ==
    ASSUME NamespaceInv, SubdomainNext
    PROVE  NamespaceEffect
<1> USE SubdomainAssumption
<1>a. /\ parents \in [Names -> ParentDomain \cup {NONE}]
      /\ subdomains \in [Subs -> SubdomainRecord \cup {NONE}]
      /\ Users \subseteq Addresses
  BY DEF NamespaceInv, SubdomainTypeOK, Addresses
<1>b. \A s \in Subs : Exists(s) =>
        /\ subdomains[s] \in SubdomainRecord
        /\ subdomains[s].parent = ParentOf[s]
        /\ ParentOf[s] \in Names
        /\ subdomains[s].owner \in Addresses
  BY <1>a DEF Exists, NamespaceInv, ParentFixed, SubdomainRecord
<1>c. \A p \in Names : HasParent(p) => /\ parents[p] \in ParentDomain
                                       /\ parents[p].controllers \subseteq Addresses
  BY <1>a DEF HasParent, ParentDomain
<1>1. CASE \/ \E a \in SubdomainAdmins : SubdomainInitialize(a)
           \/ SetRegistryContract
           \/ \E d \in Depths : SetMaxDepth(d)
  <2>1. UNCHANGED << parents, subdomains, parent_subdomains, owner_subdomains >>
    BY <1>1 DEF SubdomainInitialize, SetRegistryContract, SetMaxDepth, namespaceVars
  <2> QED
    BY <1>a, <2>1 DEF NamespaceEffect, ParentsKept, HasParent
<1>2. ASSUME NEW p \in Names, QueryParent(p)
      PROVE  NamespaceEffect
  <2>1. {} \in SUBSET {s \in Subs : Exists(s) /\ subdomains[s].parent = p}
    OBVIOUS
  <2>2. Emptied(p)
    BY <1>2, <2>1, PurgeEffect DEF QueryParent
  <2> QED
    BY <1>2, <2>2 DEF QueryParent, NamespaceEffect, Cause
<1>3. ASSUME NEW s \in Subs, QueryRecord(s)
      PROVE  NamespaceEffect
  <2> DEFINE p == subdomains[s].parent
  <2>1. p \in Names /\ {s} \in SUBSET {t \in Subs : Exists(t) /\ subdomains[t].parent = p}
    BY <1>3, <1>b DEF QueryRecord
  <2>2. Emptied(p)
    BY <1>3, <2>1, PurgeEffect DEF QueryRecord
  <2> QED
    BY <1>3, <2>1, <2>2 DEF QueryRecord, NamespaceEffect, Cause
<1>4. ASSUME NEW p \in Names, NEW a \in Users, RegisterParent(p, a)
      PROVE  NamespaceEffect
  <2> DEFINE record == [owner |-> a, controllers |-> {}]
  <2>1. record \in ParentDomain /\ record.owner = a /\ record # NONE
    BY <1>a DEF ParentDomain
  <2> HIDE DEF record
  <2>2. CASE HasParent(p)
    <3>1. purge_parent_namespace(p, {}, record)
      BY <1>4, <2>2 DEF RegisterParent, record
    <3>2. {} \in SUBSET {s \in Subs : Exists(s) /\ subdomains[s].parent = p}
      OBVIOUS
    <3>3. Emptied(p) /\ parents'[p] = record
      BY <2>1, <3>1, <3>2, PurgeEffect
    <3>4. resolve_ok(p, clock) /\ entries[p].owner = a /\ parents[p].owner # a
      BY <1>4, <2>2 DEF RegisterParent
    <3>5. Cause(p)
      BY <2>1, <2>2, <3>3, <3>4 DEF Cause, resolve_ok, HasParent
    <3> QED
      BY <3>3, <3>5 DEF NamespaceEffect
  <2>3. CASE ~HasParent(p)
    <3>1. /\ parents' = [parents EXCEPT ![p] = record]
          /\ UNCHANGED << subdomains, parent_subdomains, owner_subdomains >>
      BY <1>4, <2>3 DEF RegisterParent, record
    <3>2. ParentsKept
      BY <1>a, <2>1, <2>3, <3>1 DEF ParentsKept, HasParent
    <3> QED
      BY <3>1, <3>2 DEF NamespaceEffect
  <2> QED
    BY <2>2, <2>3
<1>5. ASSUME NEW p \in Names, NEW a \in Users, NEW controllers \in SUBSET Addresses,
             HasParent(p), SetControllers(p, a, controllers)
      PROVE  NamespaceEffect
  <2> DEFINE record == [parents[p] EXCEPT !.controllers = controllers]
  <2>1. /\ parents' = [parents EXCEPT ![p] = record]
        /\ UNCHANGED << subdomains, parent_subdomains, owner_subdomains >>
    BY <1>5 DEF SetControllers
  <2>2. record \in ParentDomain /\ record.owner = parents[p].owner /\ record # NONE
    BY <1>5, <1>c DEF ParentDomain
  <2> HIDE DEF record
  <2>3. ParentsKept
    BY <1>a, <2>1, <2>2 DEF ParentsKept, HasParent
  <2> QED
    BY <2>1, <2>3 DEF NamespaceEffect
<1>6. ASSUME NEW p \in Names, NEW a \in Users, NEW b \in Users,
             AddController(p, a, b) \/ RemoveController(p, a, b)
      PROVE  NamespaceEffect
  <2>1. PICK controllers \in SUBSET Addresses : HasParent(p) /\ SetControllers(p, a, controllers)
    <3>1. HasParent(p)
      BY <1>6 DEF AddController, RemoveController
    <3>2. /\ parents[p].controllers \cup {b} \in SUBSET Addresses
          /\ parents[p].controllers \ {b} \in SUBSET Addresses
      BY <1>a, <1>c, <3>1
    <3> QED
      BY <1>6, <3>1, <3>2, Zenon DEF AddController, RemoveController
  <2> QED
    BY <1>5, <2>1
<1>7. ASSUME NEW s \in Subs, NEW a \in Users, NEW b \in Users, Create(s, a, b)
      PROVE  NamespaceEffect
  <2>1. Created(s, b)
    BY <1>7 DEF Create, Created, parent_usable
  <2> QED
    BY <2>1 DEF NamespaceEffect
<1>8. ASSUME NEW s \in Subs, NEW a \in Users, NEW b \in Users, TransferSubdomain(s, a, b)
      PROVE  NamespaceEffect
  <2>1. Exists(s) /\ subdomains[s].owner = a /\ invoker' = a
    BY <1>8 DEF TransferSubdomain, SubdomainCall
  <2> DEFINE record == [subdomains[s] EXCEPT !.owner = b]
  <2>2. record = [parent |-> ParentOf[s], owner |-> b]
    BY <1>b, <2>1 DEF SubdomainRecord
  <2>3. subdomains' = [subdomains EXCEPT ![s] = record]
    BY <1>8 DEF TransferSubdomain
  <2> HIDE DEF record
  <2>4. HandedOn(s, b)
    BY <1>8, <2>1, <2>2, <2>3 DEF TransferSubdomain, HandedOn
  <2> QED
    BY <2>4 DEF NamespaceEffect
<1>9. ASSUME NEW s \in Subs, NEW a \in Users, Delete(s, a)
      PROVE  NamespaceEffect
  <2>1. Exists(s) /\ subdomains[s].parent = ParentOf[s] /\ invoker' = a
    BY <1>9, <1>b DEF Delete, SubdomainCall
  <2>2. Deleted(s)
    BY <1>9, <2>1 DEF Delete, Deleted
  <2> QED
    BY <2>2 DEF NamespaceEffect
<1> QED
  BY <1>1, <1>2, <1>3, <1>4, <1>6, <1>7, <1>8, <1>9 DEF SubdomainNext

-----------------------------------------------------------------------------
(* The invariant. *)

\* The two effects that change no parent and one subdomain, and a purge, keep
\* the type of the four maps and the base name of every subdomain.
LEMMA EffectType ==
    ASSUME NamespaceInv, NamespaceEffect
    PROVE  /\ parents' \in [Names -> ParentDomain \cup {NONE}]
           /\ subdomains' \in [Subs -> SubdomainRecord \cup {NONE}]
           /\ parent_subdomains' \in [Names -> SUBSET Subs]
           /\ owner_subdomains' \in [Addresses -> SUBSET Subs]
           /\ ParentFixed'
<1> USE SubdomainAssumption
<1> DEFINE Typed == /\ parents' \in [Names -> ParentDomain \cup {NONE}]
                    /\ subdomains' \in [Subs -> SubdomainRecord \cup {NONE}]
                    /\ parent_subdomains' \in [Names -> SUBSET Subs]
                    /\ owner_subdomains' \in [Addresses -> SUBSET Subs]
                    /\ ParentFixed'
<1>a. /\ parents \in [Names -> ParentDomain \cup {NONE}]
      /\ subdomains \in [Subs -> SubdomainRecord \cup {NONE}]
      /\ parent_subdomains \in [Names -> SUBSET Subs]
      /\ owner_subdomains \in [Addresses -> SUBSET Subs]
      /\ \A s \in Subs : Exists(s) => subdomains[s].parent = ParentOf[s]
  BY DEF NamespaceInv, SubdomainTypeOK, ParentFixed
<1>b. \A s \in Subs, a \in Users : /\ [parent |-> ParentOf[s], owner |-> a] \in SubdomainRecord
                                   /\ ParentOf[s] \in Names /\ a \in Addresses
  BY DEF SubdomainRecord, Addresses
<1>1. CASE UNCHANGED << subdomains, parent_subdomains, owner_subdomains >> /\ ParentsKept
  BY <1>1, <1>a DEF ParentsKept, ParentFixed, Exists
<1>2. ASSUME NEW p \in Names, Emptied(p) PROVE Typed
  <2>1. subdomains' \in [Subs -> SubdomainRecord \cup {NONE}] /\ ParentFixed'
    BY <1>2, <1>a DEF Emptied, ParentFixed, Exists
  <2>2. parent_subdomains' \in [Names -> SUBSET Subs] /\ owner_subdomains' \in [Addresses -> SUBSET Subs]
    BY <1>2, <1>a DEF Emptied
  <2> QED
    BY <1>2, <2>1, <2>2 DEF Emptied
<1>3. ASSUME NEW s \in Subs, NEW a \in Users, Created(s, a) PROVE Typed
  <2> DEFINE record == [parent |-> ParentOf[s], owner |-> a]
  <2>1. record \in SubdomainRecord /\ record.parent = ParentOf[s]
    BY <1>b
  <2>2. subdomains' = [subdomains EXCEPT ![s] = record]
    BY <1>3 DEF Created
  <2> HIDE DEF record
  <2>3. subdomains' \in [Subs -> SubdomainRecord \cup {NONE}] /\ ParentFixed'
    BY <1>a, <2>1, <2>2 DEF ParentFixed, Exists
  <2> QED
    BY <1>3, <1>a, <1>b, <2>3 DEF Created
<1>4. ASSUME NEW s \in Subs, NEW a \in Users, HandedOn(s, a) PROVE Typed
  <2> DEFINE record == [parent |-> ParentOf[s], owner |-> a]
  <2>1. record \in SubdomainRecord /\ record.parent = ParentOf[s]
    BY <1>b
  <2>2. subdomains' = [subdomains EXCEPT ![s] = record]
    BY <1>4 DEF HandedOn
  <2> HIDE DEF record
  <2>3. subdomains' \in [Subs -> SubdomainRecord \cup {NONE}] /\ ParentFixed'
    BY <1>a, <2>1, <2>2 DEF ParentFixed, Exists
  <2>4. owner_subdomains' \in [Addresses -> SUBSET Subs]
    BY <1>4, <1>a DEF HandedOn, reindex_owner_subdomain
  <2> QED
    BY <1>4, <1>a, <2>3, <2>4 DEF HandedOn
<1>5. ASSUME NEW s \in Subs, Deleted(s) PROVE Typed
  <2>1. subdomains' \in [Subs -> SubdomainRecord \cup {NONE}] /\ ParentFixed'
    BY <1>5, <1>a DEF Deleted, ParentFixed, Exists
  <2> QED
    BY <1>5, <1>a, <2>1 DEF Deleted
<1> QED
  BY <1>1, <1>2, <1>3, <1>4, <1>5 DEF NamespaceEffect

\* Each effect keeps both listings exact and every subdomain under a recorded
\* parent.
LEMMA EffectIndex ==
    ASSUME NamespaceInv, NamespaceEffect
    PROVE  SubdomainIndexExact'
<1> USE SubdomainAssumption
<1>a. /\ subdomains \in [Subs -> SubdomainRecord \cup {NONE}]
      /\ parent_subdomains \in [Names -> SUBSET Subs]
      /\ owner_subdomains \in [Addresses -> SUBSET Subs]
      /\ ParentOf \in [Subs -> Names]
  BY DEF NamespaceInv, SubdomainTypeOK
<1>b. \A s \in Subs : Exists(s) =>
        /\ HasParent(ParentOf[s])
        /\ subdomains[s].parent = ParentOf[s]
        /\ subdomains[s].owner \in Addresses
  BY <1>a DEF NamespaceInv, SubdomainIndexExact, ParentFixed, Exists, SubdomainRecord
<1>c. \A s \in Subs, a \in Users :
        LET record == [parent |-> ParentOf[s], owner |-> a]
        IN  record \in SubdomainRecord /\ record # NONE /\ a \in Addresses
  BY DEF SubdomainRecord, Addresses
<1> DEFINE Kept(t) == Exists(t)' => HasParent(subdomains[t].parent)'
           ByParent(t, p) == t \in parent_subdomains'[p] <=> Exists(t)' /\ subdomains'[t].parent = p
           ByOwner(t, b) == t \in owner_subdomains'[b] <=> Exists(t)' /\ subdomains'[t].owner = b
           Exact(t) == /\ Kept(t)
                       /\ \A p \in Names : ByParent(t, p)
                       /\ \A b \in Addresses : ByOwner(t, b)
<1> SUFFICES ASSUME NEW t \in Subs
             PROVE  Exact(t)
  BY DEF SubdomainIndexExact
<1>d. /\ \A p \in Names : t \in parent_subdomains[p] <=> Exists(t) /\ subdomains[t].parent = p
      /\ \A b \in Addresses : t \in owner_subdomains[b] <=> Exists(t) /\ subdomains[t].owner = b
  BY DEF NamespaceInv, SubdomainIndexExact
<1>1. CASE UNCHANGED << subdomains, parent_subdomains, owner_subdomains >> /\ ParentsKept
  BY <1>1, <1>a, <1>b, <1>d DEF ParentsKept, Exists, HasParent
<1>2. ASSUME NEW q \in Names, Emptied(q) PROVE Exact(t)
  <2>1. Exists(t)' <=> Exists(t) /\ subdomains[t].parent # q
    BY <1>2 DEF Emptied, Exists
  <2>2. Exists(t)' => subdomains'[t] = subdomains[t] /\ HasParent(subdomains[t].parent)'
    BY <1>2, <1>a, <1>b, <2>1 DEF Emptied, Exists, HasParent
  <2>3. \A p \in Names : t \in parent_subdomains'[p] <=> t \in parent_subdomains[p] /\ p # q
    BY <1>2, <1>a DEF Emptied
  <2>4. \A b \in Addresses : t \in owner_subdomains'[b] <=>
          t \in owner_subdomains[b] /\ ~(Exists(t) /\ subdomains[t].parent = q /\ subdomains[t].owner = b)
    BY <1>2 DEF Emptied
  <2> QED
    BY <1>d, <2>1, <2>2, <2>3, <2>4
<1>3. ASSUME NEW s \in Subs, NEW a \in Users, Created(s, a) PROVE Exact(t)
  <2> DEFINE record == [parent |-> ParentOf[s], owner |-> a]
  <2>1. record # NONE /\ record.parent = ParentOf[s] /\ record.owner = a /\ a \in Addresses
    BY <1>c
  <2>2. subdomains' = [subdomains EXCEPT ![s] = record]
    BY <1>3 DEF Created
  <2> HIDE DEF record
  <2>3. CASE t = s
    BY <1>3, <1>a, <1>d, <2>1, <2>2, <2>3 DEF Created, Exists, HasParent
  <2>4. CASE t # s
    BY <1>3, <1>a, <1>b, <1>d, <2>2, <2>4 DEF Created, Exists, HasParent
  <2> QED
    BY <2>3, <2>4
<1>4. ASSUME NEW s \in Subs, NEW a \in Users, HandedOn(s, a) PROVE Exact(t)
  <2> DEFINE record == [parent |-> ParentOf[s], owner |-> a]
  <2>1. record # NONE /\ record.parent = ParentOf[s] /\ record.owner = a /\ a \in Addresses
    BY <1>c
  <2>2. subdomains' = [subdomains EXCEPT ![s] = record]
    BY <1>4 DEF HandedOn
  <2> HIDE DEF record
  <2>3. CASE t = s
    BY <1>4, <1>a, <1>b, <1>d, <2>1, <2>2, <2>3
       DEF HandedOn, Exists, HasParent, reindex_owner_subdomain
  <2>4. CASE t # s
    BY <1>4, <1>a, <1>b, <1>d, <2>2, <2>4
       DEF HandedOn, Exists, HasParent, reindex_owner_subdomain
  <2> QED
    BY <2>3, <2>4
<1>5. ASSUME NEW s \in Subs, Deleted(s) PROVE Exact(t)
  BY <1>5, <1>a, <1>b, <1>d DEF Deleted, Exists, HasParent
<1> QED
  BY <1>1, <1>2, <1>3, <1>4, <1>5 DEF NamespaceEffect

\* No call of a namespace touches the settings, and the administrator's calls
\* keep their type.
LEMMA SettingsType ==
    ASSUME SubdomainTypeOK, SubdomainNext
    PROVE  max_depth' \in Nat /\ subdomain_registry' \in BOOLEAN
           /\ subdomain_admin' \in SubdomainAdmins \cup {NONE}
<1> USE SubdomainAssumption
<1>a. /\ max_depth \in Nat /\ subdomain_registry \in BOOLEAN
      /\ subdomain_admin \in SubdomainAdmins \cup {NONE}
  BY DEF SubdomainTypeOK
<1>1. CASE \/ \E a \in SubdomainAdmins : SubdomainInitialize(a)
           \/ SetRegistryContract
           \/ \E d \in Depths : SetMaxDepth(d)
  BY <1>1, <1>a DEF SubdomainInitialize, SetRegistryContract, SetMaxDepth
<1>2. ASSUME UNCHANGED settingVars
      PROVE  max_depth' \in Nat /\ subdomain_registry' \in BOOLEAN
             /\ subdomain_admin' \in SubdomainAdmins \cup {NONE}
  BY <1>2, <1>a DEF settingVars
<1>3. CASE \/ \E p \in Names :
                \/ QueryParent(p)
                \/ \E a \in Users : RegisterParent(p, a)
                \/ \E a, b \in Users : AddController(p, a, b) \/ RemoveController(p, a, b)
           \/ \E s \in Subs :
                \/ QueryRecord(s)
                \/ \E a \in Users : Delete(s, a)
                \/ \E a, b \in Users : Create(s, a, b) \/ TransferSubdomain(s, a, b)
  <2>1. UNCHANGED settingVars
    BY <1>3 DEF QueryParent, RegisterParent, AddController, RemoveController, SetControllers,
                QueryRecord, Delete, Create, TransferSubdomain
  <2> QED
    BY <1>2, <2>1
<1> QED
  BY <1>1, <1>3 DEF SubdomainNext

\* No call of either contract breaks the invariant.
LEMMA NamespaceStep ==
    ASSUME NamespaceInv, [SystemNext]_systemVars
    PROVE  NamespaceInv'
<1>1. CASE SubdomainNext
  <2>1. SubdomainTypeOK' /\ ParentFixed'
    BY <1>1, CallEffect, EffectType, SettingsType DEF SubdomainTypeOK, NamespaceInv
  <2> QED
    BY <1>1, <2>1, CallEffect, EffectIndex DEF NamespaceInv
<1>2. CASE UNCHANGED subdomainVars
  <2>1. SubdomainTypeOK'
    BY <1>2 DEF subdomainVars, namespaceVars, settingVars, SubdomainTypeOK, NamespaceInv
  <2>2. ParentFixed' /\ SubdomainIndexExact'
    BY <1>2 DEF subdomainVars, namespaceVars, ParentFixed, SubdomainIndexExact, Exists, HasParent,
                NamespaceInv
  <2> QED
    BY <2>1, <2>2 DEF NamespaceInv
<1> QED
  BY <1>1, <1>2 DEF SystemNext, systemVars

\* The storage of the subdomain contract keeps its type, and a subdomain never
\* moves to another parent.
THEOREM NamespacesCorrect == SystemSpec => []NamespaceInv
<1>1. SubdomainInit => NamespaceInv
  <2> SUFFICES ASSUME SubdomainInit
               PROVE  NamespaceInv
    OBVIOUS
  <2>1. SubdomainTypeOK
    BY SubdomainAssumption DEF SubdomainInit, SubdomainTypeOK
  <2>2. ParentFixed /\ SubdomainIndexExact
    BY DEF SubdomainInit, ParentFixed, SubdomainIndexExact, Exists
  <2> QED
    BY <2>1, <2>2 DEF NamespaceInv
<1> QED
  BY <1>1, NamespaceStep, PTL DEF SystemSpec

\* The listings by parent and by owner hold exactly the subdomains there are,
\* through creations, transfers, deletions, purges and takeovers of a parent.
THEOREM SubdomainIndexIsExact == SystemSpec => []SubdomainIndexExact
<1>1. NamespaceInv => SubdomainIndexExact
  BY DEF NamespaceInv
<1> QED
  BY <1>1, NamespacesCorrect, PTL

-----------------------------------------------------------------------------
(* Action properties. *)

\* A step of the registry, or a stuttering step, leaves every namespace alone.
LEMMA EffectOrKept ==
    ASSUME NamespaceInv, [SystemNext]_systemVars
    PROVE  NamespaceEffect \/ UNCHANGED namespaceVars
BY CallEffect DEF SystemNext, systemVars, subdomainVars

\* A namespace starts empty: when the record of a parent goes or gets another
\* owner, in whatever call noticed it, no subdomain of the old one is left.
THEOREM NamespacesStartEmpty == SystemSpec => NamespaceStartsEmpty
<1> DEFINE Clean == \A p \in Names :
                      /\ HasParent(p)
                      /\ parents'[p] # NONE => parents'[p].owner # parents[p].owner
                      => \A s \in Subs : ParentOf[s] = p => ~Exists(s)'
<1>1. NamespaceInv /\ [SystemNext]_systemVars => [Clean]_systemVars
  <2> SUFFICES ASSUME NamespaceInv, [SystemNext]_systemVars, NEW p \in Names,
                      HasParent(p),
                      parents'[p] # NONE => parents'[p].owner # parents[p].owner,
                      NEW s \in Subs, ParentOf[s] = p
               PROVE  ~Exists(s)'
    OBVIOUS
  <2>1. PICK q \in Names : Emptied(q)
    BY EffectOrKept DEF NamespaceEffect, namespaceVars, ParentsKept, HasParent,
                        Created, HandedOn, Deleted
  <2>2. q = p
    BY <2>1 DEF Emptied, HasParent
  <2>3. Exists(s) => subdomains[s].parent = p
    BY DEF NamespaceInv, ParentFixed
  <2> QED
    BY <2>1, <2>2, <2>3 DEF Emptied, Exists
<1> QED
  BY <1>1, NamespacesCorrect, PTL DEF SystemSpec, NamespaceStartsEmpty

\* While its parent stays active and in the same hands, a subdomain is handed on
\* only by its own owner and disappears only by its owner's or the parent's
\* controllers' authority.
THEOREM SubdomainsConsent == SystemSpec => SubdomainConsent
<1> DEFINE Allowed(s, p) ==
        Exists(s) /\ subdomains[s].parent = p /\ parent_is_active(p) =>
            /\ Exists(s)' /\ subdomains'[s] # subdomains[s] => invoker' = subdomains[s].owner
            /\ ~Exists(s)' =>
                \/ invoker' = subdomains[s].owner
                \/ HasParent(p) /\ controls(p, invoker')
                \/ /\ HasParent(p) /\ HasParent(p)'
                   /\ parents'[p].owner # parents[p].owner
                   /\ Registered(p) /\ parents'[p].owner = entries[p].owner
<1>1. ASSUME NamespaceInv, [SystemNext]_systemVars, NEW s \in Subs, NEW p \in Names
      PROVE  Allowed(s, p)
  <2> SUFFICES ASSUME Exists(s), subdomains[s].parent = p, parent_is_active(p)
               PROVE  Allowed(s, p)
    OBVIOUS
  <2>a. subdomains \in [Subs -> SubdomainRecord \cup {NONE}]
    BY <1>1 DEF NamespaceInv, SubdomainTypeOK
  <2>1. CASE UNCHANGED subdomains
    BY <2>1 DEF Exists
  <2>2. ASSUME NEW q \in Names, Emptied(q), Cause(q)
        PROVE  Allowed(s, p)
    BY <2>2 DEF Emptied, Cause, Exists
  <2>3. ASSUME NEW t \in Subs, NEW a \in Users, Created(t, a)
        PROVE  Allowed(s, p)
    BY <2>3, <2>a DEF Created, Exists
  <2>4. ASSUME NEW t \in Subs, NEW a \in Users, HandedOn(t, a)
        PROVE  Allowed(s, p)
    BY <2>4, <2>a DEF HandedOn, Exists
  <2>5. ASSUME NEW t \in Subs, Deleted(t)
        PROVE  Allowed(s, p)
    BY <2>5, <2>a DEF Deleted, may_delete, Exists
  <2> QED
    BY <1>1, <2>1, <2>2, <2>3, <2>4, <2>5, EffectOrKept DEF NamespaceEffect, namespaceVars
<1>2. NamespaceInv /\ [SystemNext]_systemVars => [\A s \in Subs, p \in Names : Allowed(s, p)]_systemVars
  BY <1>1
<1> QED
  BY <1>2, NamespacesCorrect, PTL DEF SystemSpec, SubdomainConsent

=============================================================================
