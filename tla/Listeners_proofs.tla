-------------------------- MODULE Listeners_proofs --------------------------
(***************************************************************************)
(* Proofs about Listeners, for every tree of resources, every set of       *)
(* documents and every number of concurrent requests.                      *)
(***************************************************************************)
EXTENDS Listeners, TLAPS

\* Two configurations that differ at most in a part.
Agree(c, d, part) ==
    /\ c.rows \ part = d.rows \ part
    /\ c.paused \ part = d.paused \ part
    /\ \A l \in Listeners : l \in part \/ c.chain[l] = d.chain[l]

\* An edited snapshot a handler may hand to the store.
Edited(want, part) ==
    /\ want \in Configurations
    /\ Nested(want.rows)
    /\ validateRPCListenerSnapshot(want)
    /\ part \in SUBSET Resources
    /\ Agree(config, want, part)

\* A request that names the current revision would store what it validated.
Fresh(q, c, current) ==
    /\ q.expected <= current
    /\ Nested(q.want.rows)
    /\ validateRPCListenerSnapshot(q.want)
    /\ q.expected = current => Stored(c, q) = q.want

AllFresh ==
    \A h \in Handlers : requests[h] # NoRequest => Fresh(requests[h], config, revision)

Inv == TypeOK /\ ConfigurationValid /\ AllFresh

----------------------------------------------------------------------------
(* The tree. *)

\* What lies below a resource of a listener lies below the listener.
LEMMA BelowTransitive ==
    ASSUME NEW l \in Listeners, NEW r \in Below(l), NEW x \in Below(r)
    PROVE  x \in Below(l)
  BY TreeAssumption DEF Below, Lineage, Up, Resources

\* What hangs from something below a resource is below that resource itself.
LEMMA BelowParent ==
    ASSUME NEW r \in Resources, NEW x \in Resources, Parent[x] \in Below(r)
    PROVE  x \in Below(r)
  BY TreeAssumption, Zenon DEF Below, Lineage, Up, Resources

\* The only listener below a listener is itself, and none is below another resource.
LEMMA ListenersBelow ==
    ASSUME NEW r \in Resources, NEW m \in Listeners, m \in Below(r)
    PROVE  m = r
  BY TreeAssumption, Zenon DEF Below, Lineage, Up, Resources

\* A listener and its tree.
LEMMA OwnTree ==
    ASSUME NEW r \in Resources
    PROVE  r \in Below(r) /\ Below(r) \subseteq Resources
  BY Zenon DEF Below, Lineage

----------------------------------------------------------------------------
(* Stored and the edits. *)

\* The part that is replaced and the rest that stays make up the snapshot.
LEMMA StoredEdited ==
    ASSUME NEW c \in Configurations, NEW q \in Requests,
           Agree(c, q.want, q.part)
    PROVE  Stored(c, q) = q.want
  <1> DEFINE d == q.want
  <1>1. d \in Configurations
    BY Zenon DEF Requests
  <1>2. d = [rows |-> d.rows, chain |-> d.chain, paused |-> d.paused]
    BY <1>1, Zenon DEF Configurations
  <1>3. (c.rows \ q.part) \cup (d.rows \cap q.part) = d.rows
    BY Zenon DEF Agree
  <1>4. (c.paused \ q.part) \cup (d.paused \cap q.part) = d.paused
    BY Zenon DEF Agree
  <1>5. [l \in Listeners |-> IF l \in q.part THEN d.chain[l] ELSE c.chain[l]] = d.chain
    BY <1>1, Zenon DEF Agree, Configurations
  <1>6. [l \in Listeners |-> IF l \in q.part THEN d.chain[l]
                             ELSE Removing(c, q.part).chain[l]]
          = [l \in Listeners |-> IF l \in q.part THEN d.chain[l] ELSE c.chain[l]]
    BY Zenon DEF Removing
  <1> QED
    BY <1>2, <1>3, <1>4, <1>5, <1>6, Zenon DEF Stored, Inserting, Removing

\* Loading an edited snapshot keeps the invariant.
LEMMA LoadKeeps ==
    ASSUME Inv, NEW h \in Handlers, NEW want, NEW part, NEW needs \in SUBSET Listeners,
           Edited(want, part), Load(h, want, part, needs)
    PROVE  Inv'
  <1> DEFINE q == [expected |-> revision, want |-> want, part |-> part, needs |-> needs]
  <1>1. q \in Requests
    BY Zenon DEF Inv, TypeOK, Edited, Requests
  <1>2. requests' = [requests EXCEPT ![h] = q] /\ config' = config /\ revision' = revision
    BY Zenon DEF Load
  <1>3. TypeOK'
    BY <1>1, <1>2, Zenon DEF Inv, TypeOK
  <1>4. ConfigurationValid'
    BY <1>2, Zenon DEF Inv, ConfigurationValid, validateRPCListenerSnapshot, UniqueChains, Routed,
                Nested
  <1>5. Stored(config, q) = want
    <2>1. config \in Configurations /\ Agree(config, q.want, q.part)
      BY Zenon DEF Inv, TypeOK, Edited
    <2> QED
      BY <1>1, <2>1, StoredEdited, Zenon
  <1>6. Fresh(q, config, revision)
    BY <1>5 DEF Inv, TypeOK, Edited, Fresh
  <1>7. AllFresh'
    <2> HIDE DEF q
    <2>1. ASSUME NEW k \in Handlers, requests'[k] # NoRequest
          PROVE  Fresh(requests'[k], config, revision)
      <3>1. CASE k = h
        BY <1>2, <1>6, <3>1, Zenon DEF Inv, TypeOK
      <3>2. CASE k # h
        BY <1>2, <2>1, <3>2, Zenon DEF Inv, TypeOK, AllFresh
      <3> QED
        BY <3>1, <3>2, Zenon
    <2> QED
      BY <1>2, <2>1, Zenon DEF AllFresh
  <1> QED
    BY <1>3, <1>4, <1>7, Zenon DEF Inv

\* Shape(c, d, part): d is a nested configuration that differs from c in part only.
Shape(c, d, part) == d \in Configurations /\ Nested(d.rows) /\ Agree(c, d, part)

\* Removing resources together with all that hangs from them.
LEMMA RemovingShape ==
    ASSUME NEW c \in Configurations, Nested(c.rows), NEW gone \in SUBSET Resources,
           NEW part \in SUBSET Resources, gone \subseteq part,
           \A x \in Resources : Parent[x] \in gone => x \in gone
    PROVE  Shape(c, Removing(c, gone), part)
  <1> DEFINE d == Removing(c, gone)
  <1>1. d \in Configurations
    BY Zenon DEF Removing, Configurations
  <1>2. Nested(d.rows)
    BY TreeAssumption, Zenon DEF Removing, Nested, Configurations
  <1>3. Agree(c, d, part)
    BY Zenon DEF Removing, Agree, Configurations
  <1> QED
    BY <1>1, <1>2, <1>3, Zenon DEF Shape

\* Adding resources other than listeners to rows that hold them.
LEMMA AddingShape ==
    ASSUME NEW c \in Configurations, Nested(c.rows), NEW new \in SUBSET Resources,
           NEW part \in SUBSET Resources, new \subseteq part,
           \A x \in new : x \notin Listeners \/ x \in c.rows,
           \A x \in new : Parent[x] \in c.rows \cup new \cup {Root}
    PROVE  Shape(c, Adding(c, new), part)
  <1> DEFINE d == Adding(c, new)
  <1>1. d \in Configurations
    BY Zenon DEF Adding, Configurations
  <1>2. Nested(d.rows)
    BY Zenon DEF Adding, Nested, Configurations
  <1>3. Agree(c, d, part)
    BY Zenon DEF Adding, Agree, Configurations
  <1> QED
    BY <1>1, <1>2, <1>3, Zenon DEF Shape

\* Adding a listener with its tree.
LEMMA CreatingShape ==
    ASSUME NEW c \in Configurations, Nested(c.rows), NEW l \in Listeners,
           NEW new \in NewTrees(l), NEW chain \in Chains, NEW paused \in SUBSET {l}
    PROVE  Shape(c, [Adding(c, new) EXCEPT !.chain[l] = chain,
                                           !.paused = @ \cup paused], Below(l))
  <1> DEFINE d == [Adding(c, new) EXCEPT !.chain[l] = chain, !.paused = @ \cup paused]
  <1>1. /\ d.rows = c.rows \cup new
        /\ d.chain = [c.chain EXCEPT ![l] = chain]
        /\ d.paused = c.paused \cup paused
        /\ d \in [rows : SUBSET Resources, chain : [Listeners -> Chains \cup {NoChain}],
                  paused : SUBSET Listeners]
    BY OwnTree, Zenon DEF Adding, Configurations, NewTrees, Resources
  <1>2. l \in new /\ new \subseteq Below(l) /\ l \in Below(l)
        /\ \A m \in Listeners : m \in Below(l) => m = l
    BY OwnTree, ListenersBelow, Zenon DEF NewTrees, Resources
  <1> HIDE DEF d
  <1>3. d \in Configurations
    BY <1>1, <1>2, NoChainAssumption DEF Configurations
  <1>4. Nested(d.rows)
    BY <1>1, <1>2, TreeAssumption, Zenon DEF Nested, NewTrees
  <1>5. Agree(c, d, Below(l))
    BY <1>1, <1>2 DEF Agree, Configurations
  <1> QED
    BY <1>3, <1>4, <1>5, Zenon DEF Shape, d

\* Changing the attributes of a listener.
LEMMA AttributesShape ==
    ASSUME NEW c \in Configurations, Nested(c.rows), NEW l \in Listeners, l \in c.rows,
           NEW d \in Configurations, d.rows = c.rows,
           \A m \in Listeners \ {l} : d.chain[m] = c.chain[m] /\ (m \in d.paused <=> m \in c.paused)
    PROVE  Shape(c, d, Below(l))
  <1>1. l \in Below(l) /\ c.paused \subseteq Listeners /\ d.paused \subseteq Listeners
    BY OwnTree, Zenon DEF Resources, Configurations
  <1> QED
    BY <1>1, Zenon DEF Shape, Agree

----------------------------------------------------------------------------
(* The steps. *)

\* A handler that validates an edit of the right shape keeps the invariant.
LEMMA LoadValidKeeps ==
    ASSUME Inv, NEW h \in Handlers, NEW want, NEW part \in SUBSET Resources,
           NEW needs \in SUBSET Listeners, Shape(config, want, part),
           LoadValid(h, want, part, needs)
    PROVE  Inv'
  BY LoadKeeps, Zenon DEF LoadValid, Shape, Edited

\* The same for an edit of one listener.
LEMMA LoadListenerKeeps ==
    ASSUME Inv, NEW h \in Handlers, NEW l \in Listeners, NEW want,
           Shape(config, want, Below(l)), LoadListener(h, l, want)
    PROVE  Inv'
  <1>1. Below(l) \in SUBSET Resources /\ {l} \in SUBSET Listeners
    BY OwnTree, Zenon DEF Resources
  <1> QED
    BY <1>1, LoadValidKeeps, Zenon DEF LoadListener

\* Every request, up to its store call, keeps the invariant.
LEMMA ReceiveKeeps ==
    ASSUME Inv, NEW h \in Handlers, Receive(h)
    PROVE  Inv'
  <1>0. config \in Configurations /\ Nested(config.rows) /\ validateRPCListenerSnapshot(config)
        /\ config.rows \subseteq Resources
    BY Zenon DEF Inv, TypeOK, ConfigurationValid, Configurations
  <1>g. GlobalWebhooks \in SUBSET Resources
    BY Zenon DEF GlobalWebhooks, Resources
  <1>s. ASSUME NEW part \in SUBSET Resources
        PROVE  Shape(config, config, part)
    BY <1>0, Zenon DEF Shape, Agree
  <1>1. ASSUME NEW l \in Listeners, createRPCListener(h, l)
        PROVE  Inv'
    <2>1. PICK new \in NewTrees(l), chain \in Chains, paused \in SUBSET {l} :
            LoadValid(h, [Adding(config, new) EXCEPT !.chain[l] = chain,
                                                     !.paused = @ \cup paused], Below(l), {})
      BY <1>1, Zenon DEF createRPCListener
    <2>2. Shape(config, [Adding(config, new) EXCEPT !.chain[l] = chain,
                                                    !.paused = @ \cup paused], Below(l))
      BY <1>0, CreatingShape, Zenon
    <2>3. Below(l) \in SUBSET Resources
      BY OwnTree, Zenon DEF Resources
    <2> QED
      BY <2>1, <2>2, <2>3, LoadValidKeeps
  <1>2. ASSUME NEW l \in Listeners, NEW r \in Resources, createNested(h, l, r)
        PROVE  Inv'
    <2>1. PICK new \in NewTrees(r) : LoadListener(h, l, Adding(config, new))
      BY <1>2, Zenon DEF createNested
    <2>2. r \in Below(l) /\ r # l /\ Parent[r] \in config.rows
      BY <1>2, Zenon DEF createNested
    <2>3. new \in SUBSET Below(r) /\ \A x \in new \ {r} : Parent[x] \in new
      BY Zenon DEF NewTrees
    <2>4. Below(r) \subseteq Below(l) /\ Below(l) \in SUBSET Resources
      BY <2>2, BelowTransitive, OwnTree, Zenon DEF Resources
    <2>5. \A x \in new : x \notin Listeners
      <3> SUFFICES ASSUME NEW x \in new, x \in Listeners PROVE FALSE
        BY Zenon
      <3>1. x = r /\ x = l
        BY <2>3, <2>4, ListenersBelow, Zenon DEF Resources
      <3> QED
        BY <3>1, <2>2, Zenon
    <2>6. Shape(config, Adding(config, new), Below(l))
      BY <1>0, <2>2, <2>3, <2>4, <2>5, AddingShape, Zenon
    <2> QED
      BY <2>1, <2>6, LoadListenerKeeps, Zenon
  <1>3. ASSUME NEW w \in Webhooks, createGlobalWebhook(h, w)
        PROVE  Inv'
    <2>1. {w} \in SUBSET Resources /\ {w} \subseteq GlobalWebhooks /\ w \notin Listeners
          /\ Parent[w] = Root
      BY <1>3, TreeAssumption, Zenon DEF createGlobalWebhook, GlobalWebhooks, Resources
    <2>2. Shape(config, Adding(config, {w}), GlobalWebhooks)
      BY <1>0, <1>g, <2>1, AddingShape, Zenon
    <2> QED
      BY <1>3, <1>g, <2>2, LoadValidKeeps DEF createGlobalWebhook
  <1>4. ASSUME NEW l \in Listeners, deleteRPCListener(h, l)
        PROVE  Inv'
    <2>1. l \in Resources /\ Below(l) \in SUBSET Resources
      BY OwnTree, Zenon DEF Resources
    <2>2. Shape(config, Removing(config, Below(l)), Below(l))
      BY <1>0, <2>1, BelowParent, RemovingShape, Zenon
    <2> QED
      BY <1>4, <2>2, LoadListenerKeeps, Zenon DEF deleteRPCListener
  <1>5. ASSUME NEW l \in Listeners, NEW r \in Resources, deleteNested(h, l, r)
        PROVE  Inv'
    <2>1. Below(r) \in SUBSET Resources /\ Below(l) \in SUBSET Resources
      BY OwnTree, Zenon DEF Resources
    <2>2. Below(r) \subseteq Below(l)
      BY <1>5, BelowTransitive, Zenon DEF deleteNested
    <2>3. Shape(config, Removing(config, Below(r)), Below(l))
      BY <1>0, <2>1, <2>2, BelowParent, RemovingShape, Zenon
    <2> QED
      BY <1>5, <2>3, LoadListenerKeeps, Zenon DEF deleteNested
  <1>6. ASSUME NEW w \in Webhooks, deleteGlobalWebhook(h, w)
        PROVE  Inv'
    <2>1. {w} \in SUBSET Resources /\ {w} \subseteq GlobalWebhooks
      BY <1>6, Zenon DEF deleteGlobalWebhook, Resources
    <2>2. \A x \in Resources : Parent[x] \in {w} => x \in {w}
      BY TreeAssumption DEF Resources
    <2>3. Shape(config, Removing(config, {w}), GlobalWebhooks)
      BY <1>0, <1>g, <2>1, <2>2, RemovingShape, Zenon
    <2> QED
      BY <1>6, <1>g, <2>3, LoadValidKeeps DEF deleteGlobalWebhook
  <1>7. ASSUME NEW l \in Listeners, NEW chain \in Chains, patchRPCListener(h, l, chain)
        PROVE  Inv'
    <2> DEFINE d == [config EXCEPT !.chain[l] = chain]
    <2>1. l \in config.rows
      BY <1>7, Zenon DEF patchRPCListener, LoadListener
    <2>2. d \in Configurations /\ d.rows = config.rows /\ d.paused = config.paused
          /\ \A m \in Listeners \ {l} : d.chain[m] = config.chain[m]
      BY <1>0, <2>1, NoChainAssumption, Zenon DEF Configurations
    <2>3. Shape(config, d, Below(l))
      <3> HIDE DEF d
      <3> QED
        BY <1>0, <2>1, <2>2, AttributesShape, Zenon
    <2> QED
      BY <1>7, <2>3, LoadListenerKeeps, Zenon DEF patchRPCListener, applyRPCListenerPatch
  <1>8. ASSUME NEW l \in Listeners, NEW c \in Contracts, patchContract(h, l, c)
        PROVE  Inv'
    <2>1. PICK named \in SUBSET EventsOf(c) :
            LoadListener(h, l, Adding(Removing(config,
              UNION {Below(e) : e \in EventsOf(c) \ named}), named))
      BY <1>8, Zenon DEF patchContract, applyContractPatch
    <2> DEFINE gone == UNION {Below(e) : e \in EventsOf(c) \ named}
               d == Removing(config, gone)
    <2>2. c \in Below(l) /\ c \in config.rows /\ c \in Resources
      BY <1>8, Zenon DEF patchContract, Resources
    <2>3. \A e \in EventsOf(c) : /\ e \in Events /\ e \in Resources /\ Parent[e] = c
                                 /\ e \notin Listeners /\ e \in Below(c)
      BY TreeAssumption DEF EventsOf, Resources, Below, Lineage, Up
    <2>4. Below(l) \in SUBSET Resources /\ EventsOf(c) \subseteq Below(l)
      BY <2>2, <2>3, BelowTransitive, OwnTree, Zenon DEF Resources
    <2>5. \A e \in EventsOf(c) : Below(e) \subseteq Below(l)
      BY <2>4, BelowTransitive, Zenon
    <2>6. gone \in SUBSET Resources /\ gone \subseteq Below(l)
      BY <2>4, <2>5, Zenon
    <2>7. \A x \in Resources : Parent[x] \in gone => x \in gone
      BY <2>3, BelowParent
    <2>8. c \notin gone
      BY <2>3, TreeAssumption DEF Below, Lineage, Up, Resources
    <2>9. Shape(config, d, Below(l)) /\ c \in d.rows
      <3>1. c \in d.rows
        BY <2>2, <2>8, Zenon DEF Removing
      <3> HIDE DEF gone
      <3> QED
        BY <1>0, <2>4, <2>6, <2>7, <3>1, RemovingShape, Zenon
    <2>10. Shape(d, Adding(d, named), Below(l))
      <3> HIDE DEF d
      <3>1. d \in Configurations /\ Nested(d.rows)
        BY <2>9, Zenon DEF Shape
      <3>2. named \in SUBSET Resources /\ named \subseteq Below(l)
            /\ \A x \in named : x \notin Listeners /\ Parent[x] \in d.rows
        BY <2>3, <2>4, <2>9, Zenon
      <3> QED
        BY <2>4, <3>1, <3>2, AddingShape, Zenon
    <2>11. Shape(config, Adding(d, named), Below(l))
      <3> HIDE DEF d
      <3> QED
        BY <2>9, <2>10, Zenon DEF Shape, Agree
    <2> QED
      BY <2>1, <2>11, LoadListenerKeeps, Zenon
  <1>9. ASSUME NEW l \in Listeners, NEW r \in Resources, patchNested(h, l, r)
        PROVE  Inv'
    <2>1. Shape(config, config, Below(l))
      BY <1>s, OwnTree, Zenon DEF Resources
    <2> QED
      BY <1>9, <2>1, LoadListenerKeeps, Zenon DEF patchNested
  <1>10. ASSUME NEW w \in Webhooks, patchGlobalWebhook(h, w)
         PROVE  Inv'
    <2>1. Shape(config, config, GlobalWebhooks)
      BY <1>s, <1>g, Zenon
    <2> QED
      BY <1>10, <1>g, <2>1, LoadValidKeeps DEF patchGlobalWebhook
  <1>11. ASSUME NEW l \in Listeners, setListenerPaused(h, l)
         PROVE  Inv'
    <2> DEFINE d == [config EXCEPT !.paused = IF l \in @ THEN @ \ {l} ELSE @ \cup {l}]
    <2>1. l \in config.rows /\ Load(h, d, Below(l), {l})
      BY <1>11, Zenon DEF setListenerPaused
    <2>2. d \in Configurations /\ d.rows = config.rows /\ d.chain = config.chain
          /\ \A m \in Listeners \ {l} : m \in d.paused <=> m \in config.paused
      BY <1>0, <2>1, Zenon DEF Configurations
    <2> HIDE DEF d
    <2>3. Shape(config, d, Below(l))
      BY <1>0, <2>1, <2>2, AttributesShape, Zenon
    <2>4. validateRPCListenerSnapshot(d)
      BY <1>0, <2>2, Zenon DEF validateRPCListenerSnapshot, UniqueChains, Routed
    <2>5. Below(l) \in SUBSET Resources /\ {l} \in SUBSET Listeners
      BY OwnTree, Zenon DEF Resources
    <2> QED
      BY <2>1, <2>3, <2>4, <2>5, LoadKeeps, Zenon DEF Shape, Edited
  <1>12. ASSUME NEW document \in Documents, handleRPCListenerImport(h, document)
         PROVE  Inv'
    <2>1. Shape(config, document, Resources)
      BY <1>0, DocumentAssumption, Zenon DEF Shape, Agree, Configurations, Resources
    <2> QED
      BY <1>12, <2>1, LoadValidKeeps DEF handleRPCListenerImport
  <1> QED
    BY <1>1, <1>2, <1>3, <1>4, <1>5, <1>6, <1>7, <1>8, <1>9, <1>10, <1>11, <1>12, Zenon
    DEF Receive, Resources, createContract, createEvent, createNestedWebhook, deleteContract,
        deleteEvent, deleteNestedWebhook, patchEvent, patchNestedWebhook

\* The transaction of a request stores what the request validated.
LEMMA CommitStores ==
    ASSUME Inv, NEW h \in Handlers, mutateRPCListeners(h)
    PROVE  /\ config' = requests[h].want
           /\ requests[h] \in Requests
           /\ Fresh(requests[h], config, revision)
  BY Zenon DEF Inv, TypeOK, AllFresh, Fresh, mutateRPCListeners

\* The transaction keeps the invariant: all other requests are stale after it.
LEMMA CommitKeeps ==
    ASSUME Inv, NEW h \in Handlers, mutateRPCListeners(h)
    PROVE  Inv'
  <1>1. /\ config' = requests[h].want
        /\ requests[h] \in Requests
        /\ Fresh(requests[h], config, revision)
    BY CommitStores, Zenon
  <1>2. /\ revision \in 0..MaxRevision /\ revision < MaxRevision
        /\ revision' = revision + 1
        /\ requests' = [requests EXCEPT ![h] = NoRequest]
        /\ requests \in [Handlers -> Requests \cup {NoRequest}]
    BY Zenon DEF Inv, TypeOK, mutateRPCListeners
  <1>3. TypeOK'
    <2>1. config' \in Configurations
      BY <1>1, Zenon DEF Requests
    <2>2. revision' \in 0..MaxRevision
      BY <1>2, BoundAssumption
    <2> QED
      BY <1>2, <2>1, <2>2, Zenon DEF TypeOK
  <1>4. ConfigurationValid'
    BY <1>1, Zenon DEF Fresh, ConfigurationValid, validateRPCListenerSnapshot, UniqueChains,
                Routed, Nested
  <1>5. ASSUME NEW k \in Handlers, requests'[k] # NoRequest
        PROVE  Fresh(requests'[k], config', revision')
    <2>1. k # h /\ requests'[k] = requests[k] /\ requests[k] \in Requests
      BY <1>2, <1>5, Zenon
    <2>2. Fresh(requests[k], config, revision)
      BY <2>1, <1>5, Zenon DEF Inv, AllFresh
    <2>3. requests[k].expected \in Int /\ requests[k].expected <= revision
      BY <2>1, <2>2 DEF Fresh, Requests
    <2> QED
      BY <1>2, <2>1, <2>2, <2>3 DEF Fresh
  <1> QED
    BY <1>3, <1>4, <1>5, Zenon DEF Inv, AllFresh

\* The invariant is inductive.
LEMMA NextKeeps ==
    ASSUME Inv, [Next]_vars
    PROVE  Inv'
  <1>1. CASE UNCHANGED vars
    BY <1>1, Zenon DEF vars, Inv, TypeOK, ConfigurationValid, validateRPCListenerSnapshot,
                UniqueChains, Routed, Nested, AllFresh
  <1>2. ASSUME NEW h \in Handlers, Refuse(h)
        PROVE  Inv'
    <2>1. requests' = [requests EXCEPT ![h] = NoRequest] /\ config' = config
          /\ revision' = revision
      BY <1>2, Zenon DEF Refuse
    <2>2. TypeOK'
      BY <2>1, Zenon DEF Inv, TypeOK
    <2>3. ConfigurationValid'
      BY <2>1, Zenon DEF Inv, ConfigurationValid, validateRPCListenerSnapshot, UniqueChains,
                  Routed, Nested
    <2>4. AllFresh'
      BY <2>1, Zenon DEF Inv, TypeOK, AllFresh
    <2> QED
      BY <2>2, <2>3, <2>4, Zenon DEF Inv
  <1> QED
    BY <1>1, <1>2, ReceiveKeeps, CommitKeeps, Zenon DEF Next

\* The empty configuration of a new database.
LEMMA InitInv == Init => Inv
  BY BoundAssumption, NoChainAssumption
  DEF Init, Inv, TypeOK, ConfigurationValid, AllFresh, Configurations, Nested,
      validateRPCListenerSnapshot, UniqueChains

\* Holds for all trees and any number of requests: the stored configuration
\* always passes the validation of the API as a whole, although the requests
\* store parts of it (validateRPCListenerSnapshot, mutateRPCListeners).
THEOREM Validity == Spec => []ConfigurationValid
  <1>1. Inv => ConfigurationValid
    BY Zenon DEF Inv
  <1> QED
    BY <1>1, InitInv, NextKeeps, PTL DEF Spec

\* The tables and the requests are well-formed.
THEOREM TypeCorrect == Spec => []TypeOK
  <1>1. Inv => TypeOK
    BY Zenon DEF Inv
  <1> QED
    BY <1>1, InitInv, NextKeeps, PTL DEF Spec

\* No update is lost: a transaction leaves exactly what its request validated
\* (expectedRevision of mutateRPCListeners).
THEOREM NoLostUpdate == Spec => StoresWhatWasValidated
  <1>1. Inv /\ [Next]_vars =>
          [\A h \in Handlers : Commits(h) => config' = requests[h].want]_vars
    <2> SUFFICES ASSUME Inv, Next, NEW h \in Handlers, Commits(h)
                 PROVE  config' = requests[h].want
      BY Zenon
    <2>1. PICK k \in Handlers : Receive(k) \/ mutateRPCListeners(k) \/ Refuse(k)
      BY Zenon DEF Next
    <2>2. ~Refuse(k) /\ ~Receive(k)
      BY Zenon DEF Commits, Refuse, Receive, createRPCListener, createNested, createGlobalWebhook,
             createContract, createEvent, createNestedWebhook, deleteContract, deleteEvent,
             deleteNestedWebhook, patchEvent, patchNestedWebhook, deleteRPCListener,
             deleteNested, deleteGlobalWebhook, patchRPCListener, patchContract, patchNested,
             patchGlobalWebhook, setListenerPaused, handleRPCListenerImport, LoadListener,
             LoadValid, Load
    <2>3. k = h
      BY <2>1, <2>2, Zenon DEF mutateRPCListeners, Commits, Inv, TypeOK
    <2> QED
      BY <2>1, <2>2, <2>3, CommitStores, Zenon
  <1> QED
    BY <1>1, InitInv, NextKeeps, PTL DEF Spec, StoresWhatWasValidated

----------------------------------------------------------------------------
(* Revisions. *)

\* The configuration only changes together with the revision.  A revision is
\* left by one request, which had read it, and all others in flight are stale
\* from then on.
Overtakes(h) ==
    /\ requests[h] # NoRequest /\ requests[h].expected = revision
    /\ revision' = revision + 1
    /\ \A g \in Handlers \ {h} :
         requests'[g] = requests[g] /\ (requests[g] # NoRequest => requests[g].expected < revision')

OneSuccessor ==
    [][/\ config' # config => revision' # revision
       /\ revision' # revision => \E h \in Handlers : Overtakes(h)]_vars

\* Of the requests that read the same revision at most one is stored, however
\* many are in flight, and whoever reads the same revision twice has read the
\* same configuration (expectedRevision of mutateRPCListeners).
THEOREM RevisionsAreSucceededOnce == Spec => OneSuccessor
  <1>1. ASSUME Inv, NEW h \in Handlers, mutateRPCListeners(h)
        PROVE  revision' # revision /\ Overtakes(h)
    <2>1. /\ revision \in Int /\ revision' = revision + 1
          /\ requests[h] # NoRequest /\ requests[h].expected = revision
          /\ requests' = [requests EXCEPT ![h] = NoRequest]
          /\ requests \in [Handlers -> Requests \cup {NoRequest}]
      BY <1>1 DEF Inv, TypeOK, mutateRPCListeners
    <2>2. revision' # revision
      BY <2>1
    <2>3. ASSUME NEW g \in Handlers \ {h}, requests[g] # NoRequest
          PROVE  requests[g].expected < revision'
      <3>1. requests[g] \in Requests /\ requests[g].expected <= revision
        BY <1>1, <2>1, <2>3, Zenon DEF Inv, AllFresh, Fresh
      <3>2. requests[g].expected \in Int
        BY <3>1 DEF Requests
      <3> QED
        BY <2>1, <3>1, <3>2
    <2>4. \A g \in Handlers \ {h} : requests'[g] = requests[g]
      BY <2>1, Zenon
    <2> QED
      BY <2>1, <2>2, <2>3, <2>4, Zenon DEF Overtakes
  <1>2. ASSUME NEW h \in Handlers, Receive(h) \/ Refuse(h)
        PROVE  UNCHANGED <<config, revision>>
    BY <1>2, Zenon DEF Refuse, Receive, createRPCListener, createNested, createGlobalWebhook,
           createContract, createEvent, createNestedWebhook, deleteContract, deleteEvent,
           deleteNestedWebhook, patchEvent, patchNestedWebhook, deleteRPCListener,
           deleteNested, deleteGlobalWebhook, patchRPCListener, patchContract, patchNested,
           patchGlobalWebhook, setListenerPaused, handleRPCListenerImport, LoadListener,
           LoadValid, Load
  <1>3. Inv /\ [Next]_vars =>
          [/\ config' # config => revision' # revision
           /\ revision' # revision => \E h \in Handlers : Overtakes(h)]_vars
    BY <1>1, <1>2, Zenon DEF Next
  <1> QED
    BY <1>3, InitInv, NextKeeps, PTL DEF Spec, OneSuccessor
=============================================================================
