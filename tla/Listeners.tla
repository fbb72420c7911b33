----------------------------- MODULE Listeners -----------------------------
(***************************************************************************)
(* The configuration tables (RPC listeners, contracts, events, webhooks),  *)
(* their revision, and the management requests that change them.           *)
(*                                                                         *)
(* A request loads one snapshot, edits it in memory, validates the whole   *)
(* edited snapshot, and hands the store only the part it edited: one       *)
(* listener with everything below it, the global webhooks, or all of it.   *)
(* The store replaces that part in one transaction, if the revision is     *)
(* still the one the client named in If-Match.  Requests run concurrently. *)
(*                                                                         *)
(* A resource is its identifier; its place in the tree never changes.      *)
(* Addresses, selectors, URLs, credentials and scanner settings, and the   *)
(* checks on them, are left out: none of those checks looks beyond the one *)
(* part that is stored.  The audit row and the notification belong to the  *)
(* transaction and to Runtime; the answer to the client is left out.       *)
(***************************************************************************)
EXTENDS Integers

CONSTANTS Listeners, Contracts, Events, Webhooks,  \* identifiers
          Root,         \* what listeners and global webhooks hang from
          Parent,       \* Parent[r]: the resource r belongs to, or Root
          Chains,       \* chain IDs
          NoChain,      \* the chain of a listener that does not exist
          Documents,    \* configurations a client may import
          Handlers,     \* requests that can run at the same time
          NoRequest,    \* the handler is free
          MaxRevision   \* bound on the revision

Resources == Listeners \cup Contracts \cup Events \cup Webhooks

\* Listeners hold contracts, contracts hold events, and all of them, and the
\* configuration itself, hold webhooks.
ASSUME TreeAssumption ==
    /\ Root \notin Resources
    /\ Listeners \cap Contracts = {} /\ Listeners \cap Events = {}
    /\ Listeners \cap Webhooks = {} /\ Contracts \cap Events = {}
    /\ Contracts \cap Webhooks = {} /\ Events \cap Webhooks = {}
    /\ Parent \in [Resources -> Resources \cup {Root}]
    /\ \A l \in Listeners : Parent[l] = Root
    /\ \A c \in Contracts : Parent[c] \in Listeners
    /\ \A e \in Events : Parent[e] \in Contracts
    /\ \A w \in Webhooks : Parent[w] \notin Webhooks

Up(r) == IF r = Root THEN Root ELSE Parent[r]

\* r and everything it belongs to.
Lineage(r) == {r, Up(r), Up(Up(r)), Up(Up(Up(r))), Root}
Below(r) == {x \in Resources : r \in Lineage(x)}

GlobalWebhooks == {w \in Webhooks : Parent[w] = Root}
EventsOf(c) == {e \in Events : Parent[e] = c}

\* The attributes belong to rows of rpc_listeners.
Configurations ==
    {c \in [rows : SUBSET Resources,
            chain : [Listeners -> Chains \cup {NoChain}],
            paused : SUBSET Listeners] :
       /\ c.paused \subseteq c.rows
       /\ \A l \in Listeners : l \in c.rows <=> c.chain[l] # NoChain}

\* Every row belongs to a row: resources are nested in the documents, and the
\* tables have foreign keys.
Nested(rows) == \A r \in rows : Parent[r] \in rows \cup {Root}

ASSUME DocumentAssumption ==
    Documents \subseteq {c \in Configurations : Nested(c.rows)}
ASSUME NoChainAssumption == NoChain \notin Chains
ASSUME BoundAssumption == MaxRevision \in Nat

VARIABLES
    config,    \* the stored configuration
    revision,  \* rpc_listener_state.revision
    requests   \* requests[h]: what h is about to store, or NoRequest

vars == <<config, revision, requests>>

Requests == [expected : 0..MaxRevision,     \* the revision of the snapshot
             want : Configurations,         \* the edited snapshot
             part : SUBSET Resources,       \* what the store call replaces
             needs : SUBSET Listeners]      \* listeners it must find

ASSUME NoRequestAssumption == NoRequest \notin Requests

Init ==
    /\ config = [rows |-> {}, chain |-> [l \in Listeners |-> NoChain], paused |-> {}]
    /\ revision = 0
    /\ requests = [h \in Handlers |-> NoRequest]

----------------------------------------------------------------------------
(* Validation. *)

UniqueChains(c) ==
    \A l, m \in c.rows \cap Listeners : c.chain[l] = c.chain[m] => l = m

\* An event goes to the webhooks of the most specific level that has any: its
\* own, its contract's, its listener's, the global one.
Routed(c, e) == \E w \in c.rows \cap Webhooks : Parent[w] \in Lineage(e)

validateRPCListenerSnapshot(c) ==
    /\ UniqueChains(c)
    /\ \A e \in c.rows \cap Events : Routed(c, e)

----------------------------------------------------------------------------
(* The edits of the handlers. *)

Adding(c, new) == [c EXCEPT !.rows = @ \cup new]

Removing(c, gone) ==
    [rows |-> c.rows \ gone,
     chain |-> [l \in Listeners |-> IF l \in gone THEN NoChain ELSE c.chain[l]],
     paused |-> c.paused \ gone]

\* What a POST can create at r: r and resources nested in it.
NewTrees(r) ==
    {new \in SUBSET Below(r) : r \in new /\ \A x \in new \ {r} : Parent[x] \in new}

\* loadExpectedSnapshot: the client's revision is the current one.
Load(h, want, part, needs) ==
    /\ requests' = [requests EXCEPT ![h] = [expected |-> revision, want |-> want,
                                            part |-> part, needs |-> needs]]
    /\ UNCHANGED <<config, revision>>

LoadValid(h, want, part, needs) ==
    /\ validateRPCListenerSnapshot(want)
    /\ Load(h, want, part, needs)

\* A handler that replaces one listener (loadListenerMutation).
LoadListener(h, l, want) == l \in config.rows /\ LoadValid(h, want, Below(l), {l})

----------------------------------------------------------------------------
(* The handlers, up to the store call. *)

createRPCListener(h, l) ==
    /\ l \notin config.rows
    /\ \E new \in NewTrees(l), chain \in Chains, paused \in SUBSET {l} :
         LoadValid(h, [Adding(config, new) EXCEPT !.chain[l] = chain,
                                                  !.paused = @ \cup paused],
                   Below(l), {})

\* A POST below a listener; the resource it is created in exists.
createNested(h, l, r) ==
    /\ r \in Below(l) \ (config.rows \cup {l})
    /\ Parent[r] \in config.rows
    /\ \E new \in NewTrees(r) : LoadListener(h, l, Adding(config, new))

createContract(h, l, c) == c \in Contracts /\ createNested(h, l, c)
createEvent(h, l, e) == e \in Events /\ createNested(h, l, e)
createNestedWebhook(h, l, w) == w \in Webhooks /\ createNested(h, l, w)

createGlobalWebhook(h, w) ==
    /\ w \in GlobalWebhooks \ config.rows
    /\ LoadValid(h, Adding(config, {w}), GlobalWebhooks, {})

deleteRPCListener(h, l) == LoadListener(h, l, Removing(config, Below(l)))

\* A DELETE below a listener, with everything below the resource.
deleteNested(h, l, r) ==
    /\ r \in (Below(l) \ {l}) \cap config.rows
    /\ LoadListener(h, l, Removing(config, Below(r)))

deleteContract(h, l, c) == c \in Contracts /\ deleteNested(h, l, c)
deleteEvent(h, l, e) == e \in Events /\ deleteNested(h, l, e)
deleteNestedWebhook(h, l, w) == w \in Webhooks /\ deleteNested(h, l, w)

\* Mutant: the deletion of a global webhook is not validated.
deleteGlobalWebhookUnvalidated(h, w) ==
    /\ w \in GlobalWebhooks \cap config.rows
    /\ Load(h, Removing(config, {w}), GlobalWebhooks, {})

deleteGlobalWebhook(h, w) ==
    /\ w \in GlobalWebhooks \cap config.rows
    /\ LoadValid(h, Removing(config, {w}), GlobalWebhooks, {})

\* The chain may change; the other fields are not part of the model.
applyRPCListenerPatch(c, l, chain) == [c EXCEPT !.chain[l] = chain]

patchRPCListener(h, l, chain) ==
    LoadListener(h, l, applyRPCListenerPatch(config, l, chain))

\* eventSelectors replaces the contract's events; an event it names keeps its
\* webhooks, a new one has none.
applyContractPatch(c, contract, named) ==
    Adding(Removing(c, UNION {Below(e) : e \in EventsOf(contract) \ named}), named)

patchContract(h, l, c) ==
    /\ c \in Below(l) \cap Contracts \cap config.rows
    /\ \E named \in SUBSET EventsOf(c) :
         LoadListener(h, l, applyContractPatch(config, c, named))

\* Only fields outside the model change; the listener is stored all the same.
patchNested(h, l, r) == r \in Below(l) \cap config.rows /\ LoadListener(h, l, config)

patchEvent(h, l, e) == e \in Events /\ patchNested(h, l, e)
patchNestedWebhook(h, l, w) == w \in Webhooks /\ patchNested(h, l, w)

patchGlobalWebhook(h, w) ==
    /\ w \in GlobalWebhooks \cap config.rows
    /\ LoadValid(h, config, GlobalWebhooks, {})

\* Pause and resume do not validate: they edit nothing the checks look at.
setListenerPaused(h, l) ==
    /\ l \in config.rows
    /\ Load(h, [config EXCEPT !.paused = IF l \in @ THEN @ \ {l} ELSE @ \cup {l}],
            Below(l), {l})

handleRPCListenerImport(h, document) == LoadValid(h, document, Resources, {})

----------------------------------------------------------------------------
(* The store. *)

\* The INSERTs of a part.
Inserting(c, d, part) ==
    [rows |-> c.rows \cup (d.rows \cap part),
     chain |-> [l \in Listeners |-> IF l \in part THEN d.chain[l] ELSE c.chain[l]],
     paused |-> c.paused \cup (d.paused \cap part)]

\* Create-, Replace-, DeleteRPCListener, ReplaceGlobalWebhooks and
\* ReplaceRPCListenerSnapshot: the part is deleted and inserted as the request
\* has it, the rest stays as it is stored.
Stored(c, request) == Inserting(Removing(c, request.part), request.want, request.part)

\* Mutant: the revision is not compared in the transaction.
mutateRPCListenersUnchecked(h) ==
    /\ requests[h] # NoRequest
    /\ requests[h].needs \subseteq config.rows
    /\ UniqueChains(Stored(config, requests[h]))
    /\ revision < MaxRevision
    /\ config' = Stored(config, requests[h])
    /\ revision' = revision + 1
    /\ requests' = [requests EXCEPT ![h] = NoRequest]

\* One transaction; chain_id is UNIQUE.
mutateRPCListeners(h) ==
    /\ requests[h] # NoRequest
    /\ requests[h].expected = revision
    /\ requests[h].needs \subseteq config.rows
    /\ UniqueChains(Stored(config, requests[h]))
    /\ revision < MaxRevision
    /\ config' = Stored(config, requests[h])
    /\ revision' = revision + 1
    /\ requests' = [requests EXCEPT ![h] = NoRequest]

\* The transaction is rolled back (the revision has moved, a row is missing, a
\* constraint or a statement fails), the client goes away, or the process stops.
Refuse(h) ==
    /\ requests[h] # NoRequest
    /\ requests' = [requests EXCEPT ![h] = NoRequest]
    /\ UNCHANGED <<config, revision>>

----------------------------------------------------------------------------
Receive(h) ==
    /\ requests[h] = NoRequest
    /\ \/ \E l \in Listeners :
            \/ createRPCListener(h, l) \/ deleteRPCListener(h, l) \/ setListenerPaused(h, l)
            \/ \E chain \in Chains : patchRPCListener(h, l, chain)
            \/ \E c \in Contracts :
                 createContract(h, l, c) \/ deleteContract(h, l, c) \/ patchContract(h, l, c)
            \/ \E e \in Events :
                 createEvent(h, l, e) \/ deleteEvent(h, l, e) \/ patchEvent(h, l, e)
            \/ \E w \in Webhooks : \/ createNestedWebhook(h, l, w)
                                  \/ deleteNestedWebhook(h, l, w)
                                  \/ patchNestedWebhook(h, l, w)
       \/ \E w \in Webhooks : \/ createGlobalWebhook(h, w)
                             \/ deleteGlobalWebhook(h, w)
                             \/ patchGlobalWebhook(h, w)
       \/ \E document \in Documents : handleRPCListenerImport(h, document)

Next == \E h \in Handlers : Receive(h) \/ mutateRPCListeners(h) \/ Refuse(h)

Spec == Init /\ [][Next]_vars
----------------------------------------------------------------------------
(* Properties. *)

\* The configuration and the requests are well-formed.
TypeOK ==
    /\ config \in Configurations
    /\ revision \in 0..MaxRevision
    /\ requests \in [Handlers -> Requests \cup {NoRequest}]

\* Although every request stores only its part of what it validated, the stored
\* configuration as a whole passes validateRPCListenerSnapshot at all times: no
\* event loses its last webhook to a concurrent request, no chain is scanned for
\* two listeners, and nothing is left hanging from a deleted resource.
ConfigurationValid == validateRPCListenerSnapshot(config) /\ Nested(config.rows)

\* A transaction leaves behind exactly the snapshot its request validated: what
\* other requests stored since it was loaded is never overwritten or combined
\* with it ("expectedRevision prevents a stale administrator from overwriting
\* changes", CreateRPCListener).
Commits(h) == requests[h] # NoRequest /\ revision' # revision /\ requests'[h] = NoRequest
StoresWhatWasValidated == [][\A h \in Handlers : Commits(h) => config' = requests[h].want]_vars
=============================================================================
