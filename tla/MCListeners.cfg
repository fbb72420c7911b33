SPECIFICATION Spec
SYMMETRY MCSymmetry
CONSTANTS
    l1 = l1
    l2 = l2
    c1 = c1
    e1 = e1
    g = g
    w1 = w1
    Listeners <- MCListenerIDs
    Contracts = {c1}
    Events = {e1}
    Webhooks <- MCWebhooks
    Root = Root
    Parent <- MCParent
    Chains = {1, 2}
    NoChain = NoChain
    Documents <- MCDocuments
    Handlers = {h1, h2}
    NoRequest = NoRequest
    MaxRevision = 3
INVARIANTS
    ConfigurationValid
PROPERTIES
    StoresWhatWasValidated
