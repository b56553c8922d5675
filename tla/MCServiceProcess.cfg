\* One process of each kind on each host, from its start to its end.
SPECIFICATION FairSpec
CONSTANTS
    Hosts <- FewHosts
    None = None
    Urls <- FewUrls
INVARIANTS
    NeedsAreOpen
    NothingLeftOpen
    RuntimeAsWritten
PROPERTY StopLeadsToEnd
