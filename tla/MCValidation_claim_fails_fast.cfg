SPECIFICATION Spec
CONSTANTS
    Nodes <- MCNodes
    Ports <- MCPorts
    LinkLists <- MCLinkLists
    Config <- MCConfig
    StrictUnicastFw = FALSE
    Address <- MCAddress
    Multicast = {7}
    Largest <- MCLargest
    Documents <- MCDocuments
INVARIANT FailsFast
