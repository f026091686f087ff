CONSTANTS
    first = first
    second = second
    stranger = stranger
    Links <- MCLinks
    Permitted <- MCPermitted
    Sizes = {1, 2}
    MaxLinks = 2
    Resume = TRUE
    Timeout = 0
    Queue = 2
    NoOwner = NoOwner
SPECIFICATION Spec
INVARIANT ServiceInvariant
PROPERTIES
    ExpiredLinksClose
    OthersUndisturbed
