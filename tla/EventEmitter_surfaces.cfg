\* Two handlers, which may be on every surface at once, before and inside a dispatch.
CONSTANTS
    Handler = {f, g}
    NoHandler = NoHandler
    MaxListeners = 3
    MaxOnce = 1
    MaxDepth = 1
SYMMETRY HandlerSymmetry
SPECIFICATION Spec
INVARIANTS
    DomListenersUnique
    AttributeReadsBack
