\* A listener emits the event it listens to.
CONSTANTS
    Handler = {f, g}
    NoHandler = NoHandler
    MaxListeners = 2
    MaxOnce = 1
    MaxDepth = 2
SPECIFICATION Spec
INVARIANT OnceRunsOnce
