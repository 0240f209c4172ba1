SPECIFICATION Spec
CONSTANTS
    Theirs = {t1, t2}
    Adapters <- AllAdapters
PROPERTIES
    LeaseKept
    ImplementsAdapter
