SPECIFICATION Spec
CONSTANT num_nodes = 4
INVARIANTS
    ComponentsExact
    InCycleExact
