SPECIFICATION Spec
CONSTANTS
    r1 = r1
    r2 = r2
    r3 = r3
    rootA = rootA
    rootB = rootB
    Nobody = Nobody
    Runs = {r1, r2, r3}
    Watchers = {w1}
    Roots = {rootA, rootB}
    Resources = {1, 2}
    RootOf <- SharedRootOf
    LocksOf <- SharedLocksOf
    ParentOf <- SharedParentOf
CHECK_DEADLOCK FALSE
INVARIANT SomeRunGetsThrough
PROPERTY ImplementsExclusion
