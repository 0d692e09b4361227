SPECIFICATION HostSpec
CONSTANTS
    d1 = d1
    d2 = d2
    Dvas = {d1, d2}
    Pids = {1, 2, 3}
    Forking = {1}
    MaxBegun = 3
    MaxReuse = 1
    unseal = unseal
    force = force
    seal1 = seal1
    seal2 = seal2
    reseal1 = reseal1
    reseal2 = reseal2
    a = a
    b = b
    Unseals = {unseal, force}
    Forced = {force}
    Seals = {seal1, seal2}
    Reseals = {reseal1, reseal2}
    Texts = {a, b}
    Parties <- Two
    MaxChanges = 1
    older = older
    newer = newer
    off = off
    Commands = {older, newer, off}
    Removing = {off}
    Rules = {1, 2}
    Want <- Wanted
    MaxEdits = 2
    Segments <- AnySegment
    Covers <- Globs
    Written <- UsualLines
    OwnRules <- MachineRules
    MaxWritten = 2
    MaxLines = 6
SYMMETRY Interchangeable
CHECK_DEADLOCK FALSE
INVARIANTS
    TrackedUntilGone
    EnvTruthful
    GitignoreSettled
PROPERTIES
    NoSecondStart
    CommandsMeanIt
    EnvKeepsOthers
    DenyKeepsForeign
