CONSTANTS
    i1 = i1
    i2 = i2
    sco = sco
    emop = emop
    ana = ana
    bia = bia
    Item = {i1, i2}
    Source = {sco, emop}
    Contractual = {sco}
    Subject = {ana, bia}
    Relay = {1, 2}
    RelayLimit = 2
    Instances = 2
    Scenario <- TwoOverSources
SPECIFICATION Spec
INVARIANT
    ContractIsNeverDirty
CHECK_DEADLOCK FALSE
