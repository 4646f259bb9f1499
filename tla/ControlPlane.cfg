CONSTANTS
    r1 = r1
    r2 = r2
    key1 = key1
    s1 = s1
    s2 = s2
    p1 = p1
    none = none
    Rules = {r1, r2}
    TargetKeys = {key1}
    Selectors = {s1, s2}
    Redactions = {p1}
    NoRedaction = none
    MaxEdits = 3
    None = None
    ClusterKinds = {"Node"}
    DeniedKinds = {"Secret"}
    Home = "a"
    Specs <- MCSpecs
    SinkCRs <- MCSinkCRs
    Discoveries <- MCDiscoveries
    NamespaceSets = {{"a"}, {"a", "b"}}
    Grants <- MCGrants
    MaxRuleEdits = 2
    MaxFaults = 1
    Callers = {"rule", "clusterrule"}
    Gates = {"control"}
    GateOf <- MCGateOf
    Namespaced = {"rule"}
    ClusterScoped = TRUE
    BaseDelay = 1
    MaxDelay = 3
    MaxFlips = 3
SPECIFICATION ControlSpec
INVARIANTS
    MergedExactly
    NoLostWakeUp
    OpensInTime
PROPERTIES
    InstalledIsAdmitted
    KeepsSteady
    RegistryFollowsRule
    StatusTruthful
CHECK_DEADLOCK FALSE
