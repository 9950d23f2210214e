SPECIFICATION MCSpec
CONSTANTS
    None = None
    Customers = {c1, c2}
    Subscriptions = {s1, s2}
    Prices = {"team", "other"}
    PlanOfPrice <- TeamPrice
    Statuses = {"active"}
    Workers = {w1, w2}
    Limit <- SmallLimits
    Agents = {a1, a2, a3}
    Workflows = {d1, d2}
    AgentNames <- PresetAgents
    WorkflowNames <- FewWorkflowNames
    Slug <- MCSlug
    CopyNames <- MCCopyNames
    Presets <- OnePreset
    PresetNames <- MCPresetNames
    MaxCalls = 3
    MaxDeliveries = 3
SYMMETRY RowSymmetry
INVARIANTS
    TypeOK
    LimitsNearlyKept
    PresetsAreWhole
PROPERTIES
    FreshWebhooksMirror
