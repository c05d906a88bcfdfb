SPECIFICATION MCSpec
CONSTANTS
  Requests = {r1, r2}
  Names <- MCNames
  Models <- MCModels
  Targets <- MCTargets
  Snapshots <- MCSnapshots
  Fallbacks <- MCFallbacks
  MaxTurns = 3
  None = None
  PolicyNames <- MCPolicyNames
  Rules <- MCRules
  SettingsOrder <- MCSettingsOrder
  SettingsRules <- MCSettingsRules
  Inquiries <- MCInquiries
  NoRule = NoRule
SYMMETRY MCSymmetry
INVARIANTS EveryTargetOnce PolicyOrder EvenTurns LowestNumberRules
PROPERTIES VerdictsAreStable DenyStands
