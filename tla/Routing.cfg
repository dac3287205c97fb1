SPECIFICATION MCSpec
CONSTANTS
  Models <- MCModels
  Features = {"text"}
  Layers = {"A"}
  Seed <- MCSeed
  Builds = {"now", "old"}
  Build = "now"
  Writers = {"w1"}
  Contested <- MCContested
  MaxWrites = 2
  ProviderOf <- MCProviderOf
  FamilyOf <- MCFamilyOf
  CapsOf <- MCCapsOf
  ReasoningOf <- MCReasoningOf
  Order <- MCOrder
  Tiers = {"fable", "opus"}
  TierMapping <- MCTierMapping
  Helpers <- MCHelpers
  Policies <- MCMoves
  ExperimentalModels = FALSE
  AllowQuarantineBypass = FALSE
  Wired = FALSE
  Leases = {"l1"}
  Calls <- MCCalls
  Slots = {s1}
  MaxRequests = 2
  MaxEdits = 1
  Roots = {"fresh", "reviewed", "held"}
INVARIANTS
  SessionTargetFrozen
  TierStaysInFamily
  AnswerNotBanned
  UnpinnedIsVouched
CHECK_DEADLOCK FALSE
