CONSTANTS
  codex = codex
  gemini = gemini
  Providers = {codex, gemini}
  Names = {n1}
  n1 = n1
  Codex = codex
  NoProvider = NoProvider
  MaxAttempts = 3
SPECIFICATION LoginSpec
CHECK_DEADLOCK FALSE
INVARIANT LoginNeverStopsGateway
