\* Two exchanges, the first with an answer of up to two fragments.
INIT ConversationInit
NEXT ConversationNext
CONSTANTS
  Slots = {0, 1}
  Replays = FALSE
  MaxTurns = 2
  MaxParts <- Long
  Anonymous = FALSE
  Drafts = FALSE
CHECK_DEADLOCK FALSE
INVARIANT DeliveredWhole
 
