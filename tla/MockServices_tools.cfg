CONSTANTS
  Call = {c1, c2, c3}
  Agent = {a1, a2}
  None = None
SPECIFICATION Spec
INVARIANT TypeOK CommentsKept NumbersOwn ContextsHeld EvidenceIsReal
SYMMETRY Alike
CHECK_DEADLOCK FALSE
