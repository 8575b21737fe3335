SPECIFICATION Spec
CONSTANTS
  Flows = {f1}
  NoFlow = NoFlow
  Handlers = {h1, h2}
  Capacity = 1
  Scenarios = {{"overlap"}}
INVARIANT
  DeferredWhileEvaluating
