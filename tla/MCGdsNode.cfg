\* A head node and a headless one, two models, any operations in any order.
CONSTANTS
  modelA = modelA
  modelB = modelB
  Models = {modelA, modelB}
  None = None
SPECIFICATION Spec
INVARIANTS
  TypeOK
  ForwardHasTarget
  OwnTreeFound
