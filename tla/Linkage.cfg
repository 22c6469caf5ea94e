SPECIFICATION Spec
CONSTANTS
  f = f
  g = g
  main = main
  x = x
  alloca = alloca
  Functions = {f, g, main}
  Variables = {x}
  Dialects = {"inline", "mixed", "scopes", "objects"}
  Items <- MCItems
  MaxItems <- Lengths
  Repeats = FALSE
INVARIANTS
  MeansTheSame
  EmitsWhatIsNeeded
  EveryObjectOnce
PROPERTIES
  MarkingEnds
CHECK_DEADLOCK FALSE
