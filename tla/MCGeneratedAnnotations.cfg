SPECIFICATION AllSpec
CONSTANTS
  A = A
  B = B
  m = m
  g = g
  h = h
  ms = ms
  mp = mp
  mq = mq
  mk = mk
  gr = gr
  hu = hu
  one = one
  two = two
  object = object
  bad = bad
  Class = {A, B}
  Function = {m, g, h}
  Parameter = {ms, mp, mq, mk, gr, hu}
  Value = {one, two, object, bad}
  FunctionOf <- MCFunctionOf
  ClassOf <- MCClassOf
  NoClass = NoClass
  Unprintable = bad
  Inputs <- MCInputs
  ApiFunction = {m, g}
  ApiParameter = {ms, mp, mq, mk, gr}
  Default <- MCDefault
  NoDefault = NoDefault
  Literal = {one, two}
  Variadic = {mk}
  EnumTyped = {mp, gr}
  Bounded = {mq}
INVARIANTS
  CountsAddUp
  BatchesMakeNoDifference
  AnnotationsTellTheTruth
