SPECIFICATION Spec
CONSTANTS
  x = x  y = y  zero = zero  text = text  Null = Null
  Address = {"built", "new", "text", "disputed", "planned", "elsewhere", "abroad"}
  City <- MCCity
  Bin = {x, y}
  Placeholder = {zero, text}
  Spelled = {text}
  Lookup = {1, 2}
  Join = {3}
  Tokens <- MCTokens
  Scenarios = {{1, 2}, {3}}
  Threshold = 5
  Retries = 1
INVARIANTS AnswersTrue OnlyHumans PageTold
PROPERTY Settles
CHECK_DEADLOCK FALSE
