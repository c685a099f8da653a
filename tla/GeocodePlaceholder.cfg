SPECIFICATION Spec
CONSTANTS
  x = x  y = y  zero = zero  text = text  Null = Null
  Address = {"built", "new", "text", "disputed", "planned", "elsewhere", "abroad"}
  City <- MCCity
  Bin = {x, y}
  Placeholder = {zero, text}
  Spelled = {text}
  Lookup = {1}
  Join = {3}
  Tokens <- MCTokens
  Scenarios = {{1}}
  Threshold = 5
  Retries = 1
INVARIANT PlaceholdersFallBack
CHECK_DEADLOCK FALSE
