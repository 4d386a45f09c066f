SPECIFICATION Spec
CONSTANTS
  c1 = c1
  c2 = c2
  Calls = {c1, c2}
  Timeout = 1
  MaxCloseTasks = 0
  None = None
PROPERTIES
  PromptDelivery
  CallsEnd
