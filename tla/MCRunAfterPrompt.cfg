CONSTANTS
  Owner = owner
  Thread = thread
  Others = {}
  NoThread = none
SPECIFICATION PromptSpec
PROPERTIES
  StopIsPrompt
CHECK_DEADLOCK FALSE
