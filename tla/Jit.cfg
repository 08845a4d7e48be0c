SPECIFICATION Spec
CONSTANTS
  Half = 4
  MaxGen = 2
  LambdaOf <- MCLambdaOf
  Bodies <- MCBodies
  Machines <- MCMachines
  Crossable = {"return", "+.", "nl", "stacks_left", "exit", "bindnl"}
PROPERTIES AsTier0
CHECK_DEADLOCK FALSE
