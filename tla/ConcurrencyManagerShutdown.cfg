SPECIFICATION ManagerSpec
CONSTANTS
    Operations = {o1}
    MaxConcurrent = 1
PROPERTY
    NoNewOperations
