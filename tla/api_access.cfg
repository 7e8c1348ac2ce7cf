\* Every command line that clap accepts, and every kind of request.
\* A process that has given up takes no further step.
CHECK_DEADLOCK FALSE
SPECIFICATION ApiSpec
CONSTANTS
  Choice <- Option
INVARIANTS
  ApiTypeOK
  ReadyBeforeServing
  ServersAreSupplied
  ApiStaysBehindItsName
  
PROPERTIES
  ActsOnlyForTheToken
