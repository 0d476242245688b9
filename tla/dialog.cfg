SPECIFICATION Spec
CONSTANTS
  Configs <- MCConfigs
  MaxPartials = 1
  Unlimited = Unlimited
 
PROPERTIES StopsOnce
\* A dialog ends.
CHECK_DEADLOCK FALSE
