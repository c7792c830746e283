SPECIFICATION Spec
CONSTANTS
  Clients = {c1, c2, c3}
  WaitKinds = {TRUE}
PROPERTIES ListenerRestored
