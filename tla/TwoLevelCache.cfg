SPECIFICATION Spec
CONSTANTS
  Procs = {"api", "notifier"}
  Subscribers = {"api"}
  Slots = {1}
  RemoteTtl = 3
  LocalTtl = 2
  MaxStep = 1
  MaxTime = 6
INVARIANTS BoundedAge
PROPERTIES ImplementsRegister
CHECK_DEADLOCK FALSE
