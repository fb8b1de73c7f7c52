SPECIFICATION Spec
CONSTANTS
  Clients = {c1, c2, c3}
  NoClient = NoClient
  backlog = 2
  MaxProcs = 2
INVARIANTS
  NoForgottenZombie
  ChildOwnsOnlyItsClient
  ParentKeepsNoClient
  OpenWhileAttended
PROPERTIES
  ZombieReaped
  NotBlockedByChildren
  SocketClosedAfterChild
  ListenerReleased
CHECK_DEADLOCK FALSE
