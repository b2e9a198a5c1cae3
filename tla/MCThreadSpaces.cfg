SPECIFICATION Spec
CONSTANTS
  device = device
  mixed = mixed
  local = local
  back = back
  deleter1 = deleter1
  deleter2 = deleter2
  in1 = in1
  in2 = in2
  out = out
  perm = perm
  perm1 = perm1
  plain = plain
  NoThread = NoThread
  Callers = {device, mixed, local, back}
  Deleters = {deleter1, deleter2}
  Spaces = {in1, in2, out}
  Home <- MCHome
  Out <- MCOut
  Clients <- MCClients
  Addrs = {perm, perm1, plain}
  Where <- MCWhere
  Permanent = {perm, perm1}
INVARIANTS
  NotRemovedWhileCalled
  CalledWithLock
PROPERTIES
  CallsReturn
CHECK_DEADLOCK FALSE
