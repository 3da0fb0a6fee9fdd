CONSTANTS
  u1 = u1  u2 = u2  f1 = f1  Dog = Dog  NoTp = NoTp  NoOne = NoOne
  Users <- OneUser  Fires <- OneFire
  Conns = {1, 2}  Cfgs = {"a", "b"}
  Requests = {"yield", "resume", "refresh", "probe", "patch", "upload"}
SPECIFICATION FairSpec
CONSTRAINT NotCrossed
INVARIANTS TypeOK HeldIsHeard OneConnection YieldFrees YieldKept ConfigInForce FireGetsLink
PROPERTY LinkRecovers
