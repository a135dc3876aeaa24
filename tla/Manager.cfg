SPECIFICATION MCSpec
CONSTANTS
  Worker = {"web", "api", "mta"}
  Stopped = {"web", "api"}
  Pid <- MCPid
  Slots <- MCSlots
  MaxLater = 2
INVARIANT WorkersRecorded LinksWork
