\* The process is killed with a client connected; the service is created again.
CONSTANTS
  MaxInstances = 2
SPECIFICATION Spec
INVARIANT ScreenShowsService
