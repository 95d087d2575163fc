\* Two instances of the service, one after or beside the other.
CONSTANTS
  MaxInstances = 2
SPECIFICATION Spec
INVARIANTS TypeOK DestroyReleases LoopIsTold InputMethodRestored PreferenceHasOwner OnlyTimerOverridesBox
