SPECIFICATION Spec
CONSTANTS
    Repository <- Library
    ProfilesFor <- Profiles
INVARIANT AcceptedIsImported
INVARIANT HostnamesCollideAtDash
INVARIANT ConfigIsRendered
INVARIANT EveryNodeConfigured
CHECK_DEADLOCK FALSE
