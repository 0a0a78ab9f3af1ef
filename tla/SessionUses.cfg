SPECIFICATION Spec
CONSTANTS
  MaxReq = 4
  MaxSessions = 2
  MaxRemote = 2
  Uses <- AllUses
INVARIANTS TypeOK RunOnce InStep AddressesLead CallbacksPaired
PROPERTIES ClosesTheNamed RunsBetweenCallbacks
CHECK_DEADLOCK FALSE
