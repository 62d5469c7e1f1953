SPECIFICATION FairSpec
INVARIANTS
  TypeOK
  MaintenanceExcludesWork
  VirtualMachineSerialized
  SecretsGoWithWork
PROPERTY QueuedWorkDecided
