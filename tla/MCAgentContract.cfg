SPECIFICATION Spec
CONSTANTS
  Own = Own
  Fresh = Fresh
  Some = Some
  Messages <- SomeMessages
INVARIANTS RelayPreserves NeverRefused RelayInv
