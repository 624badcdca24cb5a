SPECIFICATION Spec
CONSTANTS
  Instances = {i1, i2}
  Consumers = {c1}
  Located <- MCLocated
  MaxReports = 1
  Kinds = {"ready", "consumer", "list", "subscription", "restart"}
  MaxChanges = 3
PROPERTIES
  EventuallyOneOwner
