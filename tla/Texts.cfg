SPECIFICATION Spec
INVARIANTS
  TextsAreTakenApart
  ConversionsAreExact
CHECK_DEADLOCK FALSE
