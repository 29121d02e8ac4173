CONSTANTS
  Messages <- TheMessages
  Request = "Request"
  Fields <- TheFields
  FieldsOf <- TheFieldsOf
  Info <- TheInfo
  Methods <- TheMethods
  Siblings <- TheSiblings
  Texts = {"p1", "p2"}
  MaxSet = 2
SPECIFICATION Spec
CHECK_DEADLOCK FALSE
INVARIANTS
  EachFieldOnce
  RoutedOnce
  ResourceIsWhole
