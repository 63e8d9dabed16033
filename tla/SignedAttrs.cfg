SPECIFICATION Spec
CONSTANTS
  Objects <- Trees
  FciCases <- Answers
  SodCases <- SodLayouts
  Dg14Cases <- Dg14Layouts
  AccessCases <- InfoLists
  Documents <- Holdings
INVARIANT HashesInEitherPlace
