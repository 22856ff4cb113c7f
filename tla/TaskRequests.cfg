SPECIFICATION RequestSpec
CONSTANTS
  Person = {p1, p2}
  Editor = {e1, e2}
  Date = {d1, d2, d3}
VIEW Distinct
SYMMETRY Symmetry
INVARIANTS VersionNamesTask RecordsConsistent
PROPERTIES ChangesAreKnowing
CHECK_DEADLOCK FALSE
