\* Files read line by line and the systems built from them; iterations over
\* the edges of tuples of locations; products of processes.
SPECIFICATION AnySpec
CONSTANT Infinity <- Inf
CONSTANT Ages <- SomeAges
CONSTANT Files <- SomeFiles
INVARIANTS FinitenessKnown SystemsBuilt EdgesExact
PROPERTY FlatteningExact
\* The parser stops at the end of the file, or when the user says so;
\* iterations and constructions end.
CHECK_DEADLOCK FALSE
