SPECIFICATION FairSpec
INVARIANT ResourcesThere
PROPERTY UnloadEnds
