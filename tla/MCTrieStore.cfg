\* Any sequence of insertions and deletions of eight words.
CONSTANTS
    Char = {"a", "b"}
    Words <- MCWords
    Values = {v1, v2}
SPECIFICATION Spec
INVARIANTS TypeOK NoDanglingBranch
PROPERTY ImplementsMap
