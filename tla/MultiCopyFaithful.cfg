\* Two processes that share the offset of the source file.
CONSTANTS
    N = 2
    Size = 5
SPECIFICATION Spec
INVARIANT CopyFaithful
