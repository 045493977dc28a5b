\* A refused call of each command, and its repetition.
SPECIFICATION Spec
INVARIANT SameRefusalAgain
