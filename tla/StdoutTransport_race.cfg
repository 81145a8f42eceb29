\* Read deletes the process that Send is using.
CONSTANT MaxOutput = 3
SPECIFICATION Spec
INVARIANT NoUseAfterFree
