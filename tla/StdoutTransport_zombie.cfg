\* A child that has exited is not reported.
CONSTANT MaxOutput = 3
SPECIFICATION Spec
PROPERTY ExitReported
