SPECIFICATION NativeFairSpec
CONSTANT Joiners = {j1, j2, j3, j4}
INVARIANT JoinedOnce
PROPERTY JoinReturns
