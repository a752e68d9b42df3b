SPECIFICATION Spec
CONSTANT MaxLaunches = 1
INVARIANT ConnectedIsLive
