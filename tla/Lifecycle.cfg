SPECIFICATION FairSpec
CONSTANT MaxLaunches = 2
INVARIANTS DisconnectedIsClean PacPointsAtProxy OrderlyStartIsLive WindowCloseRestores
PROPERTIES UserPacKept ButtonsComeBack
