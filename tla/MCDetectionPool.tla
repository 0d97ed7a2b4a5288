--------------------------- MODULE MCDetectionPool ---------------------------
EXTENDS DetectionPool

CONSTANTS cam1, cam2

MCStreams == {cam1, cam2}
MCOne == {cam1}
=============================================================================
