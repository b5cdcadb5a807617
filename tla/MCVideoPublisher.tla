--------------------------- MODULE MCVideoPublisher ---------------------------
(***************************************************************************)
(* Instances of VideoPublisher for TLC.                                    *)
(***************************************************************************)
EXTENDS VideoPublisher

CONSTANTS left, center, right

\* CameraLayout.THREE.
Three == <<left, center, right>>
===============================================================================
