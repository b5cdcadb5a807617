\* The three cameras of CameraLayout.THREE.
SPECIFICATION FairSpec
CONSTANTS
    left = left
    center = center
    right = right
    Layout <- Three
INVARIANTS Owned AllReleased
PROPERTY FailedIsWithdrawn
\* The loop ends.
CHECK_DEADLOCK FALSE
