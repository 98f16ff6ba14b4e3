-------------------------- MODULE MCCameraWrapper --------------------------
EXTENDS CameraWrapper, TLC

CONSTANTS back, front

\* The two cameras of the device, either of which may be opened first.
MCCameras == { back, front }
Symmetry  == Permutations(MCCameras)

=============================================================================
