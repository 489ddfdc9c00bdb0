-------------------------- MODULE MCCameraService ---------------------------
\* Instance of CameraService for TLC.
EXTENDS CameraService
=============================================================================
