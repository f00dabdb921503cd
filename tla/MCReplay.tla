------------------------------ MODULE MCReplay ------------------------------
EXTENDS Replay

MCAll == Scripts
=============================================================================
