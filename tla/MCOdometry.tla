----------------------------- MODULE MCOdometry -----------------------------
EXTENDS Odometry
=============================================================================
