---------------------------- MODULE MCDeployment ----------------------------
EXTENDS Deployment
=============================================================================
