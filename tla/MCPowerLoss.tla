---------------------------- MODULE MCPowerLoss ----------------------------
EXTENDS PowerLoss

CONSTANT w1

DelayOne == <<1>>
=============================================================================
