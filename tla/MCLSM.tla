-------------------------------- MODULE MCLSM --------------------------------
EXTENDS LSM

MCItems == Mems \cup Disks

MCPairs == Keys \X MCItems
=============================================================================
