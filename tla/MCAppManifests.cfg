CONSTANTS
  Tools = {"cdk8s", "helm", "ytt"}
  Id = "cncf-demo"
  DbId = "cncf-demo-db-dev"
  BaseFiles <- MCBaseFiles
  OverlayFiles <- MCOverlayFiles
SPECIFICATION FairSpec
CHECK_DEADLOCK FALSE
INVARIANTS TypeOK ServiceSelectsPods SameDatabase TableWherePodLooks
PROPERTY AppServes
