CONSTANTS
  Tools = {"cdk8s", "helm", "ytt"}
  Id = "cncf-demo"
  DbId = "cncf-demo-db"
  BaseFiles <- Committed
  OverlayFiles <- Destinations
SPECIFICATION FairSpec
CHECK_DEADLOCK FALSE
PROPERTY VideosAnswered
