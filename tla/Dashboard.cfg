SPECIFICATION DashboardSpec
CONSTANTS
  o1 = o1
  Orders = {o1}
  Lines = {o1}
  OrderOf <- OneOrderOf
  Hosts = {"fastapi", "site"}
  Polls = {1, 2}
  HighRisk = {o1}
  MaxWire = 1
INVARIANTS DashboardType AcknowledgedIsRecorded
PROPERTIES ClickMeansWhatItSays ViewNeverGoesBack ViewCatchesUp
