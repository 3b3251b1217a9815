SPECIFICATION FairSpec
CONSTANTS
  Absent = Absent
  U32Modulus = 1024
  Owner = Owner
  States = {build, verify}
  Leads <- SmallLeads
  Pad = 2
  MaxVisits = 3
  MaxChunks = 1
  Kinds = {"asked", "stale", "api_request"}
  ApiRequest = "api_request"
  EventRingSize = 2
  EventPageLimit = 1
  MaxAhead = 2
  MaxOutages = 1
  Calls <- OnlineCalls
  Stranger = Stranger
  OneCycle = OneCycle
  OneRepo = OneRepo
  OneRoot = OneRoot
  OneUrl = OneUrl
  Across = Across
  Outward = Outward
  Sideways = Sideways
PROPERTY EventsEnd
