SPECIFICATION MembersSpec
CONSTANTS
  Nobody = Nobody
  Self = self
  Nets = {n1, n2}
  Clients = {x}
INVARIANTS AccessGranted
PROPERTIES GatewayStays ShownAsClicked
