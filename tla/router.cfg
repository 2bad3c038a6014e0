SPECIFICATION Spec
CONSTANTS
  r0 = r0
  r1 = r1
  ann = ann
  ben = ben
  nowhere = nowhere
  Addrs <- McAddrs
  Ifaces = {0, 1}
  IfaceIp <- McIfaceIp
  Routes = {0, 1}
  NextHop <- McNextHop
  OutIface <- McOutIface
  Lookup <- McLookup
  MaxTtl = 2
  Words = {ann, nowhere}
  Offers <- McOffers
  Hosts = {ann, ben}
  HostIface <- McHostIface
  Announcers = {ann, ben}
  MaxSends = 3
CHECK_DEADLOCK FALSE
INVARIANT IndInv
INVARIANT ArpIsTrue
INVARIANT ForwardedWell
INVARIANT AnswersGoHome
INVARIANT ReceivedWell
