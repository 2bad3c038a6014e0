SPECIFICATION FairSpec
CONSTANTS
  r0 = r0
  r1 = r1
  ann = ann
  ben = ben
  nowhere = nowhere
  Addrs <- McAddrs
  Ifaces = {0, 1}
  IfaceIp <- McIfaceIp
  Routes = {0, 1}
  NextHop <- McNextHop
  OutIface <- McOutIface
  Lookup <- McLookup
  MaxTtl = 2
  Words = {ann}
  Offers <- McOffers
  Hosts = {ann, ben}
  HostIface <- McHostIface
  Announcers = {ann}
  MaxSends = 3
CHECK_DEADLOCK FALSE
PROPERTY QueuedAreSent
