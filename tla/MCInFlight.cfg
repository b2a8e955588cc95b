SPECIFICATION Spec
CONSTANTS
  q1 = q1
  q2 = q2
  q3 = q3
  q4 = q4
  ip1 = ip1
  ip2 = ip2
  net = net
  Requests = {q1, q2, q3, q4}
  Ips = {ip1, ip2}
  Subnets = {net}
  SubnetOf <- MCSubnetOf
  Order <- MCOrder
  Threads = 3
  GlobalCap = 1
  IpCap = 1
  MaxEntries = 0
  None = None
SYMMETRY Symmetry
CHECK_DEADLOCK FALSE
INVARIANTS
  TypeOK
  CountExact
  NoPhantom
  SubnetExact
  AdmittedWithinCap
  GlobalCeiling
