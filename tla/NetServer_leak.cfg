SPECIFICATION Spec
CONSTANTS
  home = home
  second = second
  away = away
  house = house
  mobile = mobile
  Slots = {0, 1}
  Addrs <- PairAddrs
  IpOf <- PairIpOf
  NoAddr = NoAddr
  NoToken = NoToken
  MaxClientsPerIp = 1
  Codes = {code}
  NoCode = NoCode
  NoPlayer = NoPlayer
INVARIANT AskedClientExists
