SPECIFICATION Spec
CONSTANTS
  home = home
  second = second
  away = away
  house = house
  mobile = mobile
  Slots = {0, 1}
  Addrs <- MCAddrs
  IpOf <- MCIpOf
  NoAddr = NoAddr
  NoToken = NoToken
  MaxClientsPerIp = 1
  Codes = {code}
  NoCode = NoCode
  NoPlayer = NoPlayer
INVARIANTS HalvesFit OneSlotPerAddress WithinIpLimit ReadyHasPlayer
