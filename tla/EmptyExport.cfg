SPECIFICATION Spec
CONSTANTS
  d1 = d1
  rival = rival
  Rival = rival
  MaxNonce = 1
  funder = funder
  relayer = relayer
  stranger = stranger
  contract = contract
  zero = zero
  nobody = nobody
  nil = nil
  nofile = nofile
  s1 = s1
  unset = unset
  Unset = unset
  VoucherBuf = 1
  Uint256 = 16
  Strangers <- MCStrangers
  Drivers <- MCDrivers
  Ids <- MCIds
  ForeignIds <- MCForeignIds
  Funder = funder
  RelayerSigner = relayer
  Contract = contract
  ZeroAddress = zero
  Nobody = nobody
  Nil = nil
  NoFile = nofile
  ChainID = 5
  IdBytes = 2
  Millisecond = 2
  Word = 16
  Uint <- MCUint
  KeyOf <- MCKeyOf
  AddressOf <- MCAddressOf
  Shells <- MCShells
  Files <- MCFiles
INVARIANT
  ExportsTakePrecedence
CHECK_DEADLOCK FALSE
