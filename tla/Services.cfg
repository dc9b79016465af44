\* The faucet with two wallets and requests, one fault and one crash; see
\* MCServices for the other parts.
SPECIFICATION ServicesSpec
CONSTANTS
  Wallet = {w1, w2}
  Request = {r1, r2}
  Funds = 2
  NoWallet = none
  MaxFaults = 1
  MaxCrashes = 1
  p1 = p1
  p2 = p2
  f1 = f1
  f2 = f2
  a = a
  b = b
  ada = ada
  bob = bob
  fanClub = fanClub
  mailName = mailName
  fan4 = fan4
  None = None
CHECK_DEADLOCK FALSE
INVARIANTS
    ServicesTypeOK
    OncePerWalletUndisturbed
    LockIsHeld
    ClaimsArePaid
    HubServes
PROPERTIES
    RequestsAnswered
    ReachesUpstream
    ChatInOrder
    ProfileHealed
