SPECIFICATION FairSpec
CONSTANTS
  p1 = p1
  p2 = p2
  t1 = t1
  t2 = t2
  n1 = n1
  k1 = k1
  w1 = w1
  pem = pem
  Names = {n1}
  Keys = {n1, k1}
  Certs = {pem, c1}
  PEM = {pem}
  Token = token
  NoCert = NoCert
  NoKey = NoKey
  NoBlob = NoCert
  Blobs <- MCBlobs
  Procs = {p1, p2}
  Threads = {t1, t2}
  NoThread = NoThread
  TokenOf <- MCTokenOf
  Wilds = {w1}
  Matches <- MCMatches
  Dns <- MCDns
  MaxFaults = 1
INVARIANTS CertsTypeOK Exclusive StampFollows  NoStandstill
PROPERTIES ValidKept HandshakeAdvances HandshakeEnds
CHECK_DEADLOCK FALSE
