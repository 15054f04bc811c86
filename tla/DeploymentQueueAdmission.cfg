CONSTANTS
  a = a
  b = b
  x = x
  y = y
  d = d
  Nobody = Nobody
  Upload = {x}
  Direct = {d}
  Attempt = {a, b}
  UploadOf <- SentTwice
  MaxLimit = 2
  TTL = 6
  Interval = 2
  MaxWait = 1
SPECIFICATION Spec
INVARIANTS TypeOK UploadKeepsPlace
PROPERTIES NewcomersRespectLimit RenewedPlaceStays OverrunsAreLate
