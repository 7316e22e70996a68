\* Accounts up to id 3, so that unused ids, their reuse and the id after the
\* largest one all occur; two passwords, addresses and token keys; a clock that
\* passes the lifetime of a token.
SPECIFICATION LoginSpec
CONSTANTS
  Name <- MCName
  Number <- MCNumber
  Secret = {s1, s2}
  Address = {a1, a2}
  UintSize = 16
  token_timeout_ = 1
  MaxId = 3
  MaxKey = 2
  MaxTime = 2
SYMMETRY MCSymmetry
INVARIANTS
  LoginTypeOK
  CredentialsWork
PROPERTY
  TokensOnce
