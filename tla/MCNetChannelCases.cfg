SPECIFICATION Spec
CONSTANTS
  g0 = g0 r1 = r1 r2 = r2 r3 = r3 r4 = r4 r5 = r5 s0 = s0 s1 = s1 s2 = s2 s3 = s3
  p1 = p1 p2 = p2 primary = primary sub = sub
  NoPeer = NoPeer NoBlock = NoBlock
INVARIANTS DownloadsSafely 
