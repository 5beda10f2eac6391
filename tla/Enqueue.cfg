\* Two producers, two idempotency keys and a job key, batches in either order.
SPECIFICATION Spec
CONSTANTS
  p = p
  q = q
  a = a
  b = b
  jk = jk
  None = None
  Producers = {p, q}
  IdemKeys = {a, b}
  JobKeys = {jk}
  Workloads <- Asked
  TxMode = "preserve_run_at"
  Ttl = 1
  MaxClock = 2
  MaxJobs = 3
SYMMETRY ProducerSymmetry
INVARIANT TypeOK
INVARIANT OneJobPerClaim
INVARIANT RepliesNameTheirJobs
PROPERTY RunAtPreserved
CHECK_DEADLOCK FALSE
