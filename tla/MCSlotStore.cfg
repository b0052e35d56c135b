\* Two subsystems with a slot variable each, two callers sharing each
\* variable, one server, two ids, each handed out afresh at most twice.
CONSTANTS
  Vars = {v1, v2}
  Sharers = {c1, c2}
  Servers = {s1}
  MaxIds = 2
  MaxEpoch = 2
SPECIFICATION Spec
CONSTRAINT EpochConstraint
INVARIANTS
  TypeOK
