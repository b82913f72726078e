SPECIFICATION Spec
CONSTANTS
  Windows = {w1, w2}
  Nobody = nobody
  Exporters = {w1}
  Threads = {t1, t2}
  MaxClients = 2
  Lines = 2
  Undelivered = 1
INVARIANT TypeOK
INVARIANT RefusedOnlyByJob
INVARIANT HonestDisplay
PROPERTY Implements
SYMMETRY Alike
CHECK_DEADLOCK FALSE
