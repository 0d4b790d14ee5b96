CONSTANTS
  CONTADOR_INICIAL = 3
  PERIOD = 2
  DEBOUNCE = 1
  Slots = {t1, t2}
SPECIFICATION Spec
INVARIANT ShowsTheEnd
