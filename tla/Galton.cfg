CONSTANTS
  OLED_W = 4
  OLED_H = 5
  NUM_BINS = 2
  PIN_SPACING_Y = 2
  PIN_ROWS = 1
  DX = 1
  MAX_BALLS = 2
  SPAWN_INTERVAL = 3
  HIST = 2
  TOTAL = 4
  DEBOUNCE = 2
  FRAME = 2
SPECIFICATION Spec
INVARIANTS TypeOK ViewFollows RestartHonoured Conserved BallsApart
