CONSTANTS
    Harts = {h0, h1}
    Setters = {h0}
    Freqs = {22, 45, 119, 277, 390, 555, 1300, 1664, 1800}
    CpuFreqs = {403}
    MaxCalls = 2
SPECIFICATION Spec
INVARIANTS CpuClocked SettledAsAsked PllNearest
PROPERTY CallsReturn
CHECK_DEADLOCK FALSE
