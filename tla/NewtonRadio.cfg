\* Two of: taps, requests, progress lines; one failure anywhere.
CONSTANTS
    Strips = 2
    HeartBeat = 9
    MaxWork = 2
    MaxFaults = 1
SPECIFICATION Spec
INVARIANTS TypeOK OneWatchdog LinkUnderTools QuitDropsAll HeldRadioWillExpire
PROPERTIES IdleAfterLastHold EarlierWatchdogsHarmless
CHECK_DEADLOCK FALSE
