CONSTANTS
    s1 = s1
    s2 = s2
    run = run
    Subs <- TwoSubs
    Casters <- Engine1
    Hello = 2
    MaxCasts = 2
    MaxCommands = 1
    Nobody = Nobody
SPECIFICATION HubSpec
INVARIANTS NoMapRace NothingMissed NobodyStuck
SYMMETRY Symmetry
CHECK_DEADLOCK FALSE
