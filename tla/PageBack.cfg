\* Two probes and two turns in flight; the deployment changes once.
CONSTANTS
    Probes = {p1, p2}
    Turns = {t1, t2}
    Moods = {"well", "rate_limited", "at_capacity", "silent",
             "gateway_not_configured", "turnstile_misconfigured"}
    StrikesToDegrade = 2
    MaxMoods = 1
SPECIFICATION Spec
CHECK_DEADLOCK FALSE
INVARIANTS NeverAbandoned
PROPERTIES OutageEndsByATurn BackWhenWell
