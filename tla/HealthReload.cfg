\* One backend that is always up, two reloads.
CONSTANTS
    b1 = b1
    Targets = {b1}
    Configs <- SteadyConfigs
    CounterCap = 2
    Flaky = {}
    Proxied = {b1}
SPECIFICATION SpecR
INVARIANT ReloadsKeepTheHealthy
