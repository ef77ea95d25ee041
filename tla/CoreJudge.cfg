\* One request, one reload that changes retry_on_5xx.
CONSTANTS
    b1 = b1
    b2 = b2
    b3 = b3
    Nobody = Nobody
    Requests = {r1}
    Addrs = {b1, b2}
    Configs <- JudgeConfigs
    Health <- Thresholds
    CounterCap = 1
    FailureThreshold = 1
    OpenTicks = 1
    Percent = 20
    Minimum = 1
    Faulty = {b1}
    Probed = {}
    Bodies = {"none"}
    Impatient = FALSE
SPECIFICATION Spec
PROPERTY JudgedByItsSnapshot
