SPECIFICATION Spec
CONSTANTS
    t1 = t1
    t2 = t2
    t3 = t3
    postgresql = postgresql
    redis = redis
    elasticsearch = elasticsearch
    minio = minio
    prometheus = prometheus
    Callers <- ThreeCallers
    BUNDLED_OPERATORS <- Bundled
    max_installed = 2
    require_verified = TRUE
SYMMETRY Symmetry
INVARIANTS
    CapacityExceededByOthersOnly
    SecondInstallOverlaps
