CONSTANTS
    page = page
    extra = extra
    bundle = bundle
    NoTree = NoTree
    Paths = {page, extra}
    InBase = {page}
    Build = {}
    Scratch = {}
    Modes = {"worktree"}
    Committing = {}
    MaxRuns = 2
    MaxForeign = 0
    MaxStrays = 0
SPECIFICATION Spec
PROPERTIES EarlierDeliveryIsRestored
CHECK_DEADLOCK FALSE
