CONSTANTS
    page = page
    extra = extra
    bundle = bundle
    NoTree = NoTree
    Paths = {page, extra, bundle}
    InBase = {page}
    Build = {bundle}
    Scratch = {bundle}
    Modes = {"worktree", "shared"}
    Committing = {2}
    MaxRuns = 3
    MaxForeign = 1
    MaxStrays = 1
SPECIFICATION Spec
PROPERTIES ForeignCommitSurvives OnlyTouchedPathsLand NewFilesSurviveRedispatch RunWorkIsSomewhere EverythingWrittenIsPushed
CHECK_DEADLOCK FALSE
