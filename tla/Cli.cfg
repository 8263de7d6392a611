SPECIFICATION CliSpec
CONSTANTS
    Names <- FourNames
    Types <- ThreeTypes
    Scalars <- TwoScalars
    Apis <- SomeApis
    Exposed = {"b"}
    ArgsJson = "args-json"
    Accepted <- JsonOrRaw
    Lines <- SomeLines
    Null = Null
    Dots = dots
    Secret <- KeyInQuery
CHECK_DEADLOCK FALSE
INVARIANTS
    RequestMeets
    ArgumentsArrive
    ToolsAreCallable
    FlagsArrive
    FlagsSuffice
