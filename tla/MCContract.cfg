SPECIFICATION ContractSpec
CONSTANTS
    SchemaTable <- mcContractSchemas
    TextLen <- mcLen
    TextNumber <- mcNumber
    TextBoolean <- mcBoolean
    TextDuration <- mcDuration
    Sanitize <- mcSanitize
    CustomFails <- mcCustomFails
    Custom <- mcCustom
    Violations <- mcViolations
    StructViolations <- mcStructViolations
    RoundTrip <- mcRoundTrip
    Normalized <- mcNormalized
    Cases <- mcContractCases
    Entity <- mcEntity
    Refine <- mcRefine
    FileFails <- mcFileFails
    Nesting <- mcNesting
    Modules <- mcModules
    Controllers <- mcControllers
    Routes <- mcRoutes
    Root = "app"
    ExceptionSchema = "problem"
    DocumentBearerAuth = FALSE
    OperationLists <- mcOperationLists
INVARIANTS
    DocumentComplete
    
    DocumentedIsAccepted
    DecidesAsJson
    
    FilesInOrder
    
    
CHECK_DEADLOCK FALSE
