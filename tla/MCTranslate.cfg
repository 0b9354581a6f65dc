CONSTANTS
    Lexemes <- AllLexemes
    Sources <- AllSources
    MaxFiles = 2
    ResolveTypeReferences <- Resolve
    BindingModel <- SetBindingModel
    GetType <- TypeOf
    Returned <- Result
    FinishedScope <- FinishScope
SPECIFICATION TranslateSpec
INVARIANTS ParsedIsTail CyclesRefused  CallbacksOnlyComeIn GlueHasThePublic
    GlueIncludesItsTypes
CHECK_DEADLOCK FALSE
