SPECIFICATION Spec
CONSTANTS
    Sources <- MCSources
    Alphabet <- MCAlphabet
    Library <- MCLibrary
    Prelude <- MCPrelude
    LastComponent <- MCLastComponent
    PublicNames <- MCPublicNames
INVARIANTS
    ParserReadsWhatIsMeant
    FormattingKeepsModules
    FormattedStaysFormatted
    NamesMeanWhatIsInScope
    OnlyMeaninglessModulesAreRefused
