CONSTANTS
    WordBits = 8
    HalfMod = 16
    OctetMod = 4
    Files = 2
    Names = {"x", "k", "main"}
    Main = "main"
    Exports <- MCExports
    Corpus <- MCCorpus
    SectionBase <- MCBase
    SectionSize <- MCSize
    MaxSymbols = 4
    Registers = {1, 8, 9}
    SmallValues = {5, 20}
SPECIFICATION Spec
CHECK_DEADLOCK FALSE
INVARIANTS LabelsMeetTheirObject ExportsAgree LayoutIsSound SettingsHold PassesAgree ExpansionsMeanTheStatement
PROPERTIES ConstantsNeverMove
