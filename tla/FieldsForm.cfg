CONSTANTS
    Names = {"Ada", "Miren"}
    Items = {"Mir", "Ren"}
    Statuses = {"draft", "canon"}
    Acts <- MCActs
    Eras = {"third_reign"}
    YearOf <- MCYearOf
    Texts <- MCTexts
    Conditions = {"siege_held"}
    Proses <- MCProses
    BaseFiles <- MCBaseFiles
    Numerals <- MCNumerals
    MaxChanges = 3
SPECIFICATION Spec
INVARIANTS UndoLeavesFile
PROPERTY Promise
CHECK_DEADLOCK FALSE
