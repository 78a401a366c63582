CONSTANTS
    Pieces <- MCPieces
    DatePattern <- MCDatePattern
    Rows <- MCRows
    MaxText = 7
SPECIFICATION Spec
PROPERTY FilterMeansWhatItSays
