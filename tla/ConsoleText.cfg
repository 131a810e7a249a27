CONSTANTS
    VGA_WIDTH = 3
    VGA_LENGTH = 3
    KIO_TABSIZE = 2
    Chars <- AllChars
    MaxIndex = 10
    MaxLine = 5
SPECIFICATION Spec
INVARIANTS TypeOK ShowsText IndicesAgree
