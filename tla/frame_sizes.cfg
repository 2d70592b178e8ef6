CONSTANTS
    Widths <- SomeWidths
    Heights <- SomeHeights
    Samples <- SomeSamples
    MaxWidth = 20
    SkipPercent = 115
    Align = 4
    MinSide = 8
    MaxHeight = 40
SPECIFICATION Spec
CHECK_DEADLOCK FALSE
INVARIANTS PlanesInBuffer EvenWidthsInPlace FileFits ShapeKept OnlySliversRefused ColoursSound ForetoldSize
