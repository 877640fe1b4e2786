CONSTANTS
    photo = photo
    drawing = drawing
    icon = icon
    None = None
    Requests = {r1, r2}
    Images <- DrawingAndIcon
    Convertible <- Drawing
    Shrinks <- Smaller
    Routes <- Callers
SPECIFICATION Spec
SYMMETRY Interchangeable
INVARIANTS
    RightPicture
    NeverWorse
